----------------------------- MODULE CuseBoards -----------------------------
(***************************************************************************)
(* The frame paths of three CUSE card drivers: the llgip DMX core behind   *)
(* UIO (dmx512_cuse_llgip.c), a serial port (dmx512_cuse_uart.c) and the   *)
(* PWM controller (dmx512_cuse_pwm.c).  A server process drives one board. *)
(*                                                                         *)
(* The thread of fuse_multisession_loop runs every handler: a write that   *)
(* calls sendFrame, and for llgip the UIO interrupt that drains the        *)
(* receive fifos.  The hardware runs beside it, so reading a fifo, waiting *)
(* for a transmitter and every change of the serial line are steps of      *)
(* their own.                                                              *)
(***************************************************************************)
EXTENDS Integers, Sequences, FiniteSetsExt

CONSTANTS
  Boards,     \* the drivers of this instance, out of llgip, uart and pwm
  Ports,      \* the ports of the llgip core: 0..(num_ports - 1)
  FrameMax,   \* octets of a whole frame, start code included (513)
  Threshold,  \* repetion_count_treshold (20)
  RxFifo,     \* words a receive fifo of the core holds
  TxFrames,   \* frames that clients send: << port, payload_size >>
  BreakPolls, \* polls of TIOCSERGETLSR in which a break octet leaves
  MaxBreaks,  \* bound: MaxBreaks[p], breaks on the wire of port p
  MaxOctets,  \* bound: MaxOctets[p], octets after a break on that wire
  MaxFrames   \* bound: breaks on the wires and frames that clients send

ASSUME FrameAssumption == FrameMax \in Nat /\ FrameMax >= 2
ASSUME ThresholdAssumption == Threshold \in Nat
ASSUME FifoAssumption == RxFifo \in Nat \ {0}

\* A frame has at most as many slots as fit behind its start code.
ASSUME PayloadAssumption == TxFrames \subseteq Ports \X (0..(FrameMax - 1))

\* A word of a fifo: a break, the start code (zero or another) or a slot.
Words == {"break", "zero", "other", "slot"}
TxFifo == FrameMax + 1

VARIABLES
  board,    \* the driver main() configured
  server,   \* where the server thread is: [pc, port, ...]
  irqMasked,\* the kernel holds the UIO interrupt back (uio_enable_interrupt)
  rxfifo,   \* rxfifo[p]: words the core has received
  txfifo,   \* txfifo[p]: words the core has to send
  state,    \* the fields of struct llgdmx_port, by port
  payload_size,
  locked, learnedsize, lastsize, repetion_count,
  line,     \* the serial line: [rts, baud, octet]; octet is the rate of an
            \* octet that is still being shifted out, or "none"
  channels, \* the PWM registers: the number of the frame that set each
  wire,     \* on the wire of p: [octets, breaks], octets since the break
  heard,    \* ghost, of the frame being read: [zero, n, handed, size]
  done,     \* ghost: the same of the last whole frame read
  run,      \* ghost: [size, n], n whole frames of that size in a row
  out,      \* ghost: words that left the transmitter of p
  frames,   \* ghost: frames[p], the words of the frames sent to p
  sent      \* frames that clients have sent, for the bound

learning == << locked, learnedsize, lastsize, repetion_count >>
port == << state, payload_size, learning >>
core == << irqMasked, rxfifo, txfifo, wire, out >>
ghost == << heard, done, run >>
clients == << frames, sent >>
vars == << board, server, core, port, line, channels, ghost, clients >>

\* Frames so far, in both directions.
Busy == sent + MapThenSumSet(LAMBDA p : wire[p].breaks, Ports)

Idle == [pc |-> "idle", port |-> 0, size |-> 0, polls |-> 0]
Silent == [zero |-> FALSE, n |-> 0, handed |-> 0, size |-> 0]

\* main() clears the card, sets the threshold and num_ports; dmxllgip_init
\* sets up the receivers; uartdmx_init leaves the port at the DMX rate.
Init ==
  /\ board \in Boards
  /\ server = Idle
  /\ irqMasked = FALSE
  /\ rxfifo = [p \in Ports |-> << >>]
  /\ txfifo = [p \in Ports |-> << >>]
  /\ state = [p \in Ports |-> 0]
  /\ payload_size = [p \in Ports |-> 0]
  /\ locked = [p \in Ports |-> FALSE]
  /\ learnedsize = [p \in Ports |-> 0]
  /\ lastsize = [p \in Ports |-> 0]
  /\ repetion_count = [p \in Ports |-> 0]
  /\ line = [rts |-> FALSE, baud |-> "dmx", octet |-> "none"]
  /\ channels = [i \in 1..(FrameMax - 1) |-> 0]
  /\ wire = [p \in Ports |-> [octets |-> MaxOctets[p], breaks |-> 0]]
  /\ heard = [p \in Ports |-> Silent]
  /\ done = [p \in Ports |-> Silent]
  /\ run = [p \in Ports |-> [size |-> 0, n |-> 0]]
  /\ out = [p \in Ports |-> << >>]
  /\ frames = [p \in Ports |-> << >>]
  /\ sent = 0

-----------------------------------------------------------------------------
(* The llgip core. *)

\* A word arrives from the wire; a full fifo loses it.
Hear(p, w) ==
  /\ rxfifo' = IF Len(rxfifo[p]) < RxFifo
               THEN [rxfifo EXCEPT ![p] = Append(@, w)] ELSE rxfifo
  /\ UNCHANGED << board, server, irqMasked, txfifo, out, port, line,
                  channels, ghost, clients >>

WireBreak(p) ==
  /\ board = "llgip"
  /\ wire[p].breaks < MaxBreaks[p] /\ Busy < MaxFrames
  /\ wire' = [wire EXCEPT ![p] = [octets |-> 0, breaks |-> @.breaks + 1]]
  /\ Hear(p, "break")

\* The start code and then slots.
WireOctet(p) ==
  /\ board = "llgip"
  /\ wire[p].octets < MaxOctets[p]
  /\ wire' = [wire EXCEPT ![p].octets = @ + 1]
  /\ \/ wire[p].octets = 0 /\ (Hear(p, "zero") \/ Hear(p, "other"))
     \/ wire[p].octets > 0 /\ Hear(p, "slot")

\* A word leaves the transmitter.
Transmit(p) ==
  /\ txfifo[p] # << >>
  /\ out' = [out EXCEPT ![p] = Append(@, Head(txfifo[p]))]
  /\ txfifo' = [txfifo EXCEPT ![p] = Tail(@)]
  /\ UNCHANGED << board, server, irqMasked, rxfifo, wire, port, line,
                  channels, ghost, clients >>

-----------------------------------------------------------------------------
(* Receiving: handle_llgdmx_interrupt and llgdmx_check_rx.                 *)

\* uio_wait_for_interrupt returns: the kernel masks the interrupt, and
\* llgdmx_check_rx reads the status of all ports once.
handle_llgdmx_interrupt ==
  /\ board = "llgip" /\ server.pc = "idle" /\ ~irqMasked
  /\ \E p \in Ports : rxfifo[p] # << >>
  /\ irqMasked' = TRUE
  /\ server' = [pc |-> "rx", port |-> 0, size |-> 0,
                irqstat |-> {p \in Ports : rxfifo[p] # << >>}]
  /\ UNCHANGED << board, rxfifo, txfifo, wire, out, port, line, channels,
                  ghost, clients >>

\* dmx512_cuse_handle_received_frame(card->card, frame), as h' records it.
Handed(h, size) == [h EXCEPT !.handed = @ + 1, !.size = size]

\* "lost framesize lock": the values the lock is reset to.
LoseLock(p) ==
  /\ locked' = [locked EXCEPT ![p] = FALSE]
  /\ learnedsize' = [learnedsize EXCEPT ![p] = FrameMax - 1]
  /\ lastsize' = [lastsize EXCEPT ![p] = FrameMax - 1]
  /\ repetion_count' = [repetion_count EXCEPT ![p] = 0]

\* A whole frame of this size has passed and the lock is not held.
LearnSize(p) ==
  LET size == payload_size[p]
      count == IF size = lastsize[p] THEN repetion_count[p] + 1 ELSE 0
  IN  /\ repetion_count' = [repetion_count EXCEPT ![p] = count]
      /\ locked' = [locked EXCEPT ![p] = count > Threshold]
      /\ learnedsize' = [learnedsize EXCEPT
                           ![p] = IF count > Threshold THEN lastsize[p] ELSE @]
      /\ lastsize' = [lastsize EXCEPT ![p] = size]

\* CONFIG_LEARN_RXSIZE at a break: a frame that was not handed on yet is
\* compared with the size learned.
CheckSize(p) ==
  CASE payload_size[p] = 0 -> UNCHANGED learning
    [] payload_size[p] > 0 /\ ~locked[p] -> LearnSize(p)
    [] OTHER -> IF payload_size[p] # lastsize[p] THEN LoseLock(p)
                ELSE UNCHANGED learning

\* A break: what was collected since the last one is a frame.
ReadBreak(p) ==
  /\ CheckSize(p)
  /\ heard' = [heard EXCEPT ![p] = Silent]
  /\ done' = [done EXCEPT ![p] = IF payload_size[p] > 0
                                 THEN Handed(heard[p], payload_size[p])
                                 ELSE heard[p]]
  /\ state' = [state EXCEPT ![p] = 1]
  /\ payload_size' = [payload_size EXCEPT ![p] = 0]

\* The octet after a break; a slot, when the start code itself was lost, may
\* hold any value.
ReadStartcode(p, w) ==
  /\ state[p] = 1
  /\ \E zero \in IF w = "slot" THEN BOOLEAN ELSE {w = "zero"} :
       /\ heard' = [heard EXCEPT ![p].zero = zero, ![p].n = 1]
       /\ payload_size' = [payload_size EXCEPT ![p] = IF zero THEN 1 ELSE @]
       /\ state' = [state EXCEPT ![p] = IF zero THEN 2 ELSE 0]
  /\ UNCHANGED << learning, done >>

\* A slot: stored while there is room, and when the lock is held the frame is
\* handed on with the last slot expected.
ReadSlot(p) ==
  LET size == payload_size[p] + 1
      complete == locked[p] /\ size = learnedsize[p]
      more == [heard[p] EXCEPT !.n = @ + 1]
  IN  /\ state[p] = 2
      /\ IF payload_size[p] < FrameMax
         THEN /\ heard' = [heard EXCEPT ![p] = IF complete THEN Handed(more, size)
                                               ELSE more]
              /\ payload_size' = [payload_size EXCEPT
                                    ![p] = IF complete THEN 0 ELSE size]
              /\ state' = [state EXCEPT ![p] = IF complete THEN 0 ELSE 2]
         ELSE /\ heard' = [heard EXCEPT ![p] = more]
              /\ UNCHANGED << payload_size, state >>
      /\ UNCHANGED << learning, done >>

\* Mutant of SkipSlot: the rest of a frame that was cut says nothing.
SkipSlotKeepingLock(p) ==
  /\ state[p] = 0
  /\ heard' = [heard EXCEPT ![p].n = @ + 1]
  /\ UNCHANGED << learning, state, payload_size, done >>

\* A slot nobody asked for: after a frame cut at the learned size it shows
\* that the frame was longer.
SkipSlot(p) ==
  /\ state[p] = 0
  /\ heard' = [heard EXCEPT ![p].n = @ + 1]
  /\ IF locked[p] THEN LoseLock(p) ELSE UNCHANGED learning
  /\ UNCHANGED << state, payload_size, done >>

\* Ghost: whole frames with start code zero, counted by size as heard.
CountRun(p, w) ==
  LET h == heard[p]
      size == IF h.n > FrameMax THEN FrameMax ELSE h.n
  IN  run' = IF w = "break" /\ h.zero
             THEN [run EXCEPT ![p] = [size |-> size, n |-> IF @.size = size
                                                          THEN @.n + 1 ELSE 1]]
             ELSE run

\* One turn of the loop in llgdmx_check_rx_port, or its end when the fifo is
\* empty; ports whose status bit was clear are passed over.
llgdmx_check_rx_port ==
  LET p == server.port
  IN  /\ server.pc = "rx" /\ p \in Ports
      /\ UNCHANGED << board, irqMasked, txfifo, wire, out, line, channels, clients >>
      /\ IF p \notin server.irqstat \/ rxfifo[p] = << >>
         THEN /\ server' = [server EXCEPT !.port = p + 1]
              /\ UNCHANGED << rxfifo, port, ghost >>
         ELSE LET w == Head(rxfifo[p])
              IN  /\ rxfifo' = [rxfifo EXCEPT ![p] = Tail(@)]
                  /\ \/ w = "break" /\ ReadBreak(p)
                     \/ w # "break" /\ ReadStartcode(p, w)
                     \/ w # "break" /\ ReadSlot(p)
                     \/ w # "break" /\ SkipSlot(p)
                  /\ CountRun(p, w)
                  /\ UNCHANGED server

\* Mutant of EnableInterrupt: enabled again only if the last port had data.
EnableInterruptForLastPort ==
  /\ server.pc = "rx" /\ server.port \notin Ports
  /\ server' = Idle
  /\ irqMasked' = (server.port - 1 \notin server.irqstat)
  /\ UNCHANGED << board, rxfifo, txfifo, wire, out, port, line, channels,
                  ghost, clients >>

\* After the last port the interrupt is enabled again.
EnableInterrupt ==
  /\ server.pc = "rx" /\ server.port \notin Ports
  /\ server' = Idle
  /\ irqMasked' = FALSE
  /\ UNCHANGED << board, rxfifo, txfifo, wire, out, port, line, channels,
                  ghost, clients >>

-----------------------------------------------------------------------------
(* Sending: the write handler of the CUSE core calls sendFrame.            *)

\* The words dmxllgip_ll_sendFrame writes.
FrameWords(size) == << "break", "zero" >> \o [i \in 1..size |-> "slot"]

\* dmxllgip_sendFrame: the whole server waits for the transmitter.
dmxllgip_sendFrame(p, size) ==
  /\ board = "llgip" /\ server.pc = "idle" /\ Busy < MaxFrames
  /\ size > 0
  /\ server' = [pc |-> "txwait", port |-> p, size |-> size]
  /\ sent' = sent + 1
  /\ frames' = [frames EXCEPT ![p] = @ \o FrameWords(size)]
  /\ UNCHANGED << board, core, port, line, channels, ghost >>

\* The wait ends when TXFIFOEMPTY is set; a full fifo would lose words.
dmxllgip_ll_sendFrame ==
  /\ server.pc = "txwait" /\ txfifo[server.port] = << >>
  /\ txfifo' = [txfifo EXCEPT ![server.port] =
                  LET f == FrameWords(server.size)
                  IN SubSeq(f, 1, IF Len(f) < TxFifo THEN Len(f) ELSE TxFifo)]
  /\ server' = Idle
  /\ UNCHANGED << board, irqMasked, rxfifo, wire, out, port, line, channels,
                  ghost, clients >>

\* pwmdmx_sendFrame: the slots go to the registers; payload_size counts the
\* start code here.
pwmdmx_sendFrame(size) ==
  /\ board = "pwm" /\ server.pc = "idle" /\ Busy < MaxFrames
  /\ size > 0
  /\ sent' = sent + 1
  /\ channels' = [i \in DOMAIN channels |->
                    IF i <= size - 1 THEN sent' ELSE channels[i]]
  /\ UNCHANGED << board, server, core, port, line, ghost, frames >>

-----------------------------------------------------------------------------
(* The serial port: uartdmx_sendFrame drives RTS and makes the break out   *)
(* of a zero octet at a lower rate.  The slots are not sent (#if 0).       *)

uartdmx_sendFrame ==
  /\ board = "uart" /\ server.pc = "idle" /\ Busy < MaxFrames
  /\ sent' = sent + 1
  /\ line' = [line EXCEPT !.rts = TRUE]
  /\ \E nobreak \in BOOLEAN :
       server' = [pc |-> IF nobreak THEN "rts" ELSE "break", port |-> 0,
                  size |-> 0, polls |-> 0]
  /\ UNCHANGED << board, core, port, channels, ghost, frames >>

\* uartdmx_select_break_baudrate and the write of the zero octet.
uartdmx_send_break ==
  /\ server.pc = "break"
  /\ line' = [line EXCEPT !.baud = "break", !.octet = "break"]
  /\ server' = [server EXCEPT !.pc = "poll"]
  /\ UNCHANGED << board, core, port, channels, ghost, clients >>

\* The octet has left the shift register.
OctetLeaves ==
  /\ line.octet # "none"
  /\ line' = [line EXCEPT !.octet = "none"]
  /\ UNCHANGED << board, server, core, port, channels, ghost, clients >>

\* Mutant of TimeoutPolls: a timeout of 1000 us counted as two sleeps of 500.
TimeoutPollsShort == 1

\* The sleeps of 500 us after which timeoutUs, 1000 at first, is negative.
TimeoutPolls == 3

\* uartdmx_waitUntilTransmitterEmpty: one turn of its loop.  An octet that
\* had BreakPolls polls to leave has left.
Poll ==
  /\ server.pc = "poll"
  /\ line.octet # "none" => server.polls < BreakPolls
  /\ \/ /\ line.octet = "none" \/ server.polls + 1 >= TimeoutPolls
        /\ line' = [line EXCEPT !.baud = "dmx"]
        /\ server' = [server EXCEPT !.pc = "rts"]
     \/ /\ line.octet # "none" /\ server.polls + 1 < TimeoutPolls
        /\ server' = [server EXCEPT !.polls = @ + 1]
        /\ UNCHANGED line
  /\ UNCHANGED << board, core, port, channels, ghost, clients >>

\* uartdmx_set_rts(user->uartfd, 0).
ReleaseLine ==
  /\ server.pc = "rts"
  /\ line' = [line EXCEPT !.rts = FALSE]
  /\ server' = Idle
  /\ UNCHANGED << board, core, port, channels, ghost, clients >>

-----------------------------------------------------------------------------
Next ==
  \/ \E p \in Ports : WireBreak(p) \/ WireOctet(p) \/ Transmit(p)
  \/ \E f \in TxFrames : dmxllgip_sendFrame(f[1], f[2]) \/ pwmdmx_sendFrame(f[2])
  \/ handle_llgdmx_interrupt \/ llgdmx_check_rx_port \/ EnableInterrupt
  \/ dmxllgip_ll_sendFrame
  \/ uartdmx_sendFrame \/ uartdmx_send_break \/ OctetLeaves \/ Poll
  \/ ReleaseLine

Spec == Init /\ [][Next]_vars

\* The server thread runs, the core sends what its fifo holds and the shift
\* register of the serial port empties.
FairSpec ==
  /\ Spec
  /\ WF_vars(handle_llgdmx_interrupt \/ llgdmx_check_rx_port \/ EnableInterrupt
             \/ dmxllgip_ll_sendFrame \/ uartdmx_send_break \/ Poll
             \/ ReleaseLine)
  /\ \A p \in Ports : WF_vars(Transmit(p))
  /\ WF_vars(OctetLeaves)

-----------------------------------------------------------------------------
Whole(h) == IF h.n > FrameMax THEN FrameMax ELSE h.n

\* The fields keep their ranges; payload_size never passes the 513 octets of
\* frame->data.
TypeOK ==
  /\ board \in Boards
  /\ state \in [Ports -> 0..2]
  /\ payload_size \in [Ports -> 0..FrameMax]
  /\ learnedsize \in [Ports -> 0..FrameMax]
  /\ lastsize \in [Ports -> 0..FrameMax]
  /\ repetion_count \in [Ports -> 0..(Threshold + 1)]
  /\ \A p \in Ports : rxfifo[p] \in Seq(Words) /\ Len(rxfifo[p]) <= RxFifo

\* llgdmx_check_rx_port hands a frame with start code zero to the core once,
\* at the learned size or at the next break, and never a frame with another
\* start code.
FrameHandedOnce ==
  \A p \in Ports :
    /\ heard[p].handed <= 1
    /\ done[p].handed = IF done[p].zero THEN 1 ELSE 0

\* A frame is handed on with all its octets, up to the size of the buffer;
\* one that was cut at the learned size has cost the port its lock, so that
\* the next one is complete.
CutFrameLosesLock ==
  \A p \in Ports :
    done[p].zero => \/ done[p].size = Whole(done[p])
                    \/ done[p].size < Whole(done[p]) /\ ~locked[p]

\* The size lock is held only after repetion_count_treshold + 1 whole frames
\* in a row of the very size it expects.
LockNeedsEqualFrames ==
  \A p \in Ports :
    locked[p] => run[p].size = learnedsize[p] /\ run[p].n > Threshold

\* The frame for port p that the server is about to write.
Waiting(p) ==
  IF server.pc = "txwait" /\ server.port = p THEN FrameWords(server.size) ELSE << >>

\* What left a transmitter of the llgip core, what its fifo still holds and the
\* frame the server is about to write are the frames sent to that port, whole
\* and in order.
SentFramesWhole ==
  \A p \in Ports : (out[p] \o txfifo[p]) \o Waiting(p) = frames[p]

\* uartdmx_send_break: the octet that makes the break leaves at the break
\* rate, with the line driver on, and neither changes under it.
BreakAtBreakRate ==
  line.octet # "none" => line.baud = line.octet /\ line.rts

\* payload_size of a received frame is the "number of octets in the payload"
\* (dmx512frame.h), the start code not among them.
PayloadSizeCountsPayload ==
  \A p \in Ports : done[p].handed = 1 => done[p].size < Whole(done[p])

\* No word stays in a receive fifo, though the status of all ports is read
\* once per interrupt and the interrupt is masked while fifos are read.
EveryWordRead ==
  \A p \in Ports : rxfifo[p] # << >> ~> rxfifo[p] = << >>

\* What llgdmx_check_rx_port hands on: every frame once, whole or at the price
\* of the lock, and the lock only after enough equal frames.
ReceiverConsistent ==
  /\ TypeOK
  /\ FrameHandedOnce
  /\ CutFrameLosesLock
  /\ LockNeedsEqualFrames

\* What the drivers send: the llgip's frames are whole in its fifo and on the
\* line, and the serial driver's break is one.
SendersConsistent == SentFramesWhole /\ BreakAtBreakRate

=============================================================================
