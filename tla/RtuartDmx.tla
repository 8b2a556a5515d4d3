------------------------------ MODULE RtuartDmx ------------------------------
(***************************************************************************)
(* The DMX512/RDM port on a uart (uio-testbench/dmx512/                    *)
(* rtuart_dmx512_client.c) with the interrupt handler and notifications of *)
(* the 16550 (uio-testbench/uart/pc16c550.c) below it.                     *)
(*                                                                         *)
(* The main thread takes interrupts, calls the client's callbacks and      *)
(* sends frames; each callback is one step, except that the callback for   *)
(* received data is split where it has tested rx.frame.  The RDM timer     *)
(* runs its handler on a thread of its own, and no lock keeps the two      *)
(* apart: with Race they interleave, without it each finishes first.       *)
(*                                                                         *)
(* External, from the data sheet of the 16550: octets and breaks reach the *)
(* receive fifo in the order they were sent, an overrun loses them, and    *)
(* the transmitter gets empty after a while.                               *)
(***************************************************************************)
EXTENDS Integers, Sequences, FiniteSetsExt

CONSTANTS
  Entries,       \* frame entries malloc can provide
  NULL,
  DmxSlots,      \* 512
  RdmSlots,      \* 256, assumed size of an RDM frame before it is known
  PosPdl,        \* RDM_POS_PDL (23)
  DiscOctets,    \* octets of a discovery reply after the preamble (16)
  RequiredCount, \* frames of one size before the slot count is locked (10)
  Trigger,       \* octets the receive interrupt reports (8)
  FifoSize,      \* octets the receive fifo holds (16)
  TxOctets,      \* octets of a frame to send
  TxChunk,       \* octets written at once (12)
  Scenarios      \* what is sent and what arrives, see Scenario

CC == 204   \* SC_RDM
SUB == 1    \* SC_SUB_MESSAGE
FE == 254   \* preamble of a discovery reply
AA == 170   \* its end
Fill == 206 \* 0xCE, what the receive buffer is filled with
Break == -1 \* a break in the receive fifo
Good == 255 \* an octet of a discovery reply that is not damaged

\* A setting the port is used in.
Scenario == [kinds : SUBSET {"dmx", "rdm", "disc", "discreply"}, \* frames that are sent
             arriving : SUBSET Seq(0 .. 255 \union {Break}),     \* octets and breaks that arrive
             arrivals : Nat,   \* bounds how many of them arrive
             due : Nat,        \* bounds the timer threads that wait to run
             race : BOOLEAN]   \* the timer thread and the main thread interleave

ASSUME PortAssumption ==
  /\ NULL \notin Entries
  /\ {DmxSlots, RdmSlots, PosPdl, DiscOctets} \subseteq Nat
  /\ {RequiredCount, FifoSize, TxOctets, TxChunk} \subseteq Nat \ {0}
  /\ Trigger \in 3 .. FifoSize
  /\ Scenarios \subseteq Scenario

VARIABLES
  state,     \* port->state
  tx,        \* port->tx: the frame being sent or waiting for its answer
  rx,        \* port->rx: the frame being received; buf: the octets read
  lock,      \* port->rx.slot_count_lock
  timer,     \* the RDM timer is running
  due,       \* timers that have expired and whose threads have not run
  timeout,   \* what the timer thread is about to answer, or NULL
  notify,    \* uart->notify_mask
  ier,       \* the interrupt enable register
  baud,      \* "data" or "break"
  txbusy,    \* the transmitter is not empty
  rxfifo,    \* octets and breaks
  reading,   \* octets receiver_data_available is about to read, or NULL
  used,      \* entries malloc has handed out
  received,  \* frames handed to dmx512_received_frame and not yet fetched
  incoming,  \* what is on its way to the receiver
  arrivals,  \* wire frames so far
  scenario,  \* the setting, which does not change
  sizes,     \* ghost: payload sizes of the last DMX frames
  failed     \* ghost: the branch that reports a failure, or "no"

port == << state, tx, rx, lock, timer >>
thread == << due, timeout >>
uart == << notify, ier, baud, txbusy, rxfifo >>
wire == << incoming, arrivals, scenario >>
frames == << used, received >>
vars == << port, thread, uart, wire, frames, reading, sizes, failed >>

RxStates == {"EXPECT_STARTCODE", "RECEIVE_DMXDATA", "EXPECT_RDM_FRAME",
             "RECEIVE_RDMDATA", "RDMDISC_RECV_PREAMBLE", "RDMDISC_RECV_DATA"}
TxStates == {"TRANSMIT_BREAK", "TRANSMIT_DATA", "WAIT_FOR_TX_COMPLETE"}
DiscStates == {"RDMDISC_RECV_PREAMBLE", "RDMDISC_RECV_DATA"}
ReplyStates == DiscStates \union {"EXPECT_RDM_FRAME", "RECEIVE_RDMDATA"}
Notifications == {"RXAVAILABLE", "TXREADY", "TXEMPTY", "LINEEVENT"}

Answers == {"timeout", "collision", "noreply"}

\* The null pointer is not an answer of the timer thread.
ASSUME NullAssumption ==
  \A what \in Answers, taken \in BOOLEAN, e \in Entries \union {NULL} :
    NULL # [what |-> what, taken |-> taken, frame |-> e]

NoTx == [frame |-> NULL, kind |-> "dmx", remain |-> 0]
Rx(e, n) == [frame |-> e, buf |-> << >>, rdm |-> FALSE, disc |-> FALSE,
             expected |-> n]

\* dmx512_rtuart_client_create and dmx512_rtuart_start
Init ==
  /\ state = "IDLE"
  /\ tx = NoTx
  /\ rx = Rx(NULL, 0)
  /\ lock = [locked |-> FALSE, frames |-> 0, slots |-> 0]
  /\ timer = FALSE
  /\ due = 0
  /\ timeout = NULL
  /\ notify = {"LINEEVENT"}
  /\ ier = {"LINEEVENT"}
  /\ baud = "data"
  /\ txbusy = FALSE
  /\ rxfifo = << >>
  /\ reading = NULL
  /\ used = {}
  /\ received = << >>
  /\ incoming = << >>
  /\ arrivals = 0
  /\ scenario \in Scenarios
  /\ sizes = << >>
  /\ failed = "no"

-----------------------------------------------------------------------------
(* The main thread and the timer thread.                                   *)

Kinds == scenario.kinds
WireFrames == scenario.arriving
MaxArrivals == scenario.arrivals
MaxDue == scenario.due
Race == scenario.race

Alive == failed \in {"no", "unhandled"}

\* The main thread is in its loop, and may run.
Main ==
  /\ Alive
  /\ reading = NULL
  /\ Race \/ (due = 0 /\ timeout = NULL)

-----------------------------------------------------------------------------
(* Notifications.  TXEMPTY has no bit in the interrupt enable register: it *)
(* is found by reading the line status.                                    *)

Ier(mask) == mask \ {"TXEMPTY"}

\* pc16c550_uart_enable_notification after the mask has become `mask'.
Enable(mask, what) ==
  /\ notify' = mask \union what
  /\ ier' = IF what \subseteq mask THEN ier ELSE Ier(mask \union what)

\* pc16c550_uart_disable_notification does nothing when all of `what' is set.
Disabled(mask, what) == IF what \subseteq mask THEN mask ELSE mask \ what

-----------------------------------------------------------------------------
(* Frame entries.                                                          *)

\* What dmx512_get_frame may return: NULL when malloc has none.
NewEntries == IF used = Entries THEN {NULL} ELSE Entries \ used

Gone(es) == used' = used \ es

\* dmx512_received_frame does nothing for a frame that is not there.
Receive(f) == received' = IF f.frame = NULL THEN received ELSE Append(received, f)

\* An answer made from the request itself.
Answer(what) == [frame |-> tx.frame, what |-> what, size |-> 0]

-----------------------------------------------------------------------------
(* dmx512rtuart_checkout_rx_frame and the lock on the slot count.          *)

\* payload_size = rx.count - 1, in 16 bits.
PayloadSize(r) == (Len(r.buf) - 1) % 65536

Startcode(r) ==
  CASE r.disc -> CC
    [] ~r.disc /\ r.buf = << >> -> Fill
    [] OTHER -> r.buf[1]

Relock(n) ==
  CASE lock.locked /\ n # lock.slots ->
         [locked |-> FALSE, frames |-> 0, slots |-> n]
    [] lock.locked /\ n = lock.slots -> lock
    [] ~lock.locked /\ n = lock.slots ->
         [locked |-> lock.frames + 1 = RequiredCount,
          frames |-> lock.frames + 1, slots |-> n]
    [] OTHER -> [locked |-> FALSE, frames |-> 0, slots |-> n]

Checkout(r) ==
  IF r.frame # NULL /\ Startcode(r) = 0
  THEN /\ lock' = Relock(PayloadSize(r))
       /\ sizes' = LET all == Append(sizes, PayloadSize(r))
                   IN  SubSeq(all, 1 + Max({0, Len(all) - RequiredCount}), Len(all))
  ELSE UNCHANGED << lock, sizes >>

Frame(r) == [frame |-> r.frame, what |-> "data", size |-> PayloadSize(r)]

-----------------------------------------------------------------------------
(* The uart and the wire.                                                  *)

wire_starts ==
  /\ Alive
  /\ incoming = << >>
  /\ arrivals < MaxArrivals
  /\ \E w \in WireFrames : incoming' = w
  /\ arrivals' = arrivals + 1
  /\ UNCHANGED << port, thread, uart, scenario, frames, reading, sizes, failed >>

octet_arrives ==
  /\ Alive
  /\ incoming # << >>
  /\ incoming' = Tail(incoming)
  /\ rxfifo' = IF Len(rxfifo) < FifoSize THEN Append(rxfifo, Head(incoming)) ELSE rxfifo
  /\ UNCHANGED << port, thread, notify, ier, baud, txbusy, arrivals, scenario, frames,
                  reading, sizes, failed >>

transmitter_drains ==
  /\ Alive
  /\ txbusy
  /\ txbusy' = FALSE
  /\ UNCHANGED << port, thread, notify, ier, baud, rxfifo, wire, frames,
                  reading, sizes, failed >>

-----------------------------------------------------------------------------
(* Sending.                                                                *)

\* dmx512_rtuart_client_send_frame, which is called when the port is not busy.
\* A frame in reception is handed over as it is.  A discovery reply goes out
\* without a break.
send_frame ==
  /\ Main
  /\ ier = Ier(notify)   \* the interrupt handler has returned
  /\ tx.frame = NULL
  /\ \E kind \in Kinds, e \in Entries \ used :
       LET off == Disabled(notify, {"LINEEVENT", "RXAVAILABLE"})
           quiet == Disabled(off, {"TXREADY"})
       IN  /\ tx' = [frame |-> e, kind |-> kind, remain |-> TxOctets]
           /\ used' = used \union {e}
           /\ IF kind = "discreply"
              THEN /\ state' = "TRANSMIT_DATA"
                   /\ notify' = off \union {"TXREADY"}
                   /\ UNCHANGED << baud, txbusy >>
              ELSE /\ state' = "TRANSMIT_BREAK"
                   /\ notify' = quiet \union {"TXEMPTY"}
                   /\ baud' = "break"
                   /\ txbusy' = TRUE
           /\ ier' = Ier(notify')
  /\ Checkout(rx)
  /\ Receive(Frame(rx))
  /\ rx' = [rx EXCEPT !.frame = NULL, !.buf = << >>, !.rdm = FALSE, !.disc = FALSE]
  /\ UNCHANGED << timer, thread, rxfifo, wire, reading, failed >>

\* pc16c550_handle_irq, THR empty: dmx512rtuart_transmitter_has_space.
irq_thr_empty ==
  /\ Main
  /\ ~txbusy
  /\ "TXREADY" \in ier \intersect notify
  /\ LET mask == notify \ {"TXREADY"}
         n == Min({tx.remain, TxChunk})
     IN  CASE tx.frame = NULL \/ state = "WAIT_FOR_TX_COMPLETE" ->
                /\ notify' = mask
                /\ UNCHANGED << ier, tx, state, txbusy >>
           [] tx.frame # NULL /\ state # "WAIT_FOR_TX_COMPLETE" /\ tx.remain > 0 ->
                /\ tx' = [tx EXCEPT !.remain = @ - n]
                /\ txbusy' = TRUE
                /\ Enable(mask, {"TXREADY"})
                /\ UNCHANGED state
           [] OTHER ->
                /\ state' = "WAIT_FOR_TX_COMPLETE"
                /\ Enable(mask, {"TXEMPTY"})
                /\ UNCHANGED << tx, txbusy >>
  /\ UNCHANGED << rx, lock, timer, thread, baud, rxfifo, wire, frames, reading,
                  sizes, failed >>

\* Mutant of break_sent: the baud rate is not set back.
break_sent_slow(mask) ==
  /\ state = "TRANSMIT_BREAK"
  /\ state' = "TRANSMIT_DATA"
  /\ Enable(mask, {"TXREADY"})
  /\ UNCHANGED << tx, rx, lock, timer, baud, rxfifo, frames, sizes >>

\* dmx512rtuart_transmitter_empty in state TRANSMIT_BREAK: the break is out.
break_sent(mask) ==
  /\ state = "TRANSMIT_BREAK"
  /\ baud' = "data"
  /\ state' = "TRANSMIT_DATA"
  /\ Enable(mask, {"TXREADY"})
  /\ UNCHANGED << tx, rx, lock, timer, rxfifo, frames, sizes >>

\* ... after a discovery request: its reply has no break.
expect_discovery_reply(mask) ==
  /\ tx.kind = "disc"
  /\ \E e \in Entries \ used :
       /\ rx' = [Rx(e, 0) EXCEPT !.rdm = TRUE, !.disc = TRUE]
       /\ used' = used \union {e}
  /\ state' = "RDMDISC_RECV_PREAMBLE"
  /\ timer' = TRUE
  /\ Enable(mask, {"LINEEVENT", "RXAVAILABLE"})
  /\ UNCHANGED << tx, received >>

\* Mutant of expect_reply: the timer is not started.
expect_reply_untimed(mask) ==
  /\ tx.kind \in {"rdm", "discreply"}
  /\ rx' = [rx EXCEPT !.expected = RdmSlots]
  /\ state' = "EXPECT_RDM_FRAME"
  /\ Enable(mask, {"LINEEVENT"})
  /\ UNCHANGED << tx, timer, frames >>

\* ... after any other RDM frame: the reply begins with a break.
expect_reply(mask) ==
  /\ tx.kind \in {"rdm", "discreply"}
  /\ rx' = [rx EXCEPT !.expected = RdmSlots]
  /\ state' = "EXPECT_RDM_FRAME"
  /\ timer' = TRUE
  /\ Enable(mask, {"LINEEVENT"})
  /\ UNCHANGED << tx, frames >>

\* ... and otherwise the transmission is over.
expect_nothing(mask) ==
  /\ tx.kind = "dmx" \/ (tx.kind = "disc" /\ used = Entries)
  /\ rx' = IF tx.kind = "disc" THEN [rx EXCEPT !.frame = NULL] ELSE rx
  /\ Gone({tx.frame})
  /\ tx' = NoTx
  /\ state' = "IDLE"
  /\ Enable(mask, {"LINEEVENT"})
  /\ UNCHANGED << timer, received >>

\* uart16550_handle_lsr finds the transmitter empty: from the interrupt handler
\* or from pc16c550_periodic_check.
lsr_tx_empty ==
  /\ Main
  /\ ~txbusy
  /\ "TXEMPTY" \in notify
  /\ LET mask == notify \ {"TXEMPTY"}
     IN  \/ break_sent(mask)
         \/ /\ state = "WAIT_FOR_TX_COMPLETE"
            /\ \/ expect_discovery_reply(mask)
               \/ expect_reply(mask)
               \/ expect_nothing(mask)
            /\ rxfifo' = << >>
            /\ UNCHANGED << lock, baud, sizes >>
  /\ UNCHANGED << thread, txbusy, wire, reading, failed >>

-----------------------------------------------------------------------------
(* Breaks: dmx512rtuart_line_status_event.                                 *)

\* A break ends the DMX frame before it ...
break_ends_frame ==
  /\ state \in {"IDLE", "RECEIVE_DMXDATA"}
  /\ rx.frame # NULL

\* Mutant of start_reception: the break of the reply stops the timer.
start_reception_untimed(reply) ==
  /\ timer' = (timer /\ ~reply)
  /\ \E e \in Entries \ used :
       /\ rx' = Rx(e, IF reply THEN RdmSlots ELSE DmxSlots)
       /\ state' = IF reply THEN "RECEIVE_RDMDATA" ELSE "EXPECT_STARTCODE"
       /\ used' = used \union {e}
       /\ Enable(notify, {"LINEEVENT", "RXAVAILABLE"})

\* ... and starts the next one, or the reply that is expected.
start_reception(reply) ==
  /\ timer' = (timer \/ reply)
  /\ \E e \in NewEntries :
       IF e = NULL
       THEN /\ rx' = Rx(NULL, rx.expected)
            /\ state' = IF reply THEN "EXPECT_RDM_FRAME" ELSE "IDLE"
            /\ UNCHANGED used
            /\ Enable(notify, {"LINEEVENT"})
       ELSE /\ rx' = Rx(e, IF reply THEN RdmSlots ELSE DmxSlots)
            /\ state' = IF reply THEN "RECEIVE_RDMDATA" ELSE "EXPECT_STARTCODE"
            /\ used' = used \union {e}
            /\ Enable(notify, {"LINEEVENT", "RXAVAILABLE"})

\* uart16550_handle_lsr finds a break at the head of the fifo.
lsr_break ==
  /\ Main
  /\ rxfifo # << >> /\ Head(rxfifo) = Break
  /\ rxfifo' = Tail(rxfifo)
  /\ \/ /\ state \in TxStates
        /\ UNCHANGED << port, notify, ier, frames, sizes >>
     \/ /\ break_ends_frame
        /\ Checkout(rx)
        /\ Receive(Frame(rx))
        /\ start_reception(FALSE)
        /\ UNCHANGED tx
     \/ /\ ~break_ends_frame
        /\ state \in {"IDLE", "EXPECT_RDM_FRAME"}
        /\ start_reception(state = "EXPECT_RDM_FRAME")
        /\ UNCHANGED << tx, lock, received, sizes >>
     \/ /\ ~break_ends_frame
        /\ state \in RxStates \ {"EXPECT_RDM_FRAME"}
        /\ rx' = IF state = "EXPECT_STARTCODE" THEN [rx EXCEPT !.buf = << >>] ELSE rx
        /\ Enable(notify, {"LINEEVENT"})
        /\ UNCHANGED << state, tx, lock, timer, frames, sizes >>
  /\ UNCHANGED << thread, baud, txbusy, wire, reading, failed >>

-----------------------------------------------------------------------------
(* Octets: dmx512rtuart_receiver_data_available.                           *)

\* pc16c550_handle_irq, RX data available (8 octets) or character timeout (1).
irq_rx ==
  /\ Main
  /\ "RXAVAILABLE" \in ier
  /\ rxfifo # << >>
  /\ Head(rxfifo) = Break => "LINEEVENT" \notin ier
  /\ notify' = notify \ {"RXAVAILABLE"}
  /\ IF "RXAVAILABLE" \notin notify
     THEN /\ rxfifo' = << >>
          /\ UNCHANGED << state, reading >>
     ELSE \/ /\ state \in TxStates
             /\ UNCHANGED << state, rxfifo, reading >>
          \/ /\ state \notin TxStates
             /\ rx.frame = NULL
             /\ state' = "IDLE"
             /\ rxfifo' = << >>
             /\ UNCHANGED reading
          \/ /\ state \notin TxStates
             /\ rx.frame # NULL
             /\ reading' = IF Len(rxfifo) >= Trigger THEN Trigger ELSE 1
             /\ UNCHANGED << state, rxfifo >>
  /\ UNCHANGED << tx, rx, lock, timer, thread, ier, baud, txbusy, wire, frames,
                  sizes, failed >>

\* The octets that rtuart_read_chars takes from the fifo: a break reads as 0.
Chars(n) == [i \in 1 .. n |-> IF rxfifo[i] = Break THEN 0 ELSE rxfifo[i]]

Drop(n) == SubSeq(rxfifo, n + 1, Len(rxfifo))

\* dmx512_check_received_data: of the octets in `buf' those from `start' on
\* are new.  An octet that has not arrived reads as Fill.
Octet(buf, i) == IF i < Len(buf) THEN buf[i + 1] ELSE Fill

IsBetween(i, start, buf) == start <= i /\ i <= Len(buf)

IsRdm(r, buf, start) ==
  /\ r.rdm \/ (start = 0 /\ Octet(buf, 0) = CC)
  /\ IsBetween(1, start, buf) => Octet(buf, 1) = SUB

LengthKnown(r, buf, start) ==
  ~r.disc /\ IsRdm(r, buf, start) /\ IsBetween(2, start, buf)

CheckReceived(r, buf, start) ==
  [r EXCEPT
     !.buf = buf,
     !.rdm = IF r.disc THEN r.rdm ELSE IsRdm(r, buf, start),
     !.disc = r.disc \/ /\ IsRdm(r, buf, start)
                        /\ IsBetween(PosPdl, start, buf)
                        /\ Octet(buf, PosPdl) = 12,
     !.expected =
       CASE LengthKnown(r, buf, start) -> Octet(buf, 2) + 2 - 1
         [] ~r.disc /\ ~r.rdm /\ start = 0 /\ Octet(buf, 0) = 0 ->
              IF lock.locked THEN lock.slots ELSE DmxSlots
         [] OTHER -> r.expected]

NoFrame(r) == Rx(NULL, r.expected)

\* The octets complete the frame: it is handed over, and is the answer to the
\* request if there is one.
frame_complete(r) ==
  /\ Checkout(r)
  /\ Receive(Frame(r))
  /\ rx' = NoFrame(r)
  /\ Gone({tx.frame})
  /\ tx' = NoTx
  /\ state' = "IDLE"
  /\ UNCHANGED << notify, ier >>

frame_continues(r) ==
  /\ rx' = r
  /\ state' = IF state = "RECEIVE_RDMDATA" THEN state ELSE "RECEIVE_DMXDATA"
  /\ Enable(notify, {"RXAVAILABLE"})
  /\ UNCHANGED << tx, lock, frames, sizes >>

\* The number of octets to read is computed from the size expected before them.
ToRead ==
  IF Len(rx.buf) + reading < rx.expected + 1
  THEN reading ELSE rx.expected + 1 - Len(rx.buf)

read_frame ==
  /\ state \in {"EXPECT_STARTCODE", "RECEIVE_DMXDATA", "RECEIVE_RDMDATA"}
  /\ ToRead > 0
  /\ LET start == Len(rx.buf)
         buf == rx.buf \o Chars(ToRead)
         r == CheckReceived(rx, buf, start)
         running == timer \/ LengthKnown(rx, buf, start)
         complete == Len(buf) >= rx.expected + 1
     IN  /\ timer' = (running /\ ~(complete /\ tx.frame # NULL /\ tx.kind # "dmx"))
         /\ \/ complete /\ frame_complete(r)
            \/ ~complete /\ frame_continues(r)
  /\ rxfifo' = IF reading > ToRead THEN << >> ELSE Drop(ToRead)
  /\ UNCHANGED failed

\* The frame has all its octets, and more arrive.
read_nothing ==
  /\ state \in {"EXPECT_STARTCODE", "RECEIVE_DMXDATA", "RECEIVE_RDMDATA"}
  /\ ToRead = 0
  /\ state' = IF state = "RECEIVE_RDMDATA" THEN state ELSE "RECEIVE_DMXDATA"
  /\ rxfifo' = << >>
  /\ UNCHANGED << tx, rx, lock, timer, notify, ier, frames, sizes, failed >>

-----------------------------------------------------------------------------
(* Discovery replies: a preamble, its end, and 16 octets.                  *)

\* dmx512rtuart_find_preamble: the octets before the first that is not FE.
PreambleLength(octets) ==
  Min({i \in 0 .. Len(octets) : i < Len(octets) => octets[i + 1] # FE})

\* dmx512rtuart_complete_rdm_discovery_reply
IntactReply(buf) ==
  LET p == PreambleLength(buf)
  IN  \A i \in p + 2 .. p + 1 + DiscOctets : buf[i] = Good

\* The reply is damaged: the request becomes the answer.
answer_collision ==
  /\ timer' = FALSE
  /\ Receive(Answer("collision"))
  /\ tx' = NoTx
  /\ rx' = NoFrame(rx)
  /\ Gone({rx.frame})
  /\ state' = "IDLE"

\* The reply is complete and not damaged.
answer_reply ==
  /\ timer' = FALSE
  /\ Receive([Frame(rx) EXCEPT !.what = "reply", !.size = 0])
  /\ rx' = NoFrame(rx)
  /\ Gone({tx.frame})
  /\ tx' = NoTx
  /\ state' = "IDLE"

\* `n' is the size expected and `buf' what has been received so far.
discovery_data(n, buf) ==
  IF Len(buf) >= n + 1
  THEN /\ \/ IntactReply(buf) /\ answer_reply
          \/ ~IntactReply(buf) /\ answer_collision
       /\ UNCHANGED << notify, ier >>
  ELSE /\ rx' = [rx EXCEPT !.buf = buf, !.expected = n]
       /\ state' = "RDMDISC_RECV_DATA"
       /\ timer' = (timer \/ state = "RDMDISC_RECV_PREAMBLE")
       /\ Enable(notify, {"RXAVAILABLE"})
       /\ UNCHANGED << tx, frames >>

\* Every chunk of the preamble starts the timer again.
discovery_preamble(octets) ==
  LET p == PreambleLength(octets)
  IN  \/ /\ p = Len(octets)
         /\ timer' = TRUE
         /\ rx' = [rx EXCEPT !.buf = @ \o octets]
         /\ Enable(notify, {"RXAVAILABLE"})
         /\ UNCHANGED << state, tx, frames >>
      \/ /\ p < Len(octets)
         /\ octets[p + 1] # AA
         /\ answer_collision
         /\ Enable(notify, {"RXAVAILABLE"})
      \/ /\ p < Len(octets)
         /\ octets[p + 1] = AA
         /\ discovery_data(Len(rx.buf) + p + DiscOctets, rx.buf \o octets)

read_discovery ==
  /\ \/ /\ state = "RDMDISC_RECV_PREAMBLE"
        /\ discovery_preamble(Chars(reading))
     \/ /\ state = "RDMDISC_RECV_DATA"
        /\ discovery_data(rx.expected, rx.buf \o Chars(reading))
  /\ rxfifo' = Drop(reading)
  /\ UNCHANGED << lock, sizes, failed >>

-----------------------------------------------------------------------------
\* The timer thread has taken the frame away: "FATAL: NO DATA BUFFER", or the
\* octets of a discovery reply are written to a null pointer.
no_data_buffer ==
  /\ rx.frame = NULL
  /\ failed' = IF state \in DiscStates THEN "nullwrite" ELSE "nobuffer"

\* The frame has become shorter than what has been read of it: the number of
\* octets to read is negative, and taken as a very large one.
reads_too_much ==
  /\ rx.frame # NULL
  /\ state \in {"EXPECT_STARTCODE", "RECEIVE_DMXDATA", "RECEIVE_RDMDATA"}
  /\ ToRead < 0
  /\ failed' = "overrun"

\* The rest of dmx512rtuart_receiver_data_available.
receiver_data_available ==
  /\ Alive
  /\ reading # NULL
  /\ reading' = NULL
  /\ \/ rx.frame # NULL /\ (read_frame \/ read_nothing \/ read_discovery)
     \/ /\ no_data_buffer \/ reads_too_much
        /\ UNCHANGED << port, notify, ier, rxfifo, frames, sizes >>
  /\ UNCHANGED << thread, baud, txbusy, wire >>

\* The interrupt handler finds no more interrupts.
irq_done ==
  /\ Main
  /\ ier # Ier(notify)
  /\ ier' = Ier(notify)
  /\ UNCHANGED << port, thread, notify, baud, txbusy, rxfifo, wire, frames,
                  reading, sizes, failed >>

\* The main loop takes the list of received frames.
fetch_received ==
  /\ Main
  /\ received # << >>
  /\ received' = << >>
  /\ Gone({received[i].frame : i \in DOMAIN received})
  /\ UNCHANGED << port, thread, uart, wire, reading, sizes, failed >>

-----------------------------------------------------------------------------
(* The RDM timer.                                                          *)

timer_expires ==
  /\ Alive
  /\ timer
  /\ due < MaxDue
  /\ timer' = FALSE
  /\ due' = due + 1
  /\ UNCHANGED << state, tx, rx, lock, timeout, uart, wire, frames, reading,
                  sizes, failed >>

\* dmx512rtuart_handle_rdm_timeout, up to where the reception is given up.
handle_rdm_timeout ==
  /\ Alive
  /\ Race \/ reading = NULL
  /\ due > 0
  /\ timeout = NULL
  /\ due' = due - 1
  /\ \/ /\ tx.frame = NULL
        /\ UNCHANGED << port, timeout, used, sizes, failed >>
     \/ /\ tx.frame # NULL
        /\ state \in ReplyStates
        /\ timer' = (timer /\ state \notin DiscStates)
        /\ timeout' =
             [what |-> CASE state \notin DiscStates -> "noreply"
                         [] state \in DiscStates /\ rx.buf # << >> -> "collision"
                         [] OTHER -> "timeout",
              taken |-> FALSE, frame |-> NULL]
        /\ Checkout(rx)
        /\ Gone({rx.frame})
        /\ rx' = NoFrame(rx)
        /\ UNCHANGED << state, tx, failed >>
     \/ /\ tx.frame # NULL
        /\ state \notin ReplyStates
        /\ failed' = "unhandled"
        /\ UNCHANGED << port, timeout, used, sizes >>
  /\ UNCHANGED << uart, wire, received, reading >>

\* ... dmx512rtuart_checkout_tx_frame reads tx.frame ...
timeout_takes_request ==
  /\ Alive
  /\ timeout # NULL /\ ~timeout.taken
  /\ timeout' = [timeout EXCEPT !.taken = TRUE, !.frame = tx.frame]
  /\ UNCHANGED << port, due, uart, wire, frames, reading, sizes, failed >>

\* Mutant of timeout_answers: the request is given back instead.
timeout_answers_silently ==
  /\ Alive
  /\ timeout # NULL /\ timeout.taken
  /\ Gone({timeout.frame})
  /\ tx' = NoTx
  /\ timeout' = NULL
  /\ UNCHANGED << state, rx, lock, timer, due, uart, wire, received, reading,
                  sizes, failed >>

\* ... and clears it, and the request becomes the answer.  The state stays.
timeout_answers ==
  /\ Alive
  /\ timeout # NULL /\ timeout.taken
  /\ Receive([frame |-> timeout.frame, what |-> timeout.what, size |-> 0])
  /\ tx' = IF timeout.frame = NULL THEN tx ELSE NoTx
  /\ timeout' = NULL
  /\ UNCHANGED << state, rx, lock, timer, due, uart, wire, used, reading, sizes,
                  failed >>

Hardware == wire_starts \/ octet_arrives \/ transmitter_drains
MainThread ==
  \/ send_frame \/ irq_thr_empty \/ lsr_tx_empty \/ lsr_break \/ irq_rx
  \/ receiver_data_available \/ irq_done \/ fetch_received
TimerThread ==
  timer_expires \/ handle_rdm_timeout \/ timeout_takes_request \/ timeout_answers

Next == Hardware \/ MainThread \/ TimerThread

Spec == Init /\ [][Next]_vars

\* The uart finishes what it is given, the main loop polls for ever and serves
\* every interrupt, and a timer that runs expires and gets its thread.  Nothing
\* need ever be sent, arrive or be fetched.
Fairness ==
  /\ WF_vars(octet_arrives) /\ WF_vars(transmitter_drains)
  /\ WF_vars(irq_thr_empty) /\ WF_vars(lsr_tx_empty) /\ WF_vars(lsr_break)
  /\ WF_vars(irq_rx) /\ WF_vars(receiver_data_available) /\ WF_vars(irq_done)
  /\ WF_vars(TimerThread)

LiveSpec == Spec /\ Fairness

-----------------------------------------------------------------------------
(* Properties.                                                             *)

Octets == 0 .. 255
EntriesOrNone == Entries \union {NULL}

TxType == [frame : EntriesOrNone, kind : Kinds \union {"dmx"}, remain : 0 .. TxOctets]
RxType == [frame : EntriesOrNone, buf : Seq(Octets), rdm : BOOLEAN, disc : BOOLEAN,
           expected : Nat]
LockType == [locked : BOOLEAN, frames : 0 .. RequiredCount, slots : Nat]
TimeoutType == [what : Answers, taken : BOOLEAN, frame : EntriesOrNone]
HandedType == [frame : Entries, what : Answers \union {"data", "reply"}, size : Nat]
LineType == Seq(Octets \union {Break})

\* The variables of the port (struct dmx512_uart_port), of the timer and of the
\* uart have their types.
TypeOK ==
  /\ state \in RxStates \union TxStates \union {"IDLE"}
  /\ tx \in TxType /\ rx \in RxType /\ lock \in LockType
  /\ timer \in BOOLEAN /\ txbusy \in BOOLEAN
  /\ due \in 0 .. MaxDue
  /\ timeout \in {NULL} \union TimeoutType
  /\ notify \subseteq Notifications
  /\ ier \subseteq Notifications \ {"TXEMPTY"}
  /\ baud \in {"data", "break"}
  /\ rxfifo \in LineType /\ Len(rxfifo) <= FifoSize
  /\ reading \in {NULL, 1, Trigger}
  /\ used \subseteq Entries
  /\ received \in Seq(HandedType)
  /\ incoming \in LineType
  /\ scenario \in Scenarios
  /\ sizes \in Seq(Nat)
  /\ failed \in {"no", "unhandled", "nobuffer", "nullwrite", "overrun"}

\* Every entry that dmx512_get_frame has handed out is in exactly one place: it
\* is sent, received, or on the list of received frames.  No path through the
\* callbacks and the timer handler forgets one, frees one that is still used or
\* hands one over twice, as long as the timer handler does not run between two
\* steps of the main thread.
EntryOwnership ==
  LET listed == {received[i].frame : i \in DOMAIN received}
  IN  ~Race =>
        /\ used = ({tx.frame, rx.frame} \union listed) \ {NULL}
        /\ tx.frame = rx.frame => tx.frame = NULL
        /\ {tx.frame, rx.frame} \intersect listed = {}
        /\ \A i, j \in DOMAIN received : received[i].frame = received[j].frame => i = j

\* While the port waits for the answer to a request, the timer runs or its
\* handler is about to run: a device that is silent cannot block the port.
AwaitedReplyHasTimer ==
  tx.frame # NULL /\ state \in ReplyStates => timer \/ due > 0 \/ timeout # NULL

\* No octet of a frame is written while the baud rate is the one for the break
\* (dmx512rtuart_transmitter_has_space after dmx512_rtuart_client_send_frame),
\* under the same condition.
DataAtFullSpeed ==
  [][~Race /\ tx'.frame = tx.frame /\ tx'.remain # tx.remain => baud = "data"]_vars

\* An RDM request leaves the port only in a step that hands a frame to the
\* receiver: the reply, or the request turned into an answer.  The exception is
\* a discovery request for whose reply there is no memory.
RequestsAnswered ==
  [][tx.frame # NULL /\ tx.kind # "dmx" /\ tx'.frame = NULL =>
       \/ Len(received') = Len(received) + 1
       \/ used = Entries]_vars

\* The slot count is locked only while the last required_count DMX frames that
\* were received had that many slots.
LockNeedsRepeats ==
  lock.locked =>
    Len(sizes) = RequiredCount /\ \A i \in DOMAIN sizes : sizes[i] = lock.slots

\* A frame is in reception exactly in the states that read octets into it, so
\* that a break, a chunk of octets or the timer always finds the other half.
\* After a timeout the state stays without a frame.
ReceptionHasState ==
  rx.frame # NULL =>
    state \in RxStates \ {"EXPECT_RDM_FRAME"} /\ (state \in DiscStates => rx.rdm /\ rx.disc)

\* A frame that is being sent, or waits for its answer, leaves the port after a
\* while, so that the next one can be sent, unless the program has reported a
\* failure or the timer has run out in a state its handler does not know.
TransmitterFreed == tx.frame # NULL ~> (tx.frame = NULL \/ failed # "no")

-----------------------------------------------------------------------------
(* What comments in the code say of the port.                              *)

\* "TODO: find error why receiver is enabled while in TX-State"
\* (dmx512rtuart_receiver_data_available): it is meant to be disabled.
ReceiverOffInTxState == state \in TxStates => "RXAVAILABLE" \notin notify

\* "TODO: should not happen" (dmx512rtuart_handle_rdm_timeout, default).
TimeoutStateHandled == failed # "unhandled"

\* "FATAL: NO DATA BUFFER" (dmx512rtuart_receiver_data_available).
DataBufferPresent == failed # "nobuffer"

\* "number of octets in the payload." (dmx512frame.h), which holds 512.
PayloadSizeFits == \A i \in DOMAIN received : received[i].size <= DmxSlots

\* "this is an RDM frame" (dmx512_check_received_data): once its first two
\* octets have been read, an RDM frame has the flag.
RdmFrameFlagged ==
  rx.frame # NULL /\ Len(rx.buf) >= 2 /\ rx.buf[1] = CC /\ rx.buf[2] = SUB => rx.rdm

\* "After transmitting an rdm frame wait for the break." (enum
\* dmx512_uart_state): a reply is waited for only while there is a request.
ReplyHasRequest ==
  state \in {"EXPECT_RDM_FRAME", "RECEIVE_RDMDATA"} => tx.frame # NULL

\* The port's records agree: entries have one owner, a wait for a reply has its
\* timer, a reception the state that reads it, and a lock the frames it needs.
PortConsistent ==
  /\ TypeOK
  /\ EntryOwnership
  /\ AwaitedReplyHasTimer
  /\ ReceptionHasState
  /\ LockNeedsRepeats

=============================================================================
