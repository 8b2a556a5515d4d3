----------------------------- MODULE RtuartPort -----------------------------
(***************************************************************************)
(* The DMX512/RDM port of the second uart interface (uio-testbench/rtuart/ *)
(* t_dmxrtuart.c) on the drivers of its two uarts, the 16550               *)
(* (rtuart_pc16c550.c) and the PL011 (rtuart_pl011.c).                     *)
(*                                                                         *)
(* The main thread sends frames, runs RDM timeouts and passes on what was  *)
(* received; the interrupt thread (rtuart_factory.c) runs the driver and,  *)
(* from it, the port's callbacks; a timer thread only raises a flag.  No   *)
(* lock keeps them apart.  A step is one pass of a driver's loop with the  *)
(* callbacks it makes, or the part of a main thread's call up to the       *)
(* usleep of the break.  With Race the main thread may also run between    *)
(* the driver's last write of its interrupt mask and in_irq = 0.           *)
(*                                                                         *)
(* malloc does not fail, and the receive fifo does not overrun (an overrun *)
(* is only logged).  Modem status is only logged too.                      *)
(***************************************************************************)
EXTENDS Integers, Sequences, FiniteSets, FiniteSetsExt, SequencesExt

CONSTANTS
  Entries,      \* numbers: the frames malloc can provide
  NULL,
  Chips,        \* the uarts rtuart_create is asked for: "pc16c550", "pl011"
  DmxMax,       \* 512
  DiscMax,      \* octets kept of a discovery reply (513 - 258)
  DiscOctets,   \* octets of a discovery reply after its preamble (16)
  Required,     \* slot_count_lock.required_count (10)
  Trigger,      \* octets at which the receive interrupt comes (4)
  FifoSize,     \* bounds the octets the receive fifo holds (16)
  TxSpace,      \* octets the transmit fifo holds (16)
  TxChunk,      \* octets the 16550 driver writes at once (8)
  PollBelow,    \* rest of a frame for which the PL011 is polled (4)
  LevelOffset,  \* distance of the PL011's transmit level (2)
  TxOctets,     \* octets of a frame to send
  Kinds,        \* kinds of frame sent: "dmx", "rdm", "broadcast", "disc", "discreply"
  WireFrames,   \* octets that may follow a break on the line
  Replies,      \* octets that may arrive without a break
  MaxSends,     \* bounds the frames sent
  MaxWire,      \* bounds what arrives
  MaxTraffic,   \* bounds both together
  Prompt,       \* the driver is done before a break comes and before data follows it,
                \* and the line does not pause within a frame
  Race          \* the main thread may run while the driver leaves

CC == 204    \* SC_RDM
SUB == 1     \* SC_SUB_MESSAGE
PosLength == 2
FE == 254    \* preamble of a discovery reply
AA == 170    \* its end
Good == 255  \* an undamaged octet of a discovery reply
Break == -1  \* a break in the receive fifo

ASSUME RtuartPortAssumption ==
  /\ Entries \subseteq Nat /\ IsFiniteSet(Entries)
  /\ 2 * MaxSends + MaxWire <= Cardinality(Entries)
  /\ NULL \notin Entries
  /\ Chips \subseteq {"pc16c550", "pl011"}
  /\ {DmxMax, DiscMax, DiscOctets, Required, LevelOffset, MaxSends, MaxWire, MaxTraffic} \subseteq Nat
  /\ {Trigger, FifoSize, TxSpace, TxChunk, TxOctets} \subseteq Nat \ {0}
  /\ TxChunk <= TxSpace
  /\ PollBelow > LevelOffset
  /\ Kinds \subseteq {"dmx", "rdm", "broadcast", "disc", "discreply"}
  /\ WireFrames \union Replies \subseteq Seq(0 .. 255)
  /\ {Prompt, Race} \subseteq BOOLEAN

VARIABLES
  chip,      \* the driver rtuart_create chose
  port,      \* struct dmx512_uart_port, and the buffers and notifications of its uart
  main,      \* the main thread: "loop", "break" (in usleep), "joining", "stopped"
  irq,       \* the interrupt thread: "out", "in", "recv", "leaving", "exited"
  ier,       \* the interrupt enable register: IER or IMSC
  tasklet,   \* the PL011's tasklet is scheduled
  polling,   \* pl011->do_tx_polling
  fifobuf,   \* the buffer argument of the PL011's handle_received_data is set
  txfifo,    \* octets in the transmit fifo
  shifting,  \* the transmitter's shift register is busy
  txint,     \* the transmit interrupt is latched
  txlevel,   \* the PL011's transmit interrupt level
  rxfifo,    \* octets and breaks
  rxidle,    \* the receiver's character timeout is latched
  breakint,  \* the PL011's break interrupt is latched
  incoming,  \* octets still to arrive
  sends,     \* frames sent so far
  arrivals   \* frames arrived so far

(* Two fields of port are ghosts: wire holds what came over the line since *)
(* the last break the port was told of, or NULL when the port does not     *)
(* follow the line; sizes are those of the last frames the lock was told.  *)

uart == << ier, tasklet, polling, fifobuf >>
txhw == << txfifo, shifting, txint, txlevel >>
rxhw == << rxfifo, rxidle, breakint >>
bounds == << sends, arrivals >>
vars == << chip, port, main, irq, uart, txhw, rxhw, incoming, bounds >>

Notifications == {"READY", "EMPTY", "HASDATA", "TIMEOUT", "EVENT"}
TxStates == {"TRANSMIT_BREAK_ONEWAY", "TRANSMIT_DATA_ONEWAY",
             "TRANSMIT_BREAK_TWOWAY", "TRANSMIT_DATA_TWOWAY"}
DiscStates == {"RECV_RDMDISC_REPLY", "RECV_RDMDISC_REPLY_COLLISION"}
ReplyStates == DiscStates \union {"EXPECT_RDM_REPLY_BREAK", "RECV_RDM_REPLY_DATA"}
IdleStates == {"IDLE", "IDLE_AFTER_DMXDATA00"}
FrameStates == {"EXPECT_STARTCODE", "RECEIVE_DMXDATA", "RECV_RDM_REPLY_DATA"}

NoLock == [locked |-> FALSE, frames |-> 0, slots |-> 0]

\* rtuart_pc16c550_create or rtuart_pl011_create, dmx512_rtuart_client_create
Init ==
  /\ chip \in Chips
  /\ port = [state |-> "IDLE", tx |-> NULL, kind |-> "dmx", sent |-> 0,
             rx |-> NULL, buf |-> << >>, valid |-> 0, triggers |-> {},
             lock |-> NoLock, timer |-> "off", flag |-> FALSE, txen |-> FALSE,
             notify |-> {"EVENT"}, txbuf |-> FALSE, rxbuf |-> FALSE,
             used |-> {}, received |-> << >>, wire |-> NULL, sizes |-> << >>]
  /\ main = "loop"
  /\ irq = "out"
  /\ ier = {"EVENT"}
  /\ tasklet = FALSE
  /\ polling = FALSE
  /\ fifobuf = FALSE
  /\ txfifo = 0
  /\ shifting = FALSE
  /\ txint = FALSE
  /\ txlevel = 0
  /\ rxfifo = << >>
  /\ rxidle = FALSE
  /\ breakint = FALSE
  /\ incoming = << >>
  /\ sends = 0
  /\ arrivals = 0

-----------------------------------------------------------------------------
(* Notifications.                                                          *)

\* pc16c550_update_notification and pl011_update_notification
Ier(notify) ==
  (IF notify \intersect {"READY", "EMPTY"} # {} THEN {"TX"} ELSE {}) \union
  (IF notify \intersect {"HASDATA", "TIMEOUT"} # {} THEN {"RX"} ELSE {}) \union
  (notify \intersect {"EVENT"})

\* The 16550 raises its transmit interrupt when the bit is set and the fifo
\* is empty.
WriteIer(mask) ==
  /\ ier' = mask
  /\ txint' = (txint \/ (chip = "pc16c550" /\ "TX" \in mask \ ier /\ txfifo = 0))

set_notify(p, what) == [p EXCEPT !.notify = @ \union what]
clr_notify(p, what) == [p EXCEPT !.notify = @ \ what]

\* set_notify or clr_notify of the main thread: the register is left to the
\* driver while it is active.
UpdateFromMain(p) ==
  IF p.notify # port.notify /\ irq \in {"out", "exited"}
    THEN WriteIer(Ier(p.notify))
    ELSE UNCHANGED << ier, txint >>

-----------------------------------------------------------------------------
(* Frames.                                                                 *)

NewEntry(p) == Min(Entries \ p.used)

\* dmx512_put_frame and dmx512_received_frame ignore a frame that is not there.
put_frame(p, e) == [p EXCEPT !.used = @ \ {e}]
received_frame(p, e, what) ==
  IF e = NULL THEN p
  ELSE [p EXCEPT !.received = << [frame |-> e, what |-> what] >> \o @]

\* dmx512_rtuart_complete_rxframe, then dmx512_received_frame
complete_rxframe(p) == [received_frame(p, p.rx, "frame") EXCEPT !.rx = NULL]

-----------------------------------------------------------------------------
(* The slot count lock.                                                    *)

slot_count_lock__received_frame(l, size) ==
  IF l.locked THEN IF size # l.slots THEN NoLock ELSE l
  ELSE IF l.frames # 0 /\ l.slots = size
    THEN IF l.frames = Required THEN [l EXCEPT !.locked = TRUE]
                                ELSE [l EXCEPT !.frames = @ + 1]
    ELSE [l EXCEPT !.frames = 1, !.slots = size]

-----------------------------------------------------------------------------
(* Starting to receive.                                                    *)

rx_stop(p) == clr_notify([p EXCEPT !.rxbuf = FALSE], {"HASDATA", "TIMEOUT"})

\* Mutant of start_receive_data: the octets of the frame before stay in the buffer.
StartKeepingOctets(p, size, startcode) ==
  [set_notify(p, {"EVENT", "HASDATA", "TIMEOUT"}) EXCEPT
     !.rx = NewEntry(p), !.used = @ \union {NewEntry(p)},
     !.valid = size, !.rxbuf = TRUE, !.triggers = IF startcode THEN {0} ELSE @]

\* dmx512_rtuart_start_receive_data, with rtuart_rx_start
start_receive_data(p, size, startcode) ==
  [set_notify(p, {"EVENT", "HASDATA", "TIMEOUT"}) EXCEPT
     !.rx = NewEntry(p), !.used = @ \union {NewEntry(p)},
     !.buf = << >>, !.valid = size, !.rxbuf = TRUE,
     !.triggers = IF startcode THEN {0} ELSE @]

-----------------------------------------------------------------------------
(* Discovery replies.                                                      *)

PreambleStart(d) ==
  LET at == {i \in DOMAIN d : d[i] = FE} IN IF at = {} THEN Len(d) + 1 ELSE Min(at)

PreambleEnd(d) ==
  LET at == {i \in PreambleStart(d) .. Len(d) : d[i] # FE}
  IN  IF at = {} THEN Len(d) + 1 ELSE Min(at)

Intact(d) ==
  LET e == PreambleEnd(d)
  IN  /\ e <= Len(d)
      /\ d[e] = AA
      /\ Len(d) >= e + DiscOctets
      /\ \A i \in e + 1 .. e + DiscOctets : d[i] = Good

\* What dmx512_rtuart_handle_discovery_reply answers.
Answer(p) ==
  IF p.state = "RECV_RDMDISC_REPLY_COLLISION" THEN "collision"
  ELSE IF p.buf = << >> THEN "noreply"
  ELSE IF Intact(p.buf) THEN "ack" ELSE "collision"

\* dmx512_rtuart_discovery_reply and dmx512_rtuart_handle_rdm_reply_timeout:
\* the request itself is turned into the answer.
answer_request(p, what) ==
  [received_frame(put_frame(p, p.rx), p.tx, what) EXCEPT !.tx = NULL, !.rx = NULL,
                                                         !.wire = NULL]

stop_rdm_timer(p) == [p EXCEPT !.timer = "off"]

-----------------------------------------------------------------------------
(* The callbacks.                                                          *)

\* Mutant of tx_end1: the end of the transmission is not waited for.
EndWithoutNotify(p) == p

tx_end1(p) == set_notify(p, {"EMPTY"})

\* dmx512_rtuart_tx_end2; heard is what is still in the receive fifo.
tx_end2(p, heard) ==
  CASE p.state = "TRANSMIT_DATA_ONEWAY" ->
         set_notify([put_frame(p, p.tx) EXCEPT !.tx = NULL, !.txen = FALSE,
                                               !.state = "IDLE"], {"EVENT"})
    [] p.state = "TRANSMIT_DATA_TWOWAY" /\ p.kind = "disc" ->
         start_receive_data([p EXCEPT !.txen = FALSE, !.state = "RECV_RDMDISC_REPLY",
                                      !.wire = heard], DiscMax, FALSE)
    [] p.state = "TRANSMIT_DATA_TWOWAY" /\ p.kind # "disc" ->
         set_notify([p EXCEPT !.txen = FALSE, !.state = "EXPECT_RDM_REPLY_BREAK"],
                    {"EVENT"})
    [] OTHER -> p

\* What was heard after the first break.
AfterBreak(heard) ==
  IF heard = NULL \/ Break \notin Range(heard) THEN heard
  ELSE SubSeq(heard, Min({i \in DOMAIN heard : heard[i] = Break}) + 1, Len(heard))

\* A break ends the frame before it: rx_stop, the lock, dmx512_received_frame.
frame_ends(p) ==
  LET size == Len(p.buf) - 1
      q == complete_rxframe(rx_stop(p))
  IN  IF p.rx = NULL THEN p
      ELSE IF p.buf[1] # 0 THEN q
      ELSE [q EXCEPT !.lock = slot_count_lock__received_frame(@, size),
                     !.sizes = SubSeq(<< size >> \o @, 1, Min({Len(@), Required - 1}) + 1)]

\* dmx512_rtuart_rx_err with a break
rx_err(p) ==
  LET q == [p EXCEPT !.wire = AfterBreak(@)]
  IN  CASE p.state \in IdleStates ->
             start_receive_data([q EXCEPT !.state = "EXPECT_STARTCODE"], DmxMax + 1, TRUE)
        [] p.state = "EXPECT_RDM_REPLY_BREAK" ->
             start_receive_data([q EXCEPT !.state = "RECV_RDM_REPLY_DATA"], DmxMax + 1, TRUE)
        [] p.state = "RECEIVE_DMXDATA" ->
             start_receive_data([frame_ends(q) EXCEPT !.state = "EXPECT_STARTCODE"],
                                DmxMax + 1, TRUE)
        [] p.state = "RECV_RDMDISC_REPLY" ->
             [q EXCEPT !.state = "RECV_RDMDISC_REPLY_COLLISION"]
        [] OTHER -> q

rx_char(p) ==
  IF p.state # "IDLE_AFTER_DMXDATA00" THEN p
  ELSE [p EXCEPT !.state = "IDLE", !.lock = IF @.slots < DmxMax THEN NoLock ELSE @]

rx_end(p) ==
  CASE p.rx = NULL -> p
    [] p.rx # NULL /\ p.state = "RECEIVE_DMXDATA" ->
         [complete_rxframe(p) EXCEPT
            !.state = IF p.buf[1] = 0 THEN "IDLE_AFTER_DMXDATA00" ELSE "IDLE",
            !.wire = NULL]
    [] p.rx # NULL /\ p.state = "RECV_RDM_REPLY_DATA" ->
         [complete_rxframe([put_frame(p, p.tx) EXCEPT !.tx = NULL]) EXCEPT
            !.state = "IDLE", !.wire = NULL]
    [] p.rx # NULL /\ p.state \in DiscStates ->
         [answer_request(stop_rdm_timer(p), Answer(p)) EXCEPT !.state = "IDLE"]
    [] OTHER -> p

\* The length field of an RDM frame gives the end of the frame.
RdmValid(p) ==
  IF p.buf[2] = SUB THEN [p EXCEPT !.valid = p.buf[PosLength + 1] + 2] ELSE p

\* The trigger behind the startcode.
startcode_trigger(p) ==
  LET q == IF p.buf[1] # CC THEN p
           ELSE IF Len(p.buf) > PosLength THEN RdmValid(p)
           ELSE [p EXCEPT !.triggers = @ \union {1}]
  IN  CASE p.state = "EXPECT_STARTCODE" ->
             [q EXCEPT !.state = "RECEIVE_DMXDATA",
                       !.valid = IF p.buf[1] = 0 /\ p.lock.locked
                                   THEN p.lock.slots + 1 ELSE @]
        [] p.state = "RECV_RDM_REPLY_DATA" -> q
        [] OTHER -> p

\* The trigger behind the length field.
length_trigger(p) ==
  IF p.state \in {"RECEIVE_DMXDATA", "RECV_RDM_REPLY_DATA"} THEN RdmValid(p) ELSE p

\* dmx512_rtuart_rx_trigger for the triggers that were passed, which are then
\* switched off.
rx_trigger(p, mask) ==
  LET q == IF 0 \in mask THEN startcode_trigger(p) ELSE p
      r == IF 1 \in mask THEN length_trigger(q) ELSE q
  IN  [r EXCEPT !.triggers = @ \ mask]

-----------------------------------------------------------------------------
(* Receiving, in both drivers.                                             *)

Position(i) == IF i = 0 THEN 1 ELSE PosLength
Full(p) == Len(p.buf) >= p.valid \/ Len(p.buf) >= DmxMax + 1

\* handle_received_data puts an octet into the buffer.
store_octet(p, c) ==
  LET q == [p EXCEPT !.buf = Append(@, c)]
      mask == {i \in p.triggers : Len(q.buf) > Position(i)}
      r == IF mask = {} THEN q ELSE rx_trigger(q, mask)
  IN  IF Full(r)
        THEN rx_end(clr_notify([r EXCEPT !.rxbuf = FALSE], {"HASDATA"}))
        ELSE r

\* handle_received_data has no buffer, or a full one.
surplus_octet(p) == rx_char(clr_notify(p, {"HASDATA"}))

\* The PL011's driver then ends a full buffer once more.
full_buffer(p) == rx_end([surplus_octet(p) EXCEPT !.rxbuf = FALSE])

PopRx == /\ rxfifo' = Tail(rxfifo)
         /\ rxidle' = FALSE

-----------------------------------------------------------------------------
(* Sending, in both drivers.                                               *)

Remaining(p) == IF p.txbuf THEN TxOctets - p.sent ELSE 0

\* n octets of the buffer go to the transmitter; at its end tx_end1 is called
\* and the buffer is kept for tx_end2.
transmit(p, n) ==
  LET q == [p EXCEPT !.sent = @ + n]
      r == tx_end1(clr_notify([q EXCEPT !.txbuf = FALSE], {"READY"}))
  IN  IF q.sent < TxOctets THEN q
      ELSE [r EXCEPT !.txbuf = "EMPTY" \in r.notify]

Is16550 == chip = "pc16c550"

\* What the port has not been told of: a break that the PL011 has reported
\* may still be in its fifo.
Unread ==
  IF ~Is16550 /\ ~breakint /\ rxfifo # << >> /\ Head(rxfifo) = Break
    THEN Tail(rxfifo) ELSE rxfifo

\* The end of a transmission, once the transmitter is empty.
transmitter_empty(p) ==
  IF "EMPTY" \in p.notify /\ Remaining(p) = 0
    THEN tx_end2(clr_notify([p EXCEPT !.txbuf = FALSE], {"EMPTY"}), Unread)
    ELSE p

-----------------------------------------------------------------------------
(* The interrupt handler of the 16550.                                     *)

LineStatus == "EVENT" \in ier /\ rxfifo # << >> /\ Head(rxfifo) = Break
DataAvailable == "RX" \in ier /\ (Len(rxfifo) >= Trigger \/ rxidle)
HoldingEmpty == "TX" \in ier /\ txint

\* IIR, by priority.
Cause == IF LineStatus THEN "LINE_STATUS"
         ELSE IF DataAvailable THEN "DATA"
         ELSE IF HoldingEmpty THEN "THRE" ELSE "NONE"

\* irq_handler_function: an interrupt arrives.
irq_enter ==
  /\ Is16550
  /\ irq = "out"
  /\ main # "joining"
  /\ Cause # "NONE"
  /\ irq' = "in"
  /\ UNCHANGED << chip, port, main, uart, txhw, rxhw, incoming, bounds >>

irq_line_status ==
  /\ Is16550
  /\ irq = "in"
  /\ Cause = "LINE_STATUS"
  /\ PopRx
  /\ port' = rx_err(port)
  /\ UNCHANGED << chip, main, irq, uart, txhw, breakint, incoming, bounds >>

\* Mutant of irq_flush: the cause is cleared and the data stay.
FlushNothing ==
  /\ Is16550
  /\ irq = "in"
  /\ Cause = "DATA"
  /\ "HASDATA" \notin port.notify
  /\ rxidle' = FALSE
  /\ port' = [port EXCEPT !.wire = NULL]
  /\ UNCHANGED << chip, main, irq, uart, txhw, rxfifo, breakint, incoming, bounds >>

\* Data nobody is notified of is flushed.
irq_flush ==
  /\ Is16550
  /\ irq = "in"
  /\ Cause = "DATA"
  /\ "HASDATA" \notin port.notify
  /\ rxfifo' = << >>
  /\ rxidle' = FALSE
  /\ port' = [port EXCEPT !.wire = NULL]
  /\ UNCHANGED << chip, main, irq, uart, txhw, breakint, incoming, bounds >>

\* One octet is read; while the line status shows another one, it is read too,
\* and reading the line status has taken the mark of a break from it.
irq_receive ==
  /\ Is16550
  /\ rxfifo # << >>
  /\ \/ irq = "in" /\ Cause = "DATA" /\ "HASDATA" \in port.notify
     \/ irq = "recv"
  /\ LET c == IF Head(rxfifo) = Break THEN 0 ELSE Head(rxfifo)
     IN  port' = IF port.rxbuf /\ ~Full(port) THEN store_octet(port, c)
                                              ELSE surplus_octet(port)
  /\ PopRx
  /\ irq' = IF Tail(rxfifo) = << >> THEN "in" ELSE "recv"
  /\ UNCHANGED << chip, main, uart, txhw, breakint, incoming, bounds >>

irq_transmit ==
  /\ Is16550
  /\ irq = "in"
  /\ Cause = "THRE"
  /\ txint' = FALSE
  /\ LET n == IF "READY" \in port.notify THEN Min({Remaining(port), TxChunk}) ELSE 0
     IN  /\ txfifo' = txfifo + n
         /\ port' = IF n = 0 THEN port ELSE transmit(port, n)
  /\ UNCHANGED << chip, main, irq, uart, shifting, txlevel, rxhw, incoming, bounds >>

Ending == "EMPTY" \in port.notify /\ Remaining(port) = 0

\* Mutant of irq_none: the holding register is taken for the transmitter.
NoneWhenHoldingEmpty ==
  /\ Is16550
  /\ irq = "in"
  /\ Cause = "NONE"
  /\ LET p == IF txfifo = 0 THEN transmitter_empty(port) ELSE port
     IN  /\ port' = p
         /\ WriteIer(Ier(p.notify))
  /\ irq' = "leaving"
  /\ UNCHANGED << chip, main, tasklet, polling, fifobuf, txfifo, shifting, txlevel,
                  rxhw, incoming, bounds >>

\* Nothing is left to do; while only the shift register is busy the driver
\* waits for it.
irq_none ==
  /\ Is16550
  /\ irq = "in"
  /\ Cause = "NONE"
  /\ Ending /\ txfifo = 0 => ~shifting
  /\ LET p == IF txfifo = 0 THEN transmitter_empty(port) ELSE port
     IN  /\ port' = p
         /\ WriteIer(Ier(p.notify))
  /\ irq' = "leaving"
  /\ UNCHANGED << chip, main, tasklet, polling, fifobuf, txfifo, shifting, txlevel,
                  rxhw, incoming, bounds >>

\* in_irq = 0; the PL011 is polled by scheduling its tasklet again.
irq_leave ==
  /\ irq = "leaving"
  /\ irq' = "out"
  /\ tasklet' = (tasklet \/ (~Is16550 /\ polling))
  /\ UNCHANGED << chip, port, main, ier, polling, fifobuf, txhw, rxhw, incoming, bounds >>

-----------------------------------------------------------------------------
(* The interrupt handler of the PL011, run as a tasklet.                   *)

RxInt == "RX" \in ier /\ (Len(rxfifo) >= Trigger \/ rxidle)
ErrorInt == "EVENT" \in ier /\ breakint
TxInt == "TX" \in ier /\ txint

\* pl011_handle_irq schedules the tasklet, run_all_tasklets runs it.
tasklet_run ==
  /\ ~Is16550
  /\ irq = "out"
  /\ tasklet \/ (main # "joining" /\ (RxInt \/ ErrorInt \/ TxInt))
  /\ tasklet' = FALSE
  /\ irq' = "in"
  /\ UNCHANGED << chip, port, main, ier, polling, fifobuf, txhw, rxhw, incoming, bounds >>

\* pl011_fill_transmitter
Fill(p) ==
  LET rem == Remaining(p)
      n == Min({rem, TxSpace - txfifo})
  IN  /\ polling' = (rem < PollBelow)
      /\ txlevel' = IF rem < PollBelow THEN txlevel ELSE Min({rem, TxSpace}) - LevelOffset
      /\ txfifo' = txfifo + n
      /\ port' = transmit(p, n)

Underrun == ~TxInt /\ Remaining(port) > 0 /\ txfifo = 0

tasklet_underrun ==
  /\ ~Is16550
  /\ irq = "in"
  /\ Underrun
  /\ Fill(port)
  /\ UNCHANGED << chip, main, irq, ier, tasklet, fifobuf, shifting, txint, rxhw,
                  incoming, bounds >>

tasklet_transmit ==
  /\ ~Is16550
  /\ irq = "in"
  /\ ~Underrun /\ TxInt /\ ~RxInt /\ ~ErrorInt
  /\ txint' = FALSE
  /\ IF "READY" \in port.notify THEN Fill(port)
     ELSE UNCHANGED << port, polling, txlevel, txfifo >>
  /\ UNCHANGED << chip, main, irq, ier, tasklet, fifobuf, shifting, rxhw, incoming, bounds >>

\* The break interrupt comes when the break arrives, ahead of the fifo.
tasklet_error ==
  /\ ~Is16550
  /\ irq = "in"
  /\ ~Underrun /\ ErrorInt /\ ~RxInt
  /\ breakint' = FALSE
  /\ port' = rx_err(port)
  /\ UNCHANGED << chip, main, irq, uart, txhw, rxfifo, rxidle, incoming, bounds >>

tasklet_receive ==
  /\ ~Is16550
  /\ irq = "in"
  /\ ~Underrun /\ RxInt
  /\ rxidle' = FALSE
  /\ fifobuf' = port.rxbuf
  /\ irq' = "recv"
  /\ UNCHANGED << chip, port, main, ier, tasklet, polling, txhw, rxfifo, breakint,
                  incoming, bounds >>

\* handle_received_data reads the fifo until it is empty.
tasklet_read ==
  /\ ~Is16550
  /\ irq = "recv"
  /\ IF rxfifo = << >> THEN irq' = "in" /\ UNCHANGED << port, rxfifo, rxidle >>
     ELSE /\ PopRx
          /\ irq' = irq
          /\ port' = CASE Head(rxfifo) = Break -> rx_err(port)
                       [] Head(rxfifo) # Break /\ "HASDATA" \notin port.notify -> port
                       [] Head(rxfifo) # Break /\ "HASDATA" \in port.notify ->
                            IF fifobuf /\ ~Full(port)
                              THEN store_octet(port, Head(rxfifo))
                            ELSE IF fifobuf THEN full_buffer(port)
                            ELSE surplus_octet(port)
  /\ UNCHANGED << chip, main, uart, txhw, breakint, incoming, bounds >>

\* No interrupt is left: the driver waits for the shift register, polls for
\* the fifo, or ends the transmission.
tasklet_none ==
  /\ ~Is16550
  /\ irq = "in"
  /\ ~Underrun /\ ~RxInt /\ ~ErrorInt /\ ~TxInt
  /\ Ending /\ txfifo = 0 => ~shifting
  /\ polling' = (polling \/ (Ending /\ txfifo > 0))
  /\ LET p == IF txfifo = 0 THEN transmitter_empty(port) ELSE port
     IN  /\ port' = p
         /\ WriteIer(Ier(p.notify))
  /\ irq' = "leaving"
  /\ UNCHANGED << chip, main, tasklet, fifobuf, txfifo, shifting, txlevel, rxhw,
                  incoming, bounds >>

-----------------------------------------------------------------------------
(* The main thread.                                                        *)

MainRuns == Race \/ irq # "leaving"

\* A request to all responders is not answered, yet it starts the timer.
TwoWay(kind) == kind \in {"rdm", "disc"}
Timed(kind) == kind \in {"rdm", "disc", "broadcast"}

\* dmx512_rtuart_client_send_frame up to the usleep of the break.  A busy port
\* refuses the frame, and the main thread frees it.
send_frame(kind) ==
  /\ MainRuns
  /\ main = "loop"
  /\ sends < MaxSends /\ sends + arrivals < MaxTraffic
  /\ port.tx = NULL
  /\ port.state \notin TxStates \union ReplyStates
  /\ LET e == NewEntry(port)
         p == [clr_notify(port, {"EVENT", "HASDATA"}) EXCEPT
                 !.used = @ \union {e}, !.tx = e, !.kind = kind, !.sent = 0,
                 !.timer = IF Timed(kind) THEN "running" ELSE @,
                 !.state = IF TwoWay(kind) THEN "TRANSMIT_BREAK_TWOWAY"
                                           ELSE "TRANSMIT_BREAK_ONEWAY",
                 !.txen = TRUE, !.wire = NULL]
     IN  port' = p /\ UpdateFromMain(p)
  /\ main' = "break"
  /\ sends' = sends + 1
  /\ incoming' = << >>
  /\ UNCHANGED << chip, irq, tasklet, polling, fifobuf, txfifo, shifting, txlevel, rxhw,
                  arrivals >>

\* The rest of dmx512_rtuart_start_frame, with tx_start of the driver.
start_data ==
  /\ MainRuns
  /\ main = "break"
  /\ LET p == [set_notify(port, {"READY"}) EXCEPT
                 !.state = CASE @ = "TRANSMIT_BREAK_TWOWAY" -> "TRANSMIT_DATA_TWOWAY"
                             [] @ = "TRANSMIT_BREAK_ONEWAY" -> "TRANSMIT_DATA_ONEWAY"
                             [] OTHER -> @,
                 !.txbuf = TRUE, !.sent = 0]
     IN  port' = p /\ UpdateFromMain(p)
  /\ main' = "loop"
  /\ polling' = (polling /\ Is16550)
  /\ tasklet' = ~Is16550
  /\ UNCHANGED << chip, irq, fifobuf, txfifo, shifting, txlevel, rxhw, incoming, bounds >>

\* dmx512rtuart_handle_rdm_timeout
handle_rdm_timeout(p) ==
  LET q == stop_rdm_timer(p)
  IN  CASE p.tx = NULL -> p
        [] p.tx # NULL /\ p.state \in DiscStates ->
             [answer_request(q, Answer(q)) EXCEPT !.state = "IDLE"]
        [] p.tx # NULL /\ p.state \in ReplyStates \ DiscStates ->
             [answer_request(q, "timeout") EXCEPT !.state = "IDLE"]
        [] OTHER -> q

\* dmx512rtuart_periodical
periodical ==
  /\ main = "loop"
  /\ port.flag
  /\ port' = handle_rdm_timeout([port EXCEPT !.flag = FALSE])
  /\ UNCHANGED << chip, main, irq, uart, txhw, rxhw, incoming, bounds >>

\* main passes on what was received; a frame the card does not take is lost.
forward_received ==
  /\ main = "loop"
  /\ port.received # << >>
  /\ port' = [port EXCEPT !.used = @ \ {r.frame : r \in Range(port.received)},
                          !.received = << >>]
  /\ UNCHANGED << chip, main, irq, uart, txhw, rxhw, incoming, bounds >>

\* main leaves its loop: rtuart_clr_notify, then rtuart_cleanup joins the thread.
cleanup ==
  /\ MainRuns
  /\ main = "loop"
  /\ LET p == clr_notify(port, {"EVENT"}) IN port' = p /\ UpdateFromMain(p)
  /\ main' = "joining"
  /\ UNCHANGED << chip, irq, tasklet, polling, fifobuf, txfifo, shifting, txlevel, rxhw,
                  incoming, bounds >>

joined ==
  /\ main = "joining"
  /\ irq = "exited"
  /\ main' = "stopped"
  /\ UNCHANGED << chip, port, irq, uart, txhw, rxhw, incoming, bounds >>

\* irq_handler_function ends when run_all_tasklets has nothing more to run.
irq_exit ==
  /\ main = "joining"
  /\ irq = "out"
  /\ ~tasklet
  /\ irq' = "exited"
  /\ UNCHANGED << chip, port, main, uart, txhw, rxhw, incoming, bounds >>

\* __posix_timer_thread_handler
timer_expires ==
  /\ main # "stopped"
  /\ port.timer = "running"
  /\ port' = [port EXCEPT !.timer = "expired", !.flag = TRUE]
  /\ UNCHANGED << chip, main, irq, uart, txhw, rxhw, incoming, bounds >>

-----------------------------------------------------------------------------
(* The uart and the line: external.                                        *)

\* The receiver hears the line while the port does not drive it; what comes once
\* the interrupt thread has ended is left out.
Listening == irq # "exited" /\ ~port.txen /\ (Is16550 \/ ier \intersect {"RX", "EVENT"} # {})

\* After the port's own sending, wire follows the line again from a break on,
\* unless the frame before was cut down to its startcode.
Hear(c) ==
  /\ rxfifo' = IF Len(rxfifo) < FifoSize THEN Append(rxfifo, c) ELSE rxfifo
  /\ rxidle' = FALSE
  /\ port' = [port EXCEPT
       !.wire = IF Len(rxfifo) = FifoSize THEN NULL
                ELSE IF @ # NULL THEN Append(@, c)
                ELSE IF c = Break /\ Len(port.buf \o Unread) # 1
                  THEN port.buf \o Unread \o << Break >> ELSE NULL]

break_arrives ==
  /\ Listening
  /\ incoming = << >>
  /\ arrivals < MaxWire /\ sends + arrivals < MaxTraffic
  /\ Prompt => rxfifo = << >> /\ irq = "out" /\ ~breakint
  /\ Hear(Break)
  /\ breakint' = ~Is16550
  /\ incoming' \in WireFrames
  /\ arrivals' = arrivals + 1
  /\ UNCHANGED << chip, main, irq, uart, txhw, sends >>

\* A discovery reply, or the rest of a frame, has no break.
reply_starts ==
  /\ Listening
  /\ incoming = << >>
  /\ arrivals < MaxWire /\ sends + arrivals < MaxTraffic
  /\ Prompt => port.kind = "disc"
  /\ incoming' \in Replies
  /\ arrivals' = arrivals + 1
  /\ UNCHANGED << chip, port, main, irq, uart, txhw, rxhw, sends >>

octet_arrives ==
  /\ Listening
  /\ incoming # << >>
  /\ Prompt => ~breakint /\ (Is16550 => Break \notin Range(rxfifo))
  /\ Hear(Head(incoming))
  /\ incoming' = Tail(incoming)
  /\ UNCHANGED << chip, main, irq, uart, txhw, breakint, bounds >>

character_timeout ==
  /\ irq # "exited"
  /\ Prompt => incoming = << >>
  /\ rxfifo # << >>
  /\ ~rxidle
  /\ rxidle' = TRUE
  /\ UNCHANGED << chip, port, main, irq, uart, txhw, rxfifo, breakint, incoming, bounds >>

octet_shifts ==
  /\ txfifo > 0
  /\ ~shifting
  /\ txfifo' = txfifo - 1
  /\ shifting' = TRUE
  /\ txint' = (txint \/ IF Is16550 THEN txfifo = 1 ELSE txfifo - 1 = txlevel)
  /\ UNCHANGED << chip, port, main, irq, uart, txlevel, rxhw, incoming, bounds >>

octet_leaves ==
  /\ shifting
  /\ shifting' = FALSE
  /\ UNCHANGED << chip, port, main, irq, uart, txfifo, txint, txlevel, rxhw, incoming,
                  bounds >>

-----------------------------------------------------------------------------

IrqThread ==
  \/ irq_enter \/ irq_line_status \/ irq_flush \/ irq_receive \/ irq_transmit
  \/ irq_none \/ irq_leave
  \/ tasklet_run \/ tasklet_underrun \/ tasklet_transmit \/ tasklet_error
  \/ tasklet_receive \/ tasklet_read \/ tasklet_none
  \/ irq_exit

Next ==
  \/ IrqThread
  \/ \E kind \in Kinds : send_frame(kind)
  \/ start_data
  \/ periodical
  \/ forward_received
  \/ cleanup
  \/ joined
  \/ timer_expires
  \/ break_arrives
  \/ reply_starts
  \/ octet_arrives
  \/ character_timeout
  \/ octet_shifts
  \/ octet_leaves

Spec == Init /\ [][Next]_vars

\* Both threads run, timers expire, and the transmitter sends what it has.
FairSpec ==
  /\ Spec
  /\ WF_vars(IrqThread)
  /\ WF_vars(start_data)
  /\ WF_vars(periodical)
  /\ WF_vars(joined)
  /\ WF_vars(timer_expires)
  /\ WF_vars(octet_shifts)
  /\ WF_vars(octet_leaves)

-----------------------------------------------------------------------------

EntriesOf(p) == {p.tx, p.rx} \ {NULL}

\* The transmit fifo is not overrun, and the driver that is to send has a buffer.
TypeOK ==
  /\ port.state \in TxStates \union ReplyStates \union IdleStates \union FrameStates
  /\ port.notify \subseteq Notifications
  /\ Len(port.buf) <= DmxMax + 1
  /\ ier \subseteq {"TX", "RX", "EVENT"}
  /\ txfifo \in 0 .. TxSpace
  /\ Len(rxfifo) <= FifoSize
  /\ "READY" \in port.notify => port.txbuf

\* A frame has one owner: no frame is handed on twice, freed while the port
\* still holds it, or waits for an answer after it was handed back.
EntryOwnership ==
  LET held == [i \in DOMAIN port.received |-> port.received[i].frame]
  IN  /\ IsInjective(held)
      /\ EntriesOf(port) \union Range(held) \subseteq port.used
      /\ EntriesOf(port) \intersect Range(held) = {}
      /\ port.tx = port.rx => port.tx = NULL

\* The RS-485 transmitter is on as long as an octet has not left the uart
\* (tx_end2 comes when the transmission "has physically completed").
LineHeld == txfifo > 0 \/ shifting => port.txen

\* While a frame or a discovery reply is received, the buffer and the fifo hold
\* exactly what came after the last break that was reported: nothing is lost,
\* and no octets of two frames are put together.
FrameAsOnWire ==
  port.state \in {"EXPECT_STARTCODE", "RECEIVE_DMXDATA", "RECV_RDMDISC_REPLY"}
  /\ port.wire # NULL =>
    port.buf \o Unread = port.wire

\* The lock closes only on frames that had one size: the last Required ones.
LockNeedsRepeats ==
  port.lock.locked =>
    /\ Len(port.sizes) = Required
    /\ \A i \in DOMAIN port.sizes : port.sizes[i] = port.lock.slots

\* A transmission ends, unless the program is stopped.
SendCompletes ==
  port.state \in TxStates ~> port.state \notin TxStates \/ main \in {"joining", "stopped"}

\* With the 16550, rtuart_cleanup gets its interrupt thread joined.
CleanupReturns == main = "joining" /\ Is16550 ~> main = "stopped"

\* Refuted: also with the PL011.
CleanupReturnsAlways == main = "joining" ~> main = "stopped"

\* Refuted: "10 consecutive frames of the same size are required"
\* (t_dmxrtuart.c): that many lock.
LocksAfterRequired ==
  Len(port.sizes) = Required /\ (\A i \in DOMAIN port.sizes : port.sizes[i] = port.sizes[1]) =>
    port.lock.locked

\* Refuted: "We only handle timeouts for replies for which we have a request."
\* (t_dmxrtuart.c): every request comes back.
RequestEnds == port.tx # NULL ~> port.tx = NULL \/ main \in {"joining", "stopped"}

\* Refuted: "the buffer must be available until the transmision is completed."
\* (rtuart.h): the driver stores octets only while the port has a frame.
StoresIntoFrame == [][Len(port'.buf) > Len(port.buf) => port.rx # NULL]_vars

\* The port's records agree: entries have one owner, the line is held while a
\* frame goes out, and a lock has the frames it needs.
PortConsistent ==
  /\ TypeOK
  /\ EntryOwnership
  /\ LineHeld
  /\ LockNeedsRepeats

=============================================================================
