---------------------------- MODULE StreamUart -----------------------------
(***************************************************************************)
(* The stream UART port of the simulation (dmx512_suart.c, suart/):        *)
(* everything a client wants of the UART, changes of its baudrate and      *)
(* lines as well as data, is an event of one transmit fifo; everything     *)
(* that happens on it is an event of one receive fifo. A handler thread    *)
(* carries the events out on a 16x50 UART, a receive thread makes frames   *)
(* of what comes in, and the CUSE driver (dmx512_cuse_suart.c) sends.      *)
(***************************************************************************)
EXTENDS Integers, Sequences, SequencesExt, TLC

CONSTANTS
  FifoSize,   \* events a fifo holds: 128
  Chunk,      \* octets of an inline data event: 14
  TxFifo,     \* octets of the transmit fifo of the UART: 16
  RxFifo,     \* octets of its receive fifo: 16
  Trigger,    \* its trigger level: 14
  DmxMax,     \* limit of a received frame: 512
  LockAfter,  \* lock_count above which the size is locked: 3
  Sizes,      \* payload sizes the driver is given
  MaxBreaks,  \* bound: breaks received, by the number of frames sent
  MaxOctets   \* bound: octets received

ASSUME ChunkAssumption == Chunk \in Nat \ {0} /\ Trigger \in 1..RxFifo

-----------------------------------------------------------------------------
(* streamuart_event.c *)

Set(fields) == [type |-> "set", to |-> fields]
Data(octets) == [type |-> "data", octets |-> octets]
Echo == [type |-> "echo"]
Shutdown == [type |-> "shutdown"]
Status(brk) == [type |-> "status", brk |-> brk]

suart_event_set_format(f) == << Set([format |-> f]) >>
suart_event_change_baudrate(b) == << Set([baud |-> b]) >>
suart_event_change_line(lines) == << Set(lines) >>
suart_event_tx(on) == << Set([tx |-> on]) >>
suart_event_rx(on) == << Set([rx |-> on]) >>

\* suart_event_data_inline splits the octets into chunks.
suart_event_data_inline(octets) ==
  [n \in 1..((Len(octets) + Chunk - 1) \div Chunk) |->
     Data(SubSeq(octets, (n - 1) * Chunk + 1, IF n * Chunk < Len(octets) THEN n * Chunk ELSE Len(octets)))]

(* dmx512suart_create_frame *)
\* An octet as it leaves, with the settings in force.
Left(octet, l) == [octet |-> octet, format |-> l.format, baud |-> l.baud, rts |-> l.rts]

Brk(f) == [frame |-> f, slot |-> 0]
Slots(f, size) == [i \in 1..size |-> [frame |-> f, slot |-> i]]

Break(f) ==
  suart_event_set_format("8n1") \o suart_event_change_baudrate(100500)
  \o suart_event_data_inline(<< Brk(f) >>)
  \o suart_event_set_format("8n2") \o suart_event_change_baudrate(250000)

\* Mutant of dmx512suart_create_frame: the receiver stays disabled.
CreateLeavingRxOff(f, size, nobreak) ==
  suart_event_rx(FALSE) \o suart_event_tx(TRUE) \o suart_event_change_line([rts |-> TRUE])
  \o (IF nobreak THEN << >> ELSE Break(f))
  \o suart_event_data_inline(Slots(f, size))
  \o suart_event_change_line([rts |-> FALSE]) \o suart_event_tx(FALSE) \o << Echo >>

dmx512suart_create_frame(f, size, nobreak) ==
  suart_event_rx(FALSE) \o suart_event_tx(TRUE) \o suart_event_change_line([rts |-> TRUE])
  \o (IF nobreak THEN << >> ELSE Break(f))
  \o suart_event_data_inline(Slots(f, size))
  \o suart_event_change_line([rts |-> FALSE]) \o suart_event_tx(FALSE)
  \o suart_event_rx(TRUE) \o << Echo >>

InitEvents ==
  suart_event_set_format("8n2") \o suart_event_change_baudrate(250000)
  \o suart_event_tx(FALSE) \o suart_event_rx(TRUE)
  \o suart_event_change_line([rts |-> FALSE, dtr |-> TRUE]) \o << Echo >>

-----------------------------------------------------------------------------
VARIABLES
  txfifo, rxfifo,     \* struct suart_s
  txbuffer, rxbuffer, handler, \* struct suart_pc16x50, and where its thread is
  line,               \* the UART: format, baud, rts, dtr and interrupt enables tx, rx
  thr, tsr,           \* its transmit fifo and shift register
  rbr, overrun,       \* its receive fifo, a break is an element of its own
  thre,               \* the THR empty interrupt is pending
  dmx_data, dmx_locked, dmx_lock_count, dmx_lock_size, \* struct dmx512suart_port
  rxthread,           \* where dmx512suart_rxfifo_handler is
  stop_rxhandler,
  user, sends,        \* the driver: what it does next, frames sent
  breaks, octets,     \* the wire: breaks and octets that came in
  told, due,          \* history: the settings at the end of the accepted events,
                      \* and the octets they still have to send, with settings
  wire, delivered,    \* history: octets that came in and are not handed over,
                      \* the frame handed over last
  truncated, lost     \* history: a put did not fit; received octets were lost

client == << user, sends, told, truncated >>
uart == << line, thr, tsr, thre >>
receiver == << rbr, overrun >>
environment == << breaks, octets >>
frame == << dmx_data, dmx_locked, dmx_lock_count, dmx_lock_size, delivered >>
port == << frame, rxthread, stop_rxhandler, wire >>
vars == << client, txfifo, rxfifo, txbuffer, rxbuffer, handler, uart, receiver, environment,
           port, due, lost >>

Reset == [format |-> "none", baud |-> 0, rts |-> FALSE, dtr |-> FALSE, tx |-> FALSE, rx |-> FALSE]

Init ==
  /\ txfifo = << >> /\ rxfifo = << >> /\ txbuffer = << >> /\ rxbuffer = << >>
  /\ handler = "interrupts"
  /\ line = Reset /\ thr = << >> /\ tsr = << >> /\ thre = FALSE
  /\ rbr = << >> /\ overrun = FALSE
  /\ dmx_data = << >> /\ dmx_locked = FALSE /\ dmx_lock_count = 0 /\ dmx_lock_size = 0
  /\ rxthread = "run" /\ stop_rxhandler = FALSE
  /\ user = "init" /\ sends = 0 /\ breaks = 0 /\ octets = 0
  /\ told = Reset /\ due = << >> /\ wire = << >> /\ delivered = << >>
  /\ truncated = FALSE /\ lost = FALSE

-----------------------------------------------------------------------------
(* The driver's calls *)

\* kfifo_in takes what fits; suart_put_txevents drops its result.
Accepted(fifo, events) ==
  SubSeq(events, 1, IF Len(events) < FifoSize - Len(fifo) THEN Len(events) ELSE FifoSize - Len(fifo))

\* What events say: each octet of a data event goes out under the settings
\* that the events before it have made.
Interpret(settings, events) ==
  LET step(a, e) ==
        CASE e.type = "set" -> [a EXCEPT !.line = e.to @@ @]
          [] e.type = "data" -> [a EXCEPT !.out = @ \o [i \in 1..Len(e.octets) |->
                                                        Left(e.octets[i], a.line)]]
          [] OTHER -> a
  IN  FoldLeft(step, [line |-> settings, out |-> << >>], events)

suart_put_txevents(events) ==
  /\ txfifo' = txfifo \o Accepted(txfifo, events)
  /\ told' = Interpret(told, Accepted(txfifo, events)).line
  /\ due' = due \o Interpret(told, Accepted(txfifo, events)).out
  /\ truncated' = (truncated \/ Len(Accepted(txfifo, events)) < Len(events))

dmx512suart_send_init_events ==
  /\ user = "init" /\ user' = "idle"
  /\ suart_put_txevents(InitEvents)
  /\ UNCHANGED << sends, rxfifo, txbuffer, rxbuffer, handler, uart, receiver, environment,
                  port, lost >>

\* uartdmx_sendFrame: DTR on, the frame, DTR off, each a put of its own.
uartdmx_sendFrame ==
  /\ \/ /\ user = "idle" /\ sends + 1 \in DOMAIN MaxBreaks /\ breaks <= MaxBreaks[sends + 1]
        /\ user' = "send" /\ sends' = sends + 1
        /\ suart_put_txevents(suart_event_change_line([dtr |-> TRUE]))
     \/ /\ user = "send" /\ user' = "dtr" /\ UNCHANGED sends
        /\ \E size \in Sizes, nobreak \in BOOLEAN :
             suart_put_txevents(dmx512suart_create_frame(sends, size, nobreak))
     \/ /\ user = "dtr" /\ user' = "idle" /\ UNCHANGED sends
        /\ suart_put_txevents(suart_event_change_line([dtr |-> FALSE]))
  /\ UNCHANGED << rxfifo, txbuffer, rxbuffer, handler, uart, receiver, environment, port, lost >>

\* dmx512suart_delete_port stops and joins the receive thread, then
\* suart_pc16x50_shutdown posts the last event and joins the handler thread.
dmx512suart_delete_port ==
  /\ \/ /\ user = "idle" /\ user' = "join rx"
        /\ stop_rxhandler' = TRUE
        /\ UNCHANGED << txfifo, told, due, truncated >>
     \/ /\ user = "join rx" /\ rxthread = "ended" /\ user' = "join"
        /\ suart_put_txevents(<< Shutdown >>)
        /\ UNCHANGED stop_rxhandler
     \/ /\ user = "join" /\ handler = "ended" /\ user' = "deleted"
        /\ UNCHANGED << txfifo, told, due, truncated, stop_rxhandler >>
  /\ UNCHANGED << sends, rxfifo, txbuffer, rxbuffer, handler, uart, receiver, environment,
                  frame, rxthread, wire, lost >>

-----------------------------------------------------------------------------
(* External: the UART *)

\* The shift register takes the next octet; an empty fifo raises an interrupt.
ShiftIn ==
  /\ thr # << >> /\ tsr = << >>
  /\ tsr' = << Head(thr) >> /\ thr' = Tail(thr)
  /\ thre' = (thre \/ Len(thr) = 1)
  /\ UNCHANGED << client, txfifo, rxfifo, txbuffer, rxbuffer, handler, line, receiver,
                  environment, port, due, lost >>

\* An octet has left, with the settings in force at its end.
ShiftOut ==
  /\ tsr # << >> /\ tsr' = << >>
  /\ due' = SubSeq(due, 2, Len(due))
  /\ UNCHANGED << client, txfifo, rxfifo, txbuffer, rxbuffer, handler, line, thr, thre,
                  receiver, environment, port, lost >>

Push(c) ==
  /\ rbr' = IF Len(rbr) < RxFifo THEN Append(rbr, c) ELSE rbr
  /\ overrun' = (overrun \/ Len(rbr) = RxFifo)
  /\ lost' = (lost \/ Len(rbr) = RxFifo)

\* Another sender, when this one does not drive the line, sends a break or a slot.
Receive ==
  /\ ~line.rts
  /\ \/ /\ breaks < MaxBreaks[sends]
        /\ breaks' = breaks + 1 /\ UNCHANGED << octets, wire >>
        /\ Push(Brk(breaks'))
     \/ /\ breaks > 0 /\ octets < MaxOctets
        /\ octets' = octets + 1 /\ UNCHANGED breaks
        /\ wire' = Append(wire, [frame |-> breaks, slot |-> octets'])
        /\ Push([frame |-> breaks, slot |-> octets'])
  /\ UNCHANGED << client, txfifo, rxfifo, txbuffer, rxbuffer, handler, uart, frame, rxthread,
                  stop_rxhandler, due >>

-----------------------------------------------------------------------------
(* handle_all_pending_interrupts: one cause a step, the highest first *)

AtBreak == rbr # << >> /\ Head(rbr).slot = 0
LineStatusPending == overrun \/ AtBreak
DataPending == line.rx /\ Len(rbr) >= Trigger
ThrePending == line.tx /\ thre

suart_put_rxevents(events, dropped) ==
  /\ rxfifo' = rxfifo \o Accepted(rxfifo, events)
  /\ lost' = (lost \/ Len(Accepted(rxfifo, events)) < Len(events) \/ dropped)

flush_rxbuffer_fifo(buffer) == suart_event_data_inline(buffer)

\* Mutant of LineStatusEvents: received octets are not flushed first.
LineStatusEventsFirst(buffer, brk) == << Status(brk) >> \o flush_rxbuffer_fifo(buffer)
\* What came in before the break goes to the receive fifo before it.
LineStatusEvents(buffer, brk) == flush_rxbuffer_fifo(buffer) \o << Status(brk) >>

\* An overrun flushes the receive fifo; a break leaves one octet to read.
LineStatusInterrupt ==
  /\ LineStatusPending
  /\ rbr' = IF overrun THEN << >> ELSE Tail(rbr)
  /\ overrun' = FALSE
  /\ rxbuffer' = << >>
  /\ suart_put_rxevents(LineStatusEvents(rxbuffer, AtBreak), overrun)
  /\ UNCHANGED thre

\* One octet is read; 14 of them, or a character timeout, make an event.
DataInterrupt ==
  /\ ~LineStatusPending /\ line.rx /\ rbr # << >>
  /\ LET buffer == Append(rxbuffer, Head(rbr))
         timeout == ~DataPending
         flushed == timeout \/ Len(buffer) >= Chunk
     IN  /\ rxbuffer' = IF flushed THEN << >> ELSE buffer
         /\ suart_put_rxevents(IF flushed THEN flush_rxbuffer_fifo(buffer) ELSE << >>, FALSE)
  /\ rbr' = Tail(rbr)
  /\ UNCHANGED << overrun, thre >>

ThreInterrupt ==
  /\ ~LineStatusPending /\ ~DataPending /\ ThrePending
  /\ thre' = FALSE
  /\ rxbuffer' = << >>
  /\ suart_put_rxevents(flush_rxbuffer_fifo(rxbuffer), FALSE)
  /\ UNCHANGED receiver

handle_all_pending_interrupts ==
  /\ handler = "interrupts"
  /\ \/ /\ LineStatusInterrupt \/ DataInterrupt \/ ThreInterrupt
        /\ UNCHANGED handler
     \/ /\ ~LineStatusPending /\ ~DataPending /\ ~ThrePending
        /\ handler' = "events"
        /\ UNCHANGED << receiver, rxbuffer, rxfifo, lost, thre >>
  /\ UNCHANGED << client, txfifo, txbuffer, line, thr, tsr, environment, port, due >>

-----------------------------------------------------------------------------
(* handle_all_pending_events *)

THRE == thr = << >>
TEMT == thr = << >> /\ tsr = << >>

IsData(e) == e.type = "data"
OctetsOf(events) == FoldLeft(LAMBDA a, e : a \o e.octets, << >>, events)

\* fetch_as_much_data_events_as_possible: up to the first other event.
FetchedCount(fifo) ==
  LET other == SelectInSeq(fifo, LAMBDA e : ~IsData(e))
  IN  IF other = 0 THEN Len(fifo) ELSE other - 1

\* Mutant of Space: an idle transmitter is taken for a busy one.
SpaceWhenBusy == IF TEMT THEN 0 ELSE IF THRE THEN TxFifo ELSE 0
Space == IF TEMT THEN TxFifo + 1 ELSE IF THRE THEN TxFifo ELSE 0

\* Mutant of FetchAndTransmit: what is fetched goes out first.
FetchAndTransmitFirst(buffer, fifo) ==
  LET all == OctetsOf(SubSeq(fifo, 1, FetchedCount(fifo))) \o buffer
      n == IF Space < Len(all) THEN Space ELSE Len(all)
  IN  /\ txfifo' = SubSeq(fifo, FetchedCount(fifo) + 1, Len(fifo))
      /\ txbuffer' = SubSeq(all, n + 1, Len(all))
      /\ thr' = thr \o SubSeq(all, 1, n)
      /\ thre' = (thre /\ n = 0)
\* transmit_as_much_as_possible, after the data events of fifo are fetched.
FetchAndTransmit(buffer, fifo) ==
  LET all == buffer \o OctetsOf(SubSeq(fifo, 1, FetchedCount(fifo)))
      n == IF Space < Len(all) THEN Space ELSE Len(all)
  IN  /\ txfifo' = SubSeq(fifo, FetchedCount(fifo) + 1, Len(fifo))
      /\ txbuffer' = SubSeq(all, n + 1, Len(all))
      /\ thr' = thr \o SubSeq(all, 1, n)
      /\ thre' = (thre /\ n = 0)

\* Events are carried out when the transmitter is empty; while its fifo is
\* not, the thread goes back to sleep, else it polls.
ReadyForEvents == TEMT

\* The first look of a pass: data goes out before any other event.
BeginEvents ==
  /\ handler = "events"
  /\ IF txbuffer # << >>
     THEN handler' = "sleep" /\ FetchAndTransmit(txbuffer, txfifo)
     ELSE /\ handler' = IF THRE THEN "drain" ELSE "sleep"
          /\ UNCHANGED << txfifo, txbuffer, thr, thre >>
  /\ UNCHANGED << client, rxfifo, rxbuffer, line, tsr, receiver, environment, port, due, lost >>

\* The poll for the empty transmitter ends.
Drained ==
  /\ handler = "drain" /\ ReadyForEvents
  /\ handler' = "loop"
  /\ UNCHANGED << client, txfifo, rxfifo, txbuffer, rxbuffer, uart, receiver, environment,
                  port, due, lost >>

\* Mutant of EndsThread: the shutdown event is taken out and forgotten.
EndsThreadNever(e) == FALSE
EndsThread(e) == e.type = "shutdown"

\* handle_one_event: enabling the receiver flushes its fifo, enabling the
\* transmit interrupt raises it when there is nothing to send.
Apply(e) ==
  /\ line' = IF e.type = "set" THEN e.to @@ line ELSE line
  /\ LET enables(f) == e.type = "set" /\ f \in DOMAIN e.to /\ e.to[f] = TRUE
     IN  /\ rbr' = IF enables("rx") THEN << >> ELSE rbr
         /\ thre' = (thre \/ (enables("tx") /\ THRE))
         /\ suart_put_rxevents(IF e.type = "echo" THEN << e >> ELSE << >>,
                               enables("rx") /\ rbr # << >>)
  /\ UNCHANGED overrun

EventLoop ==
  /\ handler = "loop"
  /\ \/ /\ txfifo = << >> /\ handler' = "sleep"
        /\ UNCHANGED << txfifo, txbuffer, uart, receiver, rxfifo, lost >>
     \/ /\ txfifo # << >> /\ EndsThread(Head(txfifo))
        /\ handler' = "ended" /\ txfifo' = Tail(txfifo)
        /\ UNCHANGED << txbuffer, uart, receiver, rxfifo, lost >>
     \/ /\ txfifo # << >> /\ IsData(Head(txfifo))
        /\ handler' = "sleep"
        /\ FetchAndTransmit(Head(txfifo).octets, Tail(txfifo))
        /\ UNCHANGED << line, tsr, receiver, rxfifo, lost >>
     \/ /\ txfifo # << >> /\ ~IsData(Head(txfifo)) /\ ~EndsThread(Head(txfifo))
        /\ txfifo' = Tail(txfifo) /\ Apply(Head(txfifo))
        /\ UNCHANGED << handler, txbuffer, thr, tsr >>
  /\ UNCHANGED << client, rxbuffer, environment, port, due >>

-----------------------------------------------------------------------------
(* The wait of suart_handler_pc16x50 *)

\* The wait ends by a wakeup of suart_put_txevents or of the interrupt, for no
\* reason, which pthread_cond_timedwait may do, or by its timeout, which
\* flushes the received octets.
EndOfWait ==
  /\ handler = "sleep" /\ handler' = "interrupts"
  /\ \E timeout \in BOOLEAN :
       /\ rxbuffer' = IF timeout THEN << >> ELSE rxbuffer
       /\ suart_put_rxevents(IF timeout THEN flush_rxbuffer_fifo(rxbuffer) ELSE << >>, FALSE)
  /\ UNCHANGED << client, txfifo, txbuffer, uart, receiver, environment, port, due >>

-----------------------------------------------------------------------------
(* dmx512suart_rxfifo_handler *)

Deliver(f) == delivered' = f /\ wire' = SubSeq(wire, Len(f) + 1, Len(wire))

\* Octets are added to the frame unless it would get too long; a locked size
\* ends it. The test for a locked frame that goes on is an assignment and fails.
DataInline(chunk) ==
  LET fits == Len(chunk) < DmxMax - Len(dmx_data)
      data == IF fits THEN dmx_data \o chunk ELSE dmx_data
      ends == fits /\ dmx_locked /\ Len(data) = dmx_lock_size
  IN  /\ dmx_data' = IF ends THEN << >> ELSE data
      /\ IF ends THEN Deliver(data) ELSE UNCHANGED << delivered, wire >>
      /\ UNCHANGED << dmx_locked, dmx_lock_count, dmx_lock_size >>

\* A break ends the frame, compares its size with the one before, and hands
\* the frame over.
LineStatus ==
  LET size == Len(dmx_data)
      equal == size = dmx_lock_size
      count == IF equal THEN dmx_lock_count + 1 ELSE dmx_lock_count
  IN  IF size = 0
      THEN UNCHANGED << frame, wire >>
      ELSE /\ dmx_data' = << >> /\ Deliver(dmx_data)
           /\ dmx_lock_size' = size
           /\ IF dmx_locked
              THEN /\ dmx_locked' = equal
                   /\ dmx_lock_count' = IF equal THEN dmx_lock_count ELSE 0
              ELSE /\ dmx_lock_count' = count
                   /\ dmx_locked' = (count > LockAfter)

RxEvent ==
  /\ rxthread = "run" /\ rxfifo # << >>
  /\ rxfifo' = Tail(rxfifo)
  /\ LET e == Head(rxfifo)
     IN  \/ e.type = "data" /\ DataInline(e.octets)
         \/ e.type = "status" /\ e.brk /\ LineStatus
         \/ /\ e.type = "echo" \/ (e.type = "status" /\ ~e.brk)
            /\ UNCHANGED << frame, wire >>
  /\ UNCHANGED << client, txfifo, txbuffer, rxbuffer, handler, uart, receiver, environment,
                  rxthread, stop_rxhandler, due, lost >>

\* The receive thread tests stop_rxhandler when it has emptied the fifo and
\* waited; its wait has no effect and may end at any time.
RxStop ==
  /\ rxthread = "run" /\ rxfifo = << >> /\ stop_rxhandler
  /\ rxthread' = "ended"
  /\ UNCHANGED << client, txfifo, rxfifo, txbuffer, rxbuffer, handler, uart, receiver,
                  environment, frame, wire, stop_rxhandler, due, lost >>

-----------------------------------------------------------------------------
Handler == handle_all_pending_interrupts \/ BeginEvents \/ Drained \/ EventLoop \/ EndOfWait
RxThread == RxEvent \/ RxStop
Client == dmx512suart_send_init_events \/ uartdmx_sendFrame \/ dmx512suart_delete_port
Uart == ShiftIn \/ ShiftOut

Next == Handler \/ RxThread \/ Client \/ Uart  \/ Receive

Spec == Init /\ [][Next]_vars

\* The threads run, a wait ends by its timeout, the UART sends what it has; a
\* deletion that has begun goes on.
FairSpec ==
  /\ Spec
  /\ WF_vars(Handler) /\ WF_vars(RxThread) /\ WF_vars(Uart)
  /\ WF_vars(user # "idle" /\ dmx512suart_delete_port)

-----------------------------------------------------------------------------
\* The variables keep their types, and no fifo holds more than it can.
TypeOK ==
  /\ Len(txfifo) <= FifoSize /\ Len(rxfifo) <= FifoSize
  /\ Len(thr) <= TxFifo + 1 /\ Len(tsr) <= 1 /\ Len(rbr) <= RxFifo
  /\ Len(rxbuffer) < Chunk /\ Len(dmx_data) < DmxMax
  /\ DOMAIN line = DOMAIN Reset
  /\ handler \in {"interrupts", "events", "drain", "loop", "sleep", "ended"}
  /\ rxthread \in {"run", "ended"}
  /\ user \in {"init", "idle", "send", "dtr", "join rx", "join", "deleted"}

\* "a change baudrate command is executed only after all commands before it are
\* executed" (suart/Readme.md): what leaves the UART is what the accepted events
\* say, in their order and under their settings, although data is sent from two
\* buffers and a shift register after its event was taken.
StreamKeepsOrder ==
  [][tsr # << >> /\ tsr' = << >> => due # << >> /\ Head(due) = Left(tsr[1], line)]_vars

\* As long as every put fitted, a break goes out at the break's rate, slots at
\* the rate of DMX, and both only while the driver holds the line.
BreakAndSlotRates ==
  ~truncated /\ tsr # << >> =>
    /\ line.rts
    /\ IF tsr[1].slot = 0 THEN line.format = "8n1" /\ line.baud = 100500
       ELSE line.format = "8n2" /\ line.baud = 250000

\* When all events are done and every put fitted, the line is released, the
\* transmit interrupt is off and the receiver on.
LineReleased ==
  ~truncated /\ txfifo = << >> /\ txbuffer = << >> /\ handler # "ended"
  /\ user \in {"idle", "dtr"} => ~line.rts /\ ~line.tx /\ line.rx

\* As long as nothing was lost on the way, the frames handed over hold what
\* came in, in its order, and none mixes octets of two frames.
FramesAsReceived ==
  [][delivered' # delivered /\ ~lost /\ octets < DmxMax =>
       /\ IsPrefix(delivered', wire)
       /\ \A i \in 1..Len(delivered') : delivered'[i].frame = delivered'[1].frame]_vars

\* Everything the fifo accepted is sent.
EverythingSent == []<>(due = << >>)

\* Deleting the port ends both threads, unless the full fifo dropped the
\* shutdown event.
DeleteReturns == user = "join rx" ~> (user = "deleted" \/ truncated)

\* "lost lock. Frame too long": a locked receiver does not hand over the rest
\* of a longer frame as a frame. REFUTED: the branch is never taken.
OneDeliveryPerFrame ==
  [][delivered' # delivered /\ delivered # << >> => delivered'[1].frame # delivered[1].frame]_vars

\* "does a suart_pc16x50_shutdown(suart)" (dmx512suart_delete_port): the handler
\* thread ends. REFUTED: a full fifo drops the event and the join waits for ever.
ShutdownEnds == user = "join" ~> user = "deleted"

\* The line goes through a frame as DMX wants it: break and slots at their own
\* rates, and the line released when the frame is out.
LineConsistent ==
  /\ TypeOK
  /\ BreakAndSlotRates
  /\ LineReleased

=============================================================================
