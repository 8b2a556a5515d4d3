----------------------------- MODULE RtuartDev -----------------------------
(***************************************************************************)
(* The CUSE device in front of an rtuart (cuse-drivers/cuse/rtuart_dev.c), *)
(* composed with the register accesses of the two rtuart drivers.          *)
(*                                                                         *)
(* An ioctl takes two rounds: the first tells the kernel which memory of   *)
(* the client it needs, the second makes the rtuart call and replies.  The *)
(* callbacks of the interrupt thread append events to a linked list, reads *)
(* take them out.  Nothing is locked.  A process that calls a driver       *)
(* without the device (the test programs) is the case device = FALSE.      *)
(*                                                                         *)
(* External, from libfuse and the kernel: one client makes one call at a   *)
(* time, and a retry reply brings the same request back with its buffers.  *)
(* Unless Concurrent, the interrupt thread runs between calls only.        *)
(***************************************************************************)
EXTENDS UartRegisters, TLC

CONSTANTS
  Commands,  \* ioctl commands that clients issue: RTUART_IOCTL_*
  Entries    \* how many event entries malloc can hand out

AllCommands == {"S_FMT", "S_BAUDRATE", "S_CONTROL", "C_CONTROL", "S_NOTIFY", "C_NOTIFY",
                "G_FMT", "G_BAUDRATE", "G_CONTROL", "G_NOTIFY", "TX_ENABLE", "RX_ENABLE"}

ASSUME DevAssumption == Commands \subseteq AllCommands /\ Entries \in Nat

VARIABLES
  device,      \* the process is rtuart_dev
  request,     \* <<>>, or <<[cmd, arg, round]>>: the ioctl the server works on
  waiting,     \* the command whose ioctl the client waits in, or "none"
  tx_buffer,   \* the driver holds the buffer of a write
  event_head,  \* the list of events; entry 0 is the null pointer
  event_tail,
  next,        \* next[e]
  adding,      \* <<>>, or <<e, step>>: add_event(e) of the interrupt thread
  getting,     \* <<>>, or <<e>>: get_event of the server has taken e
  due          \* the entries whose events no read has returned, oldest first

list == <<event_head, event_tail, next, adding, getting, due>>
dev == <<device, request, waiting, tx_buffer, list>>
devvars == <<vars, dev>>

Pointers == 0..Entries

DevInit ==
  /\ Init
  /\ device \in IF driver \in {"rtuart_pc16c550", "rtuart_pl011"} THEN BOOLEAN ELSE {FALSE}
  /\ request = << >> /\ waiting = "none" /\ tx_buffer = FALSE
  /\ event_head = 0 /\ event_tail = 0
  /\ next = [e \in 1..Entries |-> 0]
  /\ adding = << >> /\ getting = << >> /\ due = << >>

-----------------------------------------------------------------------------
(* Requests.                                                               *)

ParityCode == [n |-> 110, e |-> 101, o |-> 111] @@ ("1" :> 49) @@ ("0" :> 48)

\* set_format of the client (t_rtuart_userspace.c) packs the format into one word.
packed(f) == f[1] * 65536 + ParityCode[f[2]] * 256 + f[3]

\* Mutant of unpacked: the parity is left out.
UnpackedWithoutParity(value) == <<(value \div 65536) % 256, "n", value % 256>>

unpacked(value) ==
  <<(value \div 65536) % 256, CHOOSE p \in Parities : ParityCode[p] = (value \div 256) % 256, value % 256>>

Arguments(cmd) ==
  CASE cmd = "S_FMT" -> {packed(f) : f \in Formats}
    [] cmd = "S_BAUDRATE" -> Baudrates
    [] cmd \in {"S_CONTROL", "C_CONTROL"} -> ControlSets
    [] OTHER -> {0}

Round(n) == request # << >> /\ request[1].round = n
Rounded(n) == request' = <<[request[1] EXCEPT !.round = n]>>

ioctl(cmd, arg) ==
  /\ device /\ waiting = "none"
  /\ Concurrent \/ (adding = << >> /\ getting = << >>)
  /\ request' = <<[cmd |-> cmd, arg |-> arg, round |-> 1]>>
  /\ waiting' = cmd
  /\ UNCHANGED <<vars, device, tx_buffer, list>>

Known(cmd) == cmd \notin {"TX_ENABLE", "RX_ENABLE"}

\* The first round asks for the argument, or for room for the result.
cusetest_ioctl_retry ==
  /\ Round(1)
  /\ Known(request[1].cmd)
  /\ Rounded(2)
  /\ UNCHANGED <<vars, device, waiting, tx_buffer, list>>

\* An unknown command is reported on stdout; the handler returns without a reply.
cusetest_ioctl_unhandled ==
  /\ Round(1)
  /\ ~Known(request[1].cmd)
  /\ request' = << >>
  /\ UNCHANGED <<vars, device, waiting, tx_buffer, list>>

update_notification(on) == IF Chip16550 THEN pc16c550_update_notification(on) ELSE pl011_notification_reads

\* G_FMT, G_CONTROL and G_NOTIFY change no register.
cusetest_ioctl ==
  /\ Round(2)
  /\ Idle
  /\ LET cmd == request[1].cmd  arg == request[1].arg IN
       CASE cmd = "S_FMT" -> rtuart_set_format(unpacked(arg))
         [] cmd = "S_BAUDRATE" -> rtuart_set_baudrate(arg)
         [] cmd = "S_CONTROL" -> rtuart_set_control(arg, TRUE)
         [] cmd = "C_CONTROL" -> rtuart_set_control(arg, FALSE)
         [] cmd = "S_NOTIFY" -> update_notification(TRUE)
         [] cmd = "C_NOTIFY" -> update_notification(FALSE)
         [] cmd = "G_BAUDRATE" -> rtuart_get_baudrate
         [] OTHER -> UNCHANGED vars
  /\ Rounded(3)
  /\ UNCHANGED <<device, waiting, tx_buffer, list>>

\* The value a get command returns.
ioctl_value(cmd) ==
  CASE cmd = "G_BAUDRATE" -> get_baudrate
    [] cmd = "G_CONTROL" -> get_control
    [] OTHER -> 0

fuse_reply_ioctl ==
  /\ Round(3) /\ Quiet
  /\ request' = << >>
  /\ waiting' = "none"
  /\ UNCHANGED <<vars, device, tx_buffer, list>>

\* rtuart_tx_start keeps the pointer to a buffer on the stack of the handler,
\* which replies at once.
cusetest_write ==
  /\ device /\ waiting = "none" /\ Idle
  /\ tx_buffer' = TRUE
  /\ update_notification(TRUE)
  /\ UNCHANGED <<device, request, waiting, list>>

-----------------------------------------------------------------------------
(* The list of events.                                                     *)

InList == {due[i] : i \in DOMAIN due}
Busy == {adding[i] : i \in DOMAIN adding} \cup {getting[i] : i \in DOMAIN getting}
Spare == {e \in 1..Entries : e \notin InList \cup Busy}

\* One of the callbacks of the interrupt thread; the last one of a write ends
\* the driver's use of its buffer.
callback(last) ==
  /\ device
  /\ adding = << >>
  /\ Concurrent \/ (getting = << >> /\ waiting = "none")
  /\ Spare # {}
  /\ last => tx_buffer
  /\ adding' = <<Min(Spare), "link">>
  /\ due' = Append(due, Min(Spare))
  /\ tx_buffer' = (tx_buffer /\ ~last)
  /\ UNCHANGED <<vars, device, request, waiting, event_head, event_tail, next, getting>>

add_event_link ==
  /\ adding # << >> /\ adding[2] = "link"
  /\ next' = [e \in 1..Entries |-> IF e = adding[1] THEN 0 ELSE IF e = event_tail THEN adding[1] ELSE next[e]]
  /\ adding' = <<adding[1], "tail">>
  /\ UNCHANGED <<vars, device, request, waiting, tx_buffer, event_head, event_tail, getting, due>>

add_event_tail ==
  /\ adding # << >> /\ adding[2] = "tail"
  /\ event_tail' = adding[1]
  /\ event_head' = IF event_head = 0 THEN adding[1] ELSE event_head
  /\ adding' = << >>
  /\ UNCHANGED <<vars, device, request, waiting, tx_buffer, next, getting, due>>

\* A read takes the first event; without one it returns nothing at once.
get_event_head ==
  /\ device /\ waiting = "none"
  /\ getting = << >>
  /\ Concurrent \/ adding = << >>
  /\ event_head # 0
  /\ getting' = <<event_head>>
  /\ event_head' = next[event_head]
  /\ UNCHANGED <<vars, device, request, waiting, tx_buffer, event_tail, next, adding, due>>

\* Mutant of get_event_tail: the tail of an emptied list is kept.
GetEventKeepingTail ==
  /\ getting # << >>
  /\ due' = SelectSeq(due, LAMBDA e : e # getting[1])
  /\ getting' = << >>
  /\ UNCHANGED <<vars, device, request, waiting, tx_buffer, event_head, event_tail, next, adding>>

\* ... and replies with it and frees it.
get_event_tail ==
  /\ getting # << >>
  /\ event_tail' = IF event_head = 0 THEN 0 ELSE event_tail
  /\ due' = SelectSeq(due, LAMBDA e : e # getting[1])
  /\ getting' = << >>
  /\ UNCHANGED <<vars, device, request, waiting, tx_buffer, event_head, next, adding>>

DevNext ==
  \/ ~device /\ Calls /\ UNCHANGED dev
  \/ Accesses /\ UNCHANGED dev
  \/ \E cmd \in Commands : \E arg \in Arguments(cmd) : ioctl(cmd, arg)
  \/ cusetest_ioctl_retry
  \/ cusetest_ioctl_unhandled
  \/ cusetest_ioctl
  \/ fuse_reply_ioctl
  \/ cusetest_write
  \/ \E last \in BOOLEAN : callback(last)
  \/ add_event_link
  \/ add_event_tail
  \/ get_event_head
  \/ get_event_tail

DevSpec == DevInit /\ [][DevNext]_devvars

-----------------------------------------------------------------------------
(* Properties.                                                             *)

Answering(cmd) == Round(3) /\ Quiet /\ request[1].cmd = cmd

\* When an ioctl replies, the chip is set as the client asked in its packed
\* argument, and a value it returns is the one last set through the device
\* (stick parity and LOOP aside, which some drivers cannot express).
IoctlAsAsked ==
  /\ Answering("S_FMT") =>
       packed(get_format) = request[1].arg \/ unpacked(request[1].arg)[2] \in {"1", "0"}
  /\ Answering("G_BAUDRATE") /\ asked.rate # 0 =>
       100 * ioctl_value("G_BAUDRATE") \in (99 * asked.rate)..(101 * asked.rate)
  /\ Answering("G_CONTROL") => ioctl_value("G_CONTROL") \ Ambiguous = asked.controls \ Ambiguous
  /\ Answering("S_CONTROL") => request[1].arg \subseteq get_control
  /\ Answering("C_CONTROL") => request[1].arg \cap get_control = {}

\* A client that waits in an ioctl the device knows has its request with the
\* server: no handler returns without a reply (cusetest_ioctl).
WaitingIsServed == waiting # "none" /\ Known(waiting) => request # << >>

\* The same for every command of rtuart_ioctl.h ("#define
\* RTUART_IOCTL_TX_ENABLE").
EveryCommandServed == waiting # "none" => request # << >>

\* Between calls the list holds exactly the events that no read returned, in
\* the order of the callbacks (add_event, get_event).
EventsInOrder ==
  adding = << >> /\ getting = << >> =>
    /\ event_head = (IF due = << >> THEN 0 ELSE due[1])
    /\ event_tail = (IF due = << >> THEN 0 ELSE due[Len(due)])
    /\ \A i \in 1..(Len(due) - 1) : next[due[i]] = due[i + 1]

\* rtuart.h: "the buffer must be available until the transmision is
\* completed.": a driver holds no buffer whose write has returned.
BufferOutlivesTransmission == ~tx_buffer

\* rtuart_ioctl.h offers G_FMT beside S_FMT: it returns the format in use.
FormatReturned == Answering("G_FMT") => ioctl_value("G_FMT") = packed(get_format)

\* rtuart_get_baudrate divides by what the latch holds, which is not zero.
NoDivisionByZero ==
  Answering("G_BAUDRATE") => (IF Chip16550 THEN pc16x50_get_baudrate_divisor ELSE pl011_divisor) # 0

\* Clients of the device are served, and as they asked.
ClientsServed == IoctlAsAsked /\ WaitingIsServed

=============================================================================
