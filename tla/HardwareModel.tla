--------------------------- MODULE HardwareModel ---------------------------
(***************************************************************************)
(* The simulated UART (hardware-model/hardware_model.cpp with              *)
(* memoryrequestqueue.hpp): driver threads put register accesses into a    *)
(* queue and wait for the promise of theirs; the simulation thread clocks  *)
(* a Wishbone master that carries them out one by one; an interrupt thread *)
(* polls a flag that the simulation sets.                                  *)
(*                                                                         *)
(* On top of it run the register operations of uart/pc16cx50.c, each a     *)
(* sequence of accesses, in the order in which the two threads of          *)
(* dmx512_suart.c make them.                                               *)
(***************************************************************************)
EXTENDS Integers, Sequences, Functions

CONSTANTS
  Threads,   \* threads that access registers
  Programs,  \* Programs[t]: the step sequences t may run
  AckDelay,  \* clock cycles until the UART acknowledges, at most
  AckLag,    \* clock cycles its acknowledge outlives the cycle, at most
  NULL

ASSUME DelayAssumption == AckDelay \in Nat /\ AckLag \in 0..2

Bits == {"RDA", "THRE", "RLS", "MS", "DLAB", "WLS", "STB", "RESET", "TRIGGER",
         "LO", "HI", "DTR"}
Regs == {"RBR", "DLL", "IER", "DLM", "IIR", "FCR", "LCR", "MCR", "LSR"}

-----------------------------------------------------------------------------
(* pc16cx50.c: a step reads a register, writes bits, or writes the value   *)
(* last read with bits cleared and set.                                    *)

Read(reg) == [do |-> "read", reg |-> reg, clear |-> {}, set |-> {}]
Write(reg, bits) == [do |-> "write", reg |-> reg, clear |-> {}, set |-> bits]
Modify(reg, clear, set) == [do |-> "modify", reg |-> reg, clear |-> clear, set |-> set]

pc16x50_reg_set_bits(reg, bits) == << Read(reg), Modify(reg, {}, bits) >>
pc16x50_reg_clear_bits(reg, bits) == << Read(reg), Modify(reg, bits, {}) >>

\* The fifo register cannot be read; the driver keeps its value in shadow_fcr.
pc16x50_flush_rx_fifo == << [do |-> "flush", reg |-> "FCR", clear |-> {}, set |-> {"RESET"}] >>
pc16x50_set_fifo_trigger_level ==
  << [do |-> "trigger", reg |-> "FCR", clear |-> {}, set |-> {"TRIGGER"}] >>

\* The divisor is written behind the DLAB bit of LCR.
pc16x50_set_baudrate_divisor ==
  << Read("LCR"), Modify("LCR", {}, {"DLAB"}), Write("DLL", {"LO"}), Write("DLM", {"HI"}),
     Modify("LCR", {}, {}) >>

pc16x50_set_format == << Read("LCR"), Modify("LCR", {"WLS", "STB"}, {"WLS", "STB"}) >>

pc16x50_change_mcr_bits == << Write("MCR", {"DTR"}) >>

\* The steps that access a register, and all steps.
Accessing == {"read", "write", "modify", "flush", "trigger"}
Steps == [do : STRING, reg : Regs \union {"none"}, clear : SUBSET Bits, set : SUBSET Bits]

Signal(s) == << [do |-> s, reg |-> "none", clear |-> {}, set |-> {}] >>

\* suart_pc16x50_create starts the handler thread, sets up the UART, and binds
\* the interrupt; then dmx512suart_send_init_events posts the first events.
suart_pc16x50_create ==
  Signal("start") \o pc16x50_flush_rx_fifo
  \o pc16x50_reg_set_bits("IER", {"RLS", "MS"})
  \o pc16x50_set_fifo_trigger_level \o Signal("bind") \o Signal("post")

\* suart_pc16x50_delete: post the shutdown event, join the handler thread,
\* unbind the interrupt, delete.
suart_pc16x50_delete == Signal("shutdown") \o Signal("join") \o Signal("unbind") \o Signal("delete")

\* What the handler thread does: it looks for interrupts, where a receiver
\* overrun, once that interrupt is enabled, flushes the receive fifo, carries out the first events when they
\* are there, and then sleeps until it is woken to look for interrupts again.
suart_handler_pc16x50(overrun) ==
  Signal("started")
  \o (IF overrun
      THEN Signal("enabled") \o << Read("IIR"), Read("LSR") >> \o pc16x50_flush_rx_fifo
      ELSE << Read("IIR") >>)
  \o Signal("wait")
  \o pc16x50_set_format \o pc16x50_set_baudrate_divisor
  \o pc16x50_reg_clear_bits("IER", {"THRE"})
  \o pc16x50_flush_rx_fifo \o pc16x50_reg_set_bits("IER", {"RDA"})
  \o pc16x50_change_mcr_bits \o Signal("sleep") \o << Read("IIR") >>

\* An access names its register.
ASSUME ProgramAssumption ==
  \A t \in Threads : \A p \in Programs[t] :
    /\ p \in Seq(Steps)
    /\ \A i \in DOMAIN p : p[i].do \in Accessing => p[i].reg \in Regs

\* The registers of which LCR selects one or the other, and LCR itself.
Touches(step) == step.do \in Accessing /\ step.reg \in {"RBR", "DLL", "IER", "DLM", "LCR"}

\* Step i comes before the first events are posted, or after they were awaited.
Early(p, i) ==
  /\ \E k \in DOMAIN p : k > i /\ p[k].do = "post"
  /\ \A k \in DOMAIN p : k <= i => p[k].do # "post"
Late(p, i) == \E k \in DOMAIN p : k < i /\ p[k].do = "wait"

\* Before step i the divisor latch is selected.
WritesLCR(step) == step.do \in {"write", "modify"} /\ step.reg = "LCR"
Latched(p, i) ==
  \E j \in DOMAIN p :
    /\ j < i /\ WritesLCR(p[j]) /\ "DLAB" \in p[j].set
    /\ \A k \in DOMAIN p : j < k /\ k < i => ~WritesLCR(p[k])

\* The order in which a program of the driver uses the registers: those that
\* depend on LCR before it posts the first events or after it has awaited
\* them, the divisor latch only while it is selected, and IER changed only
\* right after it was read.
Orderly(p) ==
  /\ \A i \in DOMAIN p :
       /\ Touches(p[i]) => Early(p, i) \/ Late(p, i)
       /\ Latched(p, i) => Touches(p[i])
       /\ p[i].do \in Accessing /\ p[i].reg \in {"DLL", "DLM"} => Latched(p, i)
       /\ p[i].do \in Accessing /\ p[i].reg \in {"RBR", "IER"} => ~Latched(p, i)
       /\ p[i].do = "read" /\ p[i].reg = "LCR" => ~Latched(p, i)
       /\ p[i].do \in {"flush", "trigger"} => p[i].reg = "FCR"
       /\ "DLAB" \in p[i].set => p[i].reg = "LCR"
       /\ p[i].do = "modify" /\ p[i].reg = "IER" =>
            i - 1 \in DOMAIN p /\ p[i - 1].do = "read" /\ p[i - 1].reg = "IER"
  /\ ~Latched(p, Len(p) + 1)
  /\ (\E i \in DOMAIN p : p[i].do = "sleep") => \A i \in DOMAIN p : p[i].do # "post"

Signals(t, s) == \E p \in Programs[t] : \E i \in DOMAIN p : p[i].do = s

\* One thread sets the UART up and posts the first events, one awaits them.
ASSUME OrderAssumption ==
  /\ \A t \in Threads : \A p \in Programs[t] : Orderly(p)
  /\ \A t, u \in Threads : \A s \in {"post", "wait"} : Signals(t, s) /\ Signals(u, s) => t = u

\* What a thread asks of the UART.
Access_ == [write : BOOLEAN, reg : Regs, data : SUBSET Bits]

ASSUME NullAssumption ==
  NULL \notin Threads /\ NULL \notin Access_ /\ \A bits \in SUBSET Bits : NULL # bits

-----------------------------------------------------------------------------
VARIABLES
  mem,       \* the registers of the UART, each a set of bits
  phase, age, rdata, irq, \* the UART: is its acknowledge up, for how many clock
             \* cycles, its data and interrupt lines
  shadow_fcr,
  program, pc, value, \* by thread: its steps, where it is, the value last read
  request,   \* request[t]: the access t waits for, or NULL
  result,    \* result[t]: the value its promise got, or NULL
  signals,   \* what the threads have told each other
  q,         \* the threads whose accesses are in the request queue
  pendingRequest, state, \* of the Wishbone master
  sim, reset, \* the next step of the simulation loop, the reset line
  irqReq, irqThread, bound \* class InterruptHandler

uart == << mem, phase, age, rdata, irq >>
driver == << shadow_fcr, program, pc, value, request, result, signals, bound >>
interrupt == << irqReq, irqThread >>
vars == << uart, driver, q, pendingRequest, state, sim, reset, interrupt >>

Init ==
  /\ mem = [r \in Regs |-> {}]
  /\ phase = "idle" /\ age = 0 /\ rdata = {} /\ irq = FALSE
  /\ shadow_fcr = {}
  /\ program \in [Threads -> UNION {Programs[t] : t \in Threads}]
  /\ \A t \in Threads : program[t] \in Programs[t]
  /\ pc = [t \in Threads |-> 1]
  /\ value = [t \in Threads |-> {}]
  /\ request = [t \in Threads |-> NULL]
  /\ result = [t \in Threads |-> NULL]
  /\ signals = {}
  /\ q = << >> /\ pendingRequest = NULL /\ state = 0
  /\ sim = "control" /\ reset = TRUE
  /\ irqReq = FALSE /\ irqThread = "poll" /\ bound = FALSE

-----------------------------------------------------------------------------
(* Driver threads. *)

Step(t) == program[t][pc[t]]
Running(t) == pc[t] <= Len(program[t]) /\ request[t] = NULL
Asleep(t) == Running(t) /\ Step(t).do = "sleep"

\* What a step that writes puts into its register.
Written(t) ==
  CASE Step(t).do = "modify" -> (value[t] \ Step(t).clear) \union Step(t).set
    [] Step(t).do \in {"flush", "trigger"} -> shadow_fcr \union Step(t).set
    [] OTHER -> Step(t).set

\* pc16x50_reg_read and pc16x50_reg_write: the request is made up.
Access(t) ==
  /\ Running(t)
  /\ Step(t).do \in Accessing
  /\ request' = [request EXCEPT ![t] = [write |-> Step(t).do # "read", reg |-> Step(t).reg,
                                        data |-> Written(t)]]
  /\ shadow_fcr' = IF Step(t).do = "trigger" THEN Written(t) ELSE shadow_fcr
  /\ UNCHANGED << program, pc, value, result, signals, bound, uart, q, pendingRequest, state,
                  sim, reset, interrupt >>

\* readMemory and writeMemory: queue(m), then wait in getResult.
Queue(t) ==
  /\ request[t] # NULL /\ result[t] = NULL
  /\ pendingRequest # t /\ t \notin Range(q)
  /\ q' = Append(q, t)
  /\ UNCHANGED << driver, uart, pendingRequest, state, sim, reset, interrupt >>

\* The promise is kept: getResult returns.
GetResult(t) ==
  /\ request[t] # NULL /\ result[t] # NULL
  /\ value' = IF request[t].write THEN value ELSE [value EXCEPT ![t] = result[t]]
  /\ request' = [request EXCEPT ![t] = NULL]
  /\ result' = [result EXCEPT ![t] = NULL]
  /\ pc' = [pc EXCEPT ![t] = @ + 1]
  /\ UNCHANGED << shadow_fcr, program, signals, bound, uart, q, pendingRequest, state,
                  sim, reset, interrupt >>

\* Mutant of Binds: the test of the handler is inverted.
BindsNull(do) == do = "unbind"

\* wbBindInterrupt binds a handler, and ignores a null one.
Binds(do) == do = "bind"

\* Mutant of Ready: the first events are carried out before they are posted.
ReadyUnposted(do) ==
  /\ do = "started" => "start" \in signals
  /\ do = "enabled" => "RLS" \in mem["IER"]
  /\ do = "join" => "ended" \in signals
\* What a step that accesses no register waits for.
Ready(do) ==
  /\ do = "started" => "start" \in signals
  /\ do = "enabled" => "RLS" \in mem["IER"]
  /\ do = "wait" => "post" \in signals
  /\ do = "join" => "ended" \in signals

\* The steps that access no register.
Synchronise(t) ==
  /\ Running(t)
  /\ LET do == Step(t).do
     IN  /\ do \notin Accessing \union {"sleep"}
         /\ Ready(do)
         /\ signals' = signals \union {do}
         /\ bound' = (bound \/ Binds(do))
  /\ pc' = [pc EXCEPT ![t] = @ + 1]
  /\ UNCHANGED << shadow_fcr, program, value, request, result, uart, q, pendingRequest, state,
                  sim, reset, interrupt >>

\* The handler thread has looked for interrupts and goes round its loop; it
\* ends when it finds the shutdown event.
SleepAgain(t) ==
  /\ pc[t] = Len(program[t]) + 1 /\ pc[t] > 2 /\ program[t][pc[t] - 2].do = "sleep"
  /\ pc' = [pc EXCEPT ![t] = IF "shutdown" \in signals THEN @ + 1 ELSE @ - 2]
  /\ signals' = IF "shutdown" \in signals THEN signals \union {"ended"} ELSE signals
  /\ UNCHANGED << shadow_fcr, program, value, request, result, bound, uart, q,
                  pendingRequest, state, sim, reset, interrupt >>

\* The wait of the handler thread ends without an interrupt: the timeout, or
\* the wakeup that comes with the shutdown event.
Timeout(t) ==
  /\ Asleep(t)
  /\ pc' = [pc EXCEPT ![t] = @ + 1]
  /\ UNCHANGED << shadow_fcr, program, value, request, result, signals, bound, uart, q,
                  pendingRequest, state, sim, reset, interrupt >>

-----------------------------------------------------------------------------
(* The simulation thread: SimulationToplevel::simulationLoop. Only the     *)
(* iterations with the clock high change anything.                         *)

\* WishboneMaster::controlOutputs: an idle master takes the next request.
controlOutputs ==
  /\ sim = "control"
  /\ sim' = "eval"
  /\ IF ~reset /\ state = 0 /\ q # << >>
     THEN /\ pendingRequest' = Head(q)
          /\ q' = Tail(q)
          /\ state' = IF request[Head(q)].write THEN 1 ELSE 2
     ELSE UNCHANGED << q, pendingRequest, state >>
  /\ UNCHANGED << uart, driver, reset, interrupt >>

cyc == state \in {1, 2}
wb_ack == phase # "idle"

\* External: which register the UART decodes; DLAB selects the divisor latch.
Target(m, reg) ==
  CASE reg \in {"RBR", "DLL"} -> IF "DLAB" \in m["LCR"] THEN "DLL" ELSE "RBR"
    [] reg \in {"IER", "DLM"} -> IF "DLAB" \in m["LCR"] THEN "DLM" ELSE "IER"
    [] OTHER -> reg
\* External: what an access does and returns.
Effect(m, a) == IF a.write THEN [m EXCEPT ![Target(m, a.reg)] = a.data] ELSE m
Value(m, a) == IF a.write THEN {} ELSE m[Target(m, a.reg)]

\* External: the clock edge in the UART. It carries an access out once and
\* raises its acknowledge, which it drops some cycles after the bus cycle
\* ends. Its interrupt line rises if an interrupt is enabled and falls when
\* the cause is read.
eval ==
  /\ sim = "eval"
  /\ sim' = "handle"
  /\ LET a == request[pendingRequest]
     IN  \/ /\ cyc /\ phase = "idle"
            /\ phase' = "answered" /\ age' = 0
            /\ rdata' = Value(mem, a)
            /\ mem' = Effect(mem, a)
            /\ irq' = (irq /\ (a.write \/ a.reg # "IIR"))
         \/ /\ phase = "idle"
            /\ IF cyc THEN age < AckDelay /\ age' = age + 1 ELSE age' = age
            /\ irq' \in (IF mem["IER"] = {} THEN {irq} ELSE {irq, TRUE})
            /\ UNCHANGED << mem, phase, rdata >>
         \/ /\ phase # "idle" /\ age < AckLag
            /\ phase' = "lag" /\ age' = age + 1
            /\ UNCHANGED << mem, rdata, irq >>
         \/ /\ phase # "idle"
            /\ phase' = "idle" /\ age' = 0
            /\ UNCHANGED << mem, rdata, irq >>
  /\ UNCHANGED << driver, q, pendingRequest, state, reset, interrupt >>

\* Mutant of nextState: the second idle cycle is left out.
nextStateShort(ack) ==
  CASE state \in {1, 2} -> IF ack THEN 3 ELSE state
    [] state = 3 -> 0
    [] OTHER -> 0
\* Mutant of nextState: the second idle cycle is never left.
nextStateStuck(ack) ==
  CASE state \in {1, 2} -> IF ack THEN 3 ELSE state
    [] state = 3 -> 4
    [] OTHER -> state

\* WishboneMaster: an acknowledged cycle is followed by two idle ones.
nextState(ack) ==
  CASE state \in {1, 2} -> IF ack THEN 3 ELSE state
    [] state = 3 -> 4
    [] OTHER -> 0

\* handleInputs of the bus master and of the interrupt handler: an acknowledge
\* keeps the promise of the pending request, and the level of the interrupt
\* line is requested in every cycle; then the clock goes low.
handleInputs ==
  /\ sim = "handle"
  /\ sim' = "control"
  /\ reset' = FALSE
  /\ state' = nextState(wb_ack)
  /\ IF cyc /\ wb_ack
     THEN /\ result' = [result EXCEPT ![pendingRequest] =
                          IF request[pendingRequest].write THEN {} ELSE rdata]
          /\ pendingRequest' = NULL
     ELSE UNCHANGED << result, pendingRequest >>
  /\ irqReq' = (irqReq \/ irq)
  /\ UNCHANGED << uart, shadow_fcr, program, pc, value, request, signals, bound, q, irqThread >>

-----------------------------------------------------------------------------
(* The interrupt thread. *)

\* It polls the flag and clears it.
PollInterrupt ==
  /\ irqThread = "poll" /\ irqReq
  /\ irqReq' = FALSE
  /\ irqThread' = "call"
  /\ UNCHANGED << uart, driver, q, pendingRequest, state, sim, reset >>

\* It calls the bound handler, suart_pc16x50_irqfunc, which wakes the handler
\* thread if that is asleep and is lost otherwise.
CallHandler ==
  /\ irqThread = "call"
  /\ irqThread' = "poll"
  /\ pc' = [t \in Threads |-> IF bound /\ Asleep(t) THEN pc[t] + 1 ELSE pc[t]]
  /\ UNCHANGED << uart, shadow_fcr, program, value, request, result, signals, bound, q,
                  pendingRequest, state, sim, reset, irqReq >>

-----------------------------------------------------------------------------
Driver(t) == Access(t) \/ Queue(t) \/ GetResult(t) \/ Synchronise(t) \/ SleepAgain(t)

simulationLoop == controlOutputs \/ eval \/ handleInputs

Next ==
  \/ \E t \in Threads : Driver(t) \/ Timeout(t)
  \/ simulationLoop
  \/ PollInterrupt \/ CallHandler

Spec == Init /\ [][Next]_vars

\* All threads run. A wait may last as long as it likes, except that the
\* shutdown event ends it.
FairSpec ==
  /\ Spec
  /\ \A t \in Threads : WF_vars(Driver(t)) /\ WF_vars(Timeout(t) /\ "shutdown" \in signals)
  /\ WF_vars(simulationLoop)
  /\ WF_vars(PollInterrupt) /\ WF_vars(CallHandler)

-----------------------------------------------------------------------------
\* The variables keep their types, and the queue holds each waiting thread's
\* request at most once.
TypeOK ==
  /\ mem \in [Regs -> SUBSET Bits] /\ rdata \in SUBSET Bits
  /\ phase \in {"idle", "answered", "lag"} /\ age \in 0..(AckDelay + AckLag) /\ irq \in BOOLEAN
  /\ shadow_fcr \in SUBSET Bits
  /\ \A t \in Threads :
       /\ request[t] # NULL => request[t].reg \in Regs /\ request[t].data \in SUBSET Bits
       /\ result[t] # NULL => result[t] \in SUBSET Bits
       /\ value[t] \in SUBSET Bits
  /\ q \in Seq(Threads) /\ IsInjective(q)
  /\ pendingRequest \in Threads \union {NULL}
  /\ state \in 0..4
  /\ sim \in {"control", "eval", "handle"} /\ reset \in BOOLEAN
  /\ irqReq \in BOOLEAN /\ irqThread \in {"poll", "call"} /\ bound \in BOOLEAN

\* The request queue, the bus master and its idle cycles, and the UART together
\* carry out each access at one instant between its call and its return: no
\* acknowledge of an earlier access is taken for it, and none is lost.
AccessOf(t) ==
  CASE request[t] = NULL -> [idle |-> TRUE]
    [] request[t] # NULL /\ result[t] # NULL -> [ret |-> result[t]]
    [] request[t] # NULL /\ result[t] = NULL /\ pendingRequest = t /\ phase = "answered"
         -> [ret |-> rdata]
    [] OTHER -> [call |-> request[t]]

Bus == INSTANCE RegisterBus WITH
         Accesses <- Access_, Memories <- [Regs -> SUBSET Bits], Results <- SUBSET Bits,
         Idle <- [idle |-> TRUE], access <- [t \in Threads |-> AccessOf(t)]

ImplementsBus == Bus!Spec

Unserved(t) == request[t] # NULL /\ result[t] = NULL
               /\ ~(pendingRequest = t /\ phase = "answered")

\* An access of one thread never meets the divisor latch that the other thread
\* has selected: when the UART is about to carry it out, it decodes the
\* register that pc16cx50.c names.
AccessHitsItsRegister ==
  \A t \in Threads :
    pendingRequest = t /\ Unserved(t) /\ phase = "idle" =>
      \/ Target(mem, request[t].reg) = request[t].reg
      \/ request[t].reg = "LCR"

\* pc16x50_reg_set_bits reads and writes without a lock, on a register that
\* both threads change; still no update is lost, since until the write is
\* carried out the register holds what was read.
NoLostUpdate ==
  \A t \in Threads :
    pc[t] <= Len(program[t]) /\ Step(t).do = "modify" /\ Step(t).reg = "IER"
    /\ (request[t] = NULL \/ Unserved(t))
      => value[t] = mem["IER"]

\* Every register access of a driver thread returns.
EveryAccessReturns == \A t \in Threads : request[t] # NULL ~> request[t] = NULL

\* An interrupt that finds the handler thread awake wakes nobody; its level
\* stays, so the interrupt is requested again and served without waiting for
\* the timeout, as long as the handler thread lives.
InterruptServed == irq ~> (~irq \/ "shutdown" \in signals)

\* "last thing to do, after everything is set up, is to assign the irqhandler."
\* (suart_pc16x50_create): what was set up, the trigger level, is then there.
\* REFUTED: the handler thread runs already, and its flush writes back the
\* shadow of the fifo register it read before.
TriggerLevelKept ==
  bound /\ (\A t \in Threads : request[t] = NULL) => "TRIGGER" \in mem["FCR"]

\* No interrupt calls a handler whose stream UART has been deleted.
\* REFUTED: wbBindInterrupt does not unbind.
NoCallAfterDelete == irqThread = "call" /\ "delete" \in signals => ~bound

\* The registers hold what their users wrote: every access hits the register it
\* names, and no update of one thread is undone by that of another.
RegistersConsistent ==
  /\ TypeOK
  /\ AccessHitsItsRegister
  /\ NoLostUpdate

=============================================================================
