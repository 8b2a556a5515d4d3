--------------------------- MODULE UartRegisters ---------------------------
(***************************************************************************)
(* The settings of a UART and the registers that hold them.                *)
(*                                                                         *)
(* Five drivers of the repository translate line formats, baud rates,      *)
(* control lines and fifo levels into the registers of two chips:          *)
(*                                                                         *)
(*   uart_pc16c550, uart_pl011      src/uio-testbench/uart                 *)
(*   rtuart_pc16c550, rtuart_pl011  src/uio-testbench/rtuart               *)
(*   pc16x50                        src/simulation/uart                    *)
(*                                                                         *)
(* A register is the set of its bits that are one.  A driver call is the   *)
(* sequence of register accesses the code makes, each a step of its own,   *)
(* so that the accesses of the interrupt thread can fall between them.     *)
(* What the calls asked for is kept beside the registers, and the          *)
(* properties compare it with what the code's own get functions decode.    *)
(***************************************************************************)
EXTENDS Integers, Sequences, FiniteSetsExt

CONSTANTS
  Drivers,      \* the drivers to consider, a subset of AllDrivers
  Formats,      \* line formats <<databits, parity, stopbits>> that are asked for
  Baudrates,    \* baud rates that are asked for
  ControlSets,  \* sets of control lines that are switched in one call
  Levels,       \* receive fifo levels that are asked for
  Handshakes,   \* RTUART_HANDSHAKE_*
  Clock16550,   \* base_clock of the 16550 drivers
  ClockPl011,   \* base_clock of the PL011 drivers
  Concurrent    \* the interrupt thread runs beside the calls of the client

AllDrivers == {"uart_pc16c550", "uart_pl011", "rtuart_pc16c550", "rtuart_pl011", "pc16x50"}
AllControls == {"LOOP", "BREAK", "RTS", "DTR", "OUT1", "OUT2"}
Parities == {"n", "e", "o", "1", "0"}

ASSUME UartAssumption ==
  /\ Drivers \subseteq AllDrivers
  /\ Formats \subseteq (5..8) \X Parities \X (1..2)
  /\ Baudrates \subseteq Nat \ {0}
  /\ ControlSets \subseteq SUBSET AllControls
  /\ Levels \subseteq 1..14
  /\ Clock16550 \in Nat /\ ClockPl011 \in Nat
  /\ Concurrent \in BOOLEAN

VARIABLES
  driver,   \* the driver in use
  reg,      \* the registers of its chip: name -> set of bits
  shadow,   \* fcr_shadow / shadow_fcr and mcr_shadow, for registers that cannot be read
  gpio,     \* the gpio line that uart_pl011 switches along with RTS
  prog,     \* the register accesses the client's call still has to make
  tmp,      \* the register value the call has read
  irq,      \* <<>>, or <<v>>: the interrupt thread has read v from CR
  asked,    \* what the calls asked for
  stray     \* an access has hit another register than the code meant

vars == <<driver, reg, shadow, gpio, prog, tmp, irq, asked, stray>>

Chip16550 == driver \in {"uart_pc16c550", "rtuart_pc16c550", "pc16x50"}

Bits(n) == {i \in 0..15 : (n \div 2^i) % 2 = 1}
Value(s) == MapThenSumSet(LAMBDA i : 2^i, s)
Shifted(s, n) == {i + n : i \in s}

-----------------------------------------------------------------------------
(* Register bits.                                                          *)

Registers16550 == {"LCR", "MCR", "DLL", "DLM", "IER", "FCR"}
RegistersPl011 == {"LCRH", "CR", "IBRD", "FBRD", "IFLS", "IMSC"}

LCR_DLAB == 7
LCR_BREAK == 6
LCR_FORMAT == 0..5
FCR_FIFO_ENABLE == 0
FCR_RESETS == {1, 2}
FCR_TRIGGER_MASK == {6, 7}

LCRH_BRK == 0
LCRH_FEN == 4
LCRH_FORMAT == {1, 2, 3, 5, 6}
CR_RXE == 9
CR_TXE == 8
CR_HANDSHAKE == {14, 15}

\* PC16550_MCR_OUT2 and PC16550_MCR_LOOP are both (1<<3).
MCR_BIT == [DTR |-> 0, RTS |-> 1, OUT1 |-> 2, OUT2 |-> 3, LOOP |-> 3]
CR_BIT == [DTR |-> 10, RTS |-> 11, OUT1 |-> 12, OUT2 |-> 13, LOOP |-> 7]

McrBits(c) == {MCR_BIT[x] : x \in c \ {"BREAK"}}
CrBits(c) == {CR_BIT[x] : x \in c \ {"BREAK"}}

-----------------------------------------------------------------------------
(* Register accesses, and the calls as sequences of them.                  *)

Read(r) == [do |-> "read", at |-> r, clear |-> {}, set |-> {}]
\* Writes the value that was read, with some bits cleared and some set.
Modify(r, clear, set) == [do |-> "modify", at |-> r, clear |-> clear, set |-> set]
Store(r, v) == [do |-> "store", at |-> r, clear |-> {}, set |-> v]
Fetch(r) == [do |-> "fetch", at |-> r, clear |-> {}, set |-> {}]

Change(r, mask, value) == <<Read(r), Modify(r, mask, value \cap mask)>>

pl011_change_register(r, mask, value) == IF mask = {} THEN << >> ELSE Change(r, mask, value)

\* Line formats.

WordLength(databits) == Bits(databits - 5) \cap {0, 1}

ParityBits(parity) ==
  CASE parity = "e" -> {3, 4}
    [] parity = "o" -> {3}
    [] parity = "1" -> {3, 5}
    [] parity = "0" -> {3, 4, 5}
    [] OTHER -> {}

pc16x50_update_format_bits(f) ==
  WordLength(f[1]) \cup (IF f[3] > 1 THEN {2} ELSE {}) \cup ParityBits(f[2])

pc16x50_set_format(f) == Change("LCR", LCR_FORMAT, pc16x50_update_format_bits(f))

rtuart_pc16c550_set_format(f) == pc16x50_set_format(f)

uart_pc16c550_set_format(f) ==
  Change("LCR", LCR_FORMAT, Bits(f[1] - 5) \cup (IF f[3] > 1 THEN {2} ELSE {})
                            \cup (CASE f[2] = "e" -> {3, 4} [] f[2] = "o" -> {3} [] OTHER -> {}))

LcrhFormat(f) ==
  Shifted(WordLength(f[1]), 5) \cup (CASE f[2] = "e" -> {1, 2} [] f[2] = "o" -> {1} [] OTHER -> {})
                               \cup (IF f[3] > 1 THEN {3} ELSE {})

uart_pl011_set_format(f) == Change("LCRH", LCRH_FORMAT, LcrhFormat(f))
rtuart_pl011_set_format(f) == pl011_change_register("LCRH", LCRH_FORMAT, LcrhFormat(f))

set_format(f) ==
  CASE driver = "pc16x50" -> pc16x50_set_format(f)
    [] driver = "rtuart_pc16c550" -> rtuart_pc16c550_set_format(f)
    [] driver = "uart_pc16c550" -> uart_pc16c550_set_format(f)
    [] driver = "uart_pl011" -> uart_pl011_set_format(f)
    [] driver = "rtuart_pl011" -> rtuart_pl011_set_format(f)

\* Baud rates.  The 16550 reaches its divisor latch only while LCR.DLAB is set.

Divisor16550(b) == (Clock16550 \div 16) \div b
\* (base_clock * 64) / (16 * baudrate), which fits u32 for the clock in use.
DivisorPl011(b) == (4 * ClockPl011) \div b

pc16x50_set_baudrate_divisor(d) ==
  <<Read("LCR"), Modify("LCR", {}, {LCR_DLAB}),
    Store("DLL", Bits(d % 256)), Store("DLM", Bits((d \div 256) % 256)), Modify("LCR", {}, {})>>

\* Mutant of rtuart_pc16c550_set_baudrate: the latch stays open.
SetBaudrateKeepingLatch(b) ==
  LET d == Divisor16550(b) IN
  <<Read("LCR"), Modify("LCR", {}, {LCR_DLAB}),
    Store("DLL", Bits(d % 256)), Store("DLM", Bits((d \div 256) % 256))>>

rtuart_pc16c550_set_baudrate(b) == pc16x50_set_baudrate_divisor(Divisor16550(b))

\* The macro pc16c550_set_dlm writes the line control register.
uart_pc16c550_set_dlm(v) == Store("LCR", v)

uart_pc16c550_set_baudrate(b) ==
  LET d == Divisor16550(b) IN
  <<Read("LCR"), Modify("LCR", {}, {LCR_DLAB}),
    Store("DLL", Bits(d % 256)), uart_pc16c550_set_dlm(Bits((d \div 256) % 256)), Modify("LCR", {}, {})>>

\* The fraction is masked with 0x63.
uart_pl011_set_baudrate(b) ==
  LET d == DivisorPl011(b) IN
  <<Store("IBRD", Bits((d \div 64) % 65536)), Store("FBRD", Bits(d % 128) \cap Bits(99)),
    Read("LCRH"), Modify("LCRH", {}, {})>>

rtuart_pl011_set_baudrate(b) == uart_pl011_set_baudrate(b)

set_baudrate(b) ==
  CASE driver = "pc16x50" -> pc16x50_set_baudrate_divisor(Divisor16550(b))
    [] driver = "rtuart_pc16c550" -> rtuart_pc16c550_set_baudrate(b)
    [] driver = "uart_pc16c550" -> uart_pc16c550_set_baudrate(b)
    [] driver = "uart_pl011" -> uart_pl011_set_baudrate(b)
    [] driver = "rtuart_pl011" -> rtuart_pl011_set_baudrate(b)

\* Reading the divisor back opens the latch as well.
get_divisor ==
  IF Chip16550
  THEN <<Read("LCR"), Modify("LCR", {}, {LCR_DLAB}), Fetch("DLL"), Fetch("DLM"), Modify("LCR", {}, {})>>
  ELSE <<Fetch("IBRD"), Fetch("FBRD")>>

\* Control lines.

pl011_mod_control(lcrhMask, lcrh, crMask, cr) ==
  pl011_change_register("LCRH", lcrhMask, lcrh) \o pl011_change_register("CR", crMask, cr)

control_to_pl011_lcrh(c) == IF "BREAK" \in c THEN {LCRH_BRK} ELSE {}

control_to_pl011_cr(c) == CrBits(c)

rtuart_pl011_set_control(c) ==
  LET l == control_to_pl011_lcrh(c)  r == control_to_pl011_cr(c) IN pl011_mod_control(l, l, r, r)

rtuart_pl011_clr_control(c) ==
  LET l == control_to_pl011_lcrh(c)  r == control_to_pl011_cr(c) IN pl011_mod_control(l, {}, r, {})

rtuart_pc16c550_set_control(c) ==
  (IF "BREAK" \in c THEN <<Read("LCR"), Modify("LCR", {}, {LCR_BREAK})>> ELSE << >>)
  \o (IF c \ {"BREAK"} # {} THEN <<Read("MCR"), Modify("MCR", {}, McrBits(c))>> ELSE << >>)

rtuart_pc16c550_clr_control(c) ==
  (IF "BREAK" \in c THEN <<Read("LCR"), Modify("LCR", {LCR_BREAK}, {})>> ELSE << >>)
  \o (IF c \ {"BREAK"} # {} THEN <<Read("MCR"), Modify("MCR", McrBits(c), {})>> ELSE << >>)

uart_pc16c550_set_break(on) ==
  <<Read("LCR"), Modify("LCR", {LCR_BREAK}, IF on THEN {LCR_BREAK} ELSE {})>>

uart_pc16c550_set_modem_lines(mask, lines) == Change("MCR", McrBits(mask), McrBits(lines))

uart_pl011_set_break(on) == <<Read("LCRH"), Modify("LCRH", {LCRH_BRK}, IF on THEN {LCRH_BRK} ELSE {})>>

uart_pl011_set_modem_lines(mask, lines) == Change("CR", CrBits(mask), CrBits(lines))

pc16x50_enable_break == <<Read("LCR"), Modify("LCR", {}, {LCR_BREAK})>>
pc16x50_disable_break == <<Read("LCR"), Modify("LCR", {LCR_BREAK}, {})>>

\* The modem control register is only written; what it holds is remembered.
pc16x50_set_mcr_bits(c) == <<Store("MCR", shadow.mcr \cup McrBits(c))>>
pc16x50_clear_mcr_bits(c) == <<Store("MCR", shadow.mcr \ McrBits(c))>>

switch_controls(c, on) ==
  CASE driver = "rtuart_pc16c550" ->
         IF on THEN rtuart_pc16c550_set_control(c) ELSE rtuart_pc16c550_clr_control(c)
    [] driver = "rtuart_pl011" ->
         IF on THEN rtuart_pl011_set_control(c) ELSE rtuart_pl011_clr_control(c)
    [] driver = "uart_pc16c550" ->
         IF c = {"BREAK"} THEN uart_pc16c550_set_break(on)
         ELSE uart_pc16c550_set_modem_lines(c, IF on THEN c ELSE {})
    [] driver = "uart_pl011" ->
         IF c = {"BREAK"} THEN uart_pl011_set_break(on)
         ELSE uart_pl011_set_modem_lines(c, IF on THEN c ELSE {})
    [] driver = "pc16x50" ->
         CASE c = {"BREAK"} /\ on -> pc16x50_enable_break
           [] c = {"BREAK"} /\ ~on -> pc16x50_disable_break
           [] c # {"BREAK"} /\ on -> pc16x50_set_mcr_bits(c)
           [] OTHER -> pc16x50_clear_mcr_bits(c)

\* The older interfaces switch the break by a call of its own and have no LOOP.
Switchable(c) ==
  driver \in {"rtuart_pc16c550", "rtuart_pl011"} \/ c = {"BREAK"} \/ c \cap {"BREAK", "LOOP"} = {}

\* Flow control: only the PL011 driver of the newer interface sets it.
pl011_set_handshake(hs) ==
  pl011_mod_control({}, {}, CR_HANDSHAKE,
                    IF hs \in {"RTSCTS", "RTSCTS_DSRDTR"} THEN CR_HANDSHAKE ELSE {})

\* Fifos.  The fifo control register cannot be read: its bits are shadowed,
\* without the two that reset a fifo.

TriggerCode(level) == CASE level = 14 -> {6, 7} [] level = 8 -> {7} [] level = 4 -> {6} [] level = 1 -> {}

uart_pc16c550_rmw_fcr(mask, value) ==
  (shadow.fcr \ mask) \cup ((mask \cap value) \ FCR_RESETS)

pc16x50_enable_fifo == shadow.fcr \cup {FCR_FIFO_ENABLE}
pc16x50_disable_fifo == shadow.fcr \ {FCR_FIFO_ENABLE}

pc16x50_set_fifo_trigger_level(level) == (shadow.fcr \ FCR_TRIGGER_MASK) \cup TriggerCode(level)

pl011_fifo_level_to_code(level) ==
  CASE level = 14 -> 4 [] level = 12 -> 3 [] level = 8 -> 2 [] level = 4 -> 1 [] level = 2 -> 0

uart_pl011_set_fifo_enable(on) == Change("LCRH", {LCRH_FEN}, IF on THEN {LCRH_FEN} ELSE {})

uart_pl011_set_fifo_trigger_level(level) ==
  Change("IFLS", {3, 4, 5}, Shifted(Bits(pl011_fifo_level_to_code(level)), 3))

\* The masks of the newer driver are two bits wide.
spl011_set_rx_fifo_level(level) ==
  Shifted(Bits(CASE level <= 2 -> 0 [] level <= 4 -> 1 [] level <= 8 -> 2 [] level <= 12 -> 3
                 [] OTHER -> 4), 3) \cap {3, 4}

spl011_set_tx_fifo_level(level) ==
  Bits(CASE level < 4 -> 0 [] level < 8 -> 1 [] level < 12 -> 2 [] level < 14 -> 3 [] OTHER -> 4) \cap {0, 1}

LevelsOf16550 == {1, 4, 8, 14}
LevelsOfPl011 == {2, 4, 8, 12, 14}

-----------------------------------------------------------------------------
(* What the get functions of the drivers decode.                           *)

bits_value(s) == Value(s \cap {0, 1})

pc16x50_decode_format ==
  LET lcr == reg["LCR"] IN
  <<bits_value(lcr) + 5,
    CASE lcr \cap {3, 4, 5} = {3, 4, 5} -> "0"
      [] lcr \cap {3, 4, 5} = {3, 5} -> "1"
      [] lcr \cap {3, 4, 5} = {3, 4} -> "e"
      [] lcr \cap {3, 4, 5} = {3} -> "o"
      [] OTHER -> "n",
    IF 2 \in lcr THEN 2 ELSE 1>>

rtuart_pc16c550_get_format == pc16x50_decode_format

uart_pc16c550_get_format ==
  LET lcr == reg["LCR"] IN
  <<bits_value(lcr) + 5, IF 3 \in lcr THEN IF 4 \in lcr THEN "e" ELSE "o" ELSE "n", IF 2 \in lcr THEN 2 ELSE 1>>

rtuart_pl011_get_format ==
  LET lcrh == reg["LCRH"] IN
  <<Value({i \in {0, 1} : i + 5 \in lcrh}) + 5,
    IF 1 \in lcrh THEN IF 2 \in lcrh THEN "e" ELSE "o" ELSE "n",
    IF 3 \in lcrh THEN 2 ELSE 1>>

uart_pl011_get_format == rtuart_pl011_get_format

get_format ==
  CASE driver = "pc16x50" -> pc16x50_decode_format
    [] driver = "rtuart_pc16c550" -> rtuart_pc16c550_get_format
    [] driver = "uart_pc16c550" -> uart_pc16c550_get_format
    [] driver = "rtuart_pl011" -> rtuart_pl011_get_format
    [] driver = "uart_pl011" -> uart_pl011_get_format

\* The divisor the latch holds.
pc16x50_get_baudrate_divisor == Value(reg["DLL"]) + 256 * Value(reg["DLM"])
pl011_divisor == 64 * Value(reg["IBRD"]) + Value(reg["FBRD"] \cap 0..5)

rtuart_pc16c550_get_baudrate == (Clock16550 \div 16) \div pc16x50_get_baudrate_divisor
uart_pc16c550_get_baudrate == rtuart_pc16c550_get_baudrate
rtuart_pl011_get_baudrate == (4 * ClockPl011) \div pl011_divisor
uart_pl011_get_baudrate == rtuart_pl011_get_baudrate

get_baudrate ==
  CASE driver = "uart_pc16c550" -> uart_pc16c550_get_baudrate
    [] driver = "rtuart_pl011" -> rtuart_pl011_get_baudrate
    [] driver = "uart_pl011" -> uart_pl011_get_baudrate
    [] OTHER -> rtuart_pc16c550_get_baudrate

pc16c550_get_control ==
  (IF LCR_BREAK \in reg["LCR"] THEN {"BREAK"} ELSE {})
  \cup {x \in AllControls \ {"BREAK"} : MCR_BIT[x] \in reg["MCR"]}

pl011_get_control ==
  (IF LCRH_BRK \in reg["LCRH"] THEN {"BREAK"} ELSE {})
  \cup {x \in AllControls \ {"BREAK"} : CR_BIT[x] \in reg["CR"]}

get_control == IF Chip16550 THEN pc16c550_get_control ELSE pl011_get_control

rx_fifo_level ==
  IF Chip16550
  THEN CHOOSE l \in LevelsOf16550 : TriggerCode(l) = reg["FCR"] \cap FCR_TRIGGER_MASK
  ELSE CHOOSE l \in LevelsOfPl011 : Shifted(Bits(pl011_fifo_level_to_code(l)), 3) = reg["IFLS"] \cap {3, 4, 5}

-----------------------------------------------------------------------------
(* The registers after a reset and the create function of the driver.      *)

rtuart_pc16c550_create == [fcr |-> {FCR_FIFO_ENABLE, 6}, mcr |-> {}]

rtuart_pl011_create ==
  [LCRH |-> {LCRH_FEN}, CR |-> {0, CR_TXE}, IBRD |-> {}, FBRD |-> {},
   IFLS |-> spl011_set_rx_fifo_level(4) \cup spl011_set_tx_fifo_level(8), IMSC |-> {}]

InitialShadow(d) == IF d = "rtuart_pc16c550" THEN rtuart_pc16c550_create ELSE [fcr |-> {}, mcr |-> {}]

InitialRegisters(d) ==
  CASE d = "rtuart_pl011" -> rtuart_pl011_create
    [] d = "uart_pl011" ->
         [LCRH |-> {}, CR |-> {CR_RXE, CR_TXE}, IBRD |-> {}, FBRD |-> {}, IFLS |-> {1, 4}, IMSC |-> {}]
    [] OTHER -> [r \in Registers16550 |-> IF r = "FCR" THEN InitialShadow(d).fcr ELSE {}]

Init ==
  /\ driver \in Drivers
  /\ reg = InitialRegisters(driver)
  /\ shadow = InitialShadow(driver)
  /\ gpio = 0
  /\ prog = << >> /\ tmp = {} /\ irq = << >>
  /\ asked = [format |-> <<5, "n", 1>>, rate |-> 0, controls |-> {}, handshake |-> "OFF",
              fifo |-> driver \in {"rtuart_pc16c550", "rtuart_pl011"},
              level |-> CASE driver \in {"rtuart_pc16c550", "rtuart_pl011"} -> 4
                          [] driver = "uart_pl011" -> 8 [] OTHER -> 1,
              lines |-> FALSE]
  /\ stray = FALSE

-----------------------------------------------------------------------------
(* The calls of the client.                                                *)

Idle == prog = << >> /\ (Concurrent \/ irq = << >>)

rtuart_set_format(f) ==
  /\ Idle
  /\ prog' = set_format(f)
  /\ asked' = [asked EXCEPT !.format = f]
  /\ UNCHANGED <<driver, reg, shadow, gpio, tmp, irq, stray>>

rtuart_set_baudrate(b) ==
  /\ Idle
  /\ prog' = set_baudrate(b)
  /\ asked' = [asked EXCEPT !.rate = b]
  /\ UNCHANGED <<driver, reg, shadow, gpio, tmp, irq, stray>>

rtuart_get_baudrate ==
  /\ Idle
  /\ prog' = get_divisor
  /\ UNCHANGED <<driver, reg, shadow, gpio, tmp, irq, asked, stray>>

\* The gpio line is switched first, to the inverse of RTS.
rtuart_set_control(c, on) ==
  /\ Idle
  /\ Switchable(c)
  /\ prog' = switch_controls(c, on)
  /\ shadow' = IF driver = "pc16x50"
               THEN [shadow EXCEPT !.mcr = IF on THEN @ \cup McrBits(c) ELSE @ \ McrBits(c)]
               ELSE shadow
  /\ gpio' = IF driver = "uart_pl011" /\ "RTS" \in c THEN IF on THEN 0 ELSE 1 ELSE gpio
  /\ asked' = [asked EXCEPT !.controls = IF on THEN @ \cup c ELSE @ \ c,
                            !.lines = @ \/ "RTS" \in c]
  /\ UNCHANGED <<driver, reg, tmp, irq, stray>>

rtuart_set_handshake(hs) ==
  /\ Idle
  /\ driver = "rtuart_pl011"
  /\ prog' = pl011_set_handshake(hs)
  /\ asked' = [asked EXCEPT !.handshake = hs]
  /\ UNCHANGED <<driver, reg, shadow, gpio, tmp, irq, stray>>

\* A write of the fifo control register with its new shadow, and fifo resets.
WriteFcr(fcr, resets) ==
  /\ shadow' = [shadow EXCEPT !.fcr = fcr]
  /\ prog' = <<Store("FCR", fcr \cup resets)>>

rtuart_set_fifo_enable(on) ==
  /\ Idle
  /\ driver \in {"uart_pc16c550", "pc16x50", "uart_pl011"}
  /\ CASE driver = "uart_pc16c550" ->
            WriteFcr(uart_pc16c550_rmw_fcr({FCR_FIFO_ENABLE} \cup FCR_RESETS, IF on THEN {0, 1, 2} ELSE {}),
                     IF on THEN FCR_RESETS ELSE {})
       [] driver = "pc16x50" -> WriteFcr(IF on THEN pc16x50_enable_fifo ELSE pc16x50_disable_fifo, {})
       [] driver = "uart_pl011" -> shadow' = shadow /\ prog' = uart_pl011_set_fifo_enable(on)
  /\ asked' = [asked EXCEPT !.fifo = on]
  /\ UNCHANGED <<driver, reg, gpio, tmp, irq, stray>>

\* A level the chip does not have is refused.
rtuart_set_rxfifo_trigger_level(level) ==
  /\ Idle
  /\ driver \in {"uart_pc16c550", "pc16x50", "uart_pl011"}
  /\ level \in (IF Chip16550 THEN LevelsOf16550 ELSE LevelsOfPl011)
  /\ CASE driver = "uart_pc16c550" ->
            WriteFcr(uart_pc16c550_rmw_fcr(FCR_TRIGGER_MASK, TriggerCode(level)), {})
       [] driver = "pc16x50" -> WriteFcr(pc16x50_set_fifo_trigger_level(level), {})
       [] driver = "uart_pl011" -> shadow' = shadow /\ prog' = uart_pl011_set_fifo_trigger_level(level)
  /\ asked' = [asked EXCEPT !.level = level]
  /\ UNCHANGED <<driver, reg, gpio, tmp, irq, stray>>

\* On the PL011 flushing leaves the registers alone: the code looks for the
\* fifo enable bit in the control register, which does not have it.
rtuart_flush_fifo ==
  /\ Idle
  /\ Chip16550
  /\ WriteFcr(shadow.fcr, {1})
  /\ UNCHANGED <<driver, reg, gpio, tmp, irq, asked, stray>>

-----------------------------------------------------------------------------
(* Register accesses.                                                      *)

\* The register the chip selects: RBR/THR and IER share their addresses with
\* the divisor latch.
Selected(r) ==
  CASE Chip16550 /\ r \in {"DLL", "RBR"} -> IF LCR_DLAB \in reg["LCR"] THEN "DLL" ELSE "RBR"
    [] Chip16550 /\ r \in {"DLM", "IER"} -> IF LCR_DLAB \in reg["LCR"] THEN "DLM" ELSE "IER"
    [] OTHER -> r

Written(r, v) == IF r \in DOMAIN reg THEN [reg EXCEPT ![r] = v \ (IF r = "FCR" THEN FCR_RESETS ELSE {})] ELSE reg

\* The next access of the client's call.
register_access ==
  /\ prog # << >>
  /\ LET a == Head(prog)
         r == Selected(a.at)
     IN /\ reg' = CASE a.do = "modify" -> Written(r, (tmp \ a.clear) \cup a.set)
                    [] a.do = "store" -> Written(r, a.set)
                    [] OTHER -> reg
        /\ tmp' = CASE Len(prog) = 1 -> {}
                    [] a.do = "read" -> reg[r]
                    [] OTHER -> tmp
        /\ stray' = (stray \/ r # a.at)
  /\ prog' = Tail(prog)
  /\ UNCHANGED <<driver, shadow, gpio, irq, asked>>

-----------------------------------------------------------------------------
(* The notification code, run by the interrupt thread, or by the client    *)
(* between its other calls.                                                *)

MayNotify == Concurrent \/ prog = << >>

\* The interrupt handler reads a received octet.
irq_reads_data ==
  /\ MayNotify
  /\ Chip16550
  /\ stray' = (stray \/ Selected("RBR") # "RBR")
  /\ UNCHANGED <<driver, reg, shadow, gpio, prog, tmp, irq, asked>>

pc16c550_update_notification(receive) ==
  /\ MayNotify
  /\ Chip16550
  /\ reg' = Written(Selected("IER"), IF receive THEN {0, 2} ELSE {})
  /\ stray' = (stray \/ Selected("IER") # "IER")
  /\ UNCHANGED <<driver, shadow, gpio, prog, tmp, irq, asked>>

\* Receiver and transmitter enable bits are changed in the control register.
pl011_notification_reads ==
  /\ MayNotify
  /\ ~Chip16550
  /\ irq = << >>
  /\ irq' = <<reg["CR"]>>
  /\ UNCHANGED <<driver, reg, shadow, gpio, prog, tmp, asked, stray>>

pl011_notification_writes(receive) ==
  /\ irq # << >>
  /\ reg' = [reg EXCEPT !["CR"] = (irq[1] \ {CR_RXE}) \cup {CR_TXE} \cup (IF receive THEN {CR_RXE} ELSE {}),
                        !["IMSC"] = IF receive THEN {4, 6} ELSE {}]
  /\ irq' = << >>
  /\ UNCHANGED <<driver, shadow, gpio, prog, tmp, asked, stray>>

\* What clients call.
Calls ==
  \/ \E f \in Formats : rtuart_set_format(f)
  \/ \E b \in Baudrates : rtuart_set_baudrate(b)
  \/ rtuart_get_baudrate
  \/ \E c \in ControlSets, on \in BOOLEAN : rtuart_set_control(c, on)
  \/ \E hs \in Handshakes : rtuart_set_handshake(hs)
  \/ \E on \in BOOLEAN : rtuart_set_fifo_enable(on)
  \/ \E level \in Levels : rtuart_set_rxfifo_trigger_level(level)
  \/ rtuart_flush_fifo

\* What follows from the calls and from interrupts.
Accesses ==
  \/ register_access
  \/ irq_reads_data
  \/ \E receive \in BOOLEAN : pc16c550_update_notification(receive)
  \/ pl011_notification_reads
  \/ \E receive \in BOOLEAN : pl011_notification_writes(receive)

Next == Calls \/ Accesses

Spec == Init /\ [][Next]_vars

-----------------------------------------------------------------------------
(* Properties.                                                             *)

Quiet == prog = << >> /\ irq = << >>

\* The registers hold bit sets, the divisor latch octets, and no fifo reset
\* is ever remembered in a shadow (pc16c550_rmw_fcr: "do not remember RX&TX
\* FIFO Reset, otherwise we would accidentially reset FIFOS").
TypeOK ==
  /\ driver \in Drivers
  /\ reg \in [IF Chip16550 THEN Registers16550 ELSE RegistersPl011 -> SUBSET (0..15)]
  /\ Chip16550 => \A r \in Registers16550 : reg[r] \subseteq 0..7
  /\ shadow.fcr \subseteq {0, 6, 7}
  /\ shadow.mcr \subseteq 0..4
  /\ gpio \in {0, 1}
  /\ tmp \subseteq 0..15
  /\ Len(irq) <= 1
  /\ stray \in BOOLEAN

\* The line format the driver decodes is the one last set, whatever other
\* calls came in between; stick parity where set_format of the driver knows it.
FormatReadBack ==
  Quiet /\ (asked.format[2] \in {"1", "0"} => driver \in {"rtuart_pc16c550", "pc16x50"})
    => get_format = asked.format

\* The same for every parity the comment at set_format of uart_pc16c550
\* lists ("parity: 'n','e','o', '1', '0'").
EveryParityReadBack == Quiet => get_format = asked.format

\* The rate the divisor stands for is within one percent of the rate last set.
RateAsAsked ==
  Quiet /\ asked.rate # 0 =>
    /\ (IF Chip16550 THEN pc16x50_get_baudrate_divisor ELSE pl011_divisor) # 0
    /\ 100 * get_baudrate \in (99 * asked.rate)..(101 * asked.rate)

Ambiguous ==
  CASE driver = "rtuart_pc16c550" -> {"LOOP", "OUT2"} [] Chip16550 -> {"LOOP"} [] OTHER -> {}

\* The control lines the driver reads back are the ones set and not cleared
\* since, no call and no notification update disturbs them, flow control is
\* on exactly when it was asked for, and the gpio line follows RTS.
ControlReadBack ==
  Quiet =>
    /\ get_control \ Ambiguous = asked.controls \ Ambiguous
    /\ driver = "rtuart_pl011" =>
         (CR_HANDSHAKE \subseteq reg["CR"] <=> asked.handshake \in {"RTSCTS", "RTSCTS_DSRDTR"})
    /\ driver = "uart_pl011" /\ asked.lines => (gpio = 0 <=> "RTS" \in asked.controls)

\* rtuart.h on rtuart_get_control: "Gets the controls.", every one of them.
EveryControlReadBack == Quiet => (driver \in {"rtuart_pc16c550", "rtuart_pl011"} => get_control = asked.controls)

\* The fifo is on and its receive level set as last asked for: neither a
\* flush nor the other fifo call changes them.
FifoAsAsked ==
  Quiet =>
    /\ asked.fifo <=> (IF Chip16550 THEN FCR_FIFO_ENABLE \in reg["FCR"] ELSE LCRH_FEN \in reg["LCRH"])
    /\ rx_fifo_level = asked.level

\* No access of one thread falls into the divisor latch window of another:
\* "lock uart" stands at pc16c550_set_baudrate, but nothing is locked.
AccessHitsItsRegister == ~stray

\* The chip is as it was asked to be, whichever driver asked: format, rate,
\* controls and fifo read back, and no access was caught by the divisor latch.
ChipAsAsked ==
  /\ TypeOK
  /\ FormatReadBack
  /\ RateAsAsked
  /\ ControlReadBack
  /\ FifoAsAsked
  /\ AccessHitsItsRegister

=============================================================================
