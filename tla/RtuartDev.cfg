SPECIFICATION DevSpec
CONSTANTS
  Drivers = {"uart_pc16c550", "uart_pl011", "rtuart_pc16c550", "rtuart_pl011", "pc16x50"}
  Formats <- MCFormats
  Baudrates <- MCDmxRates
  ControlSets <- MCControls
  Levels = {8, 14}
  Handshakes = {"OFF", "RTSCTS"}
  Clock16550 = 100000000
  ClockPl011 = 48000000
  Concurrent = FALSE
  Commands = {"S_FMT", "S_BAUDRATE", "S_CONTROL", "C_CONTROL", "S_NOTIFY", "C_NOTIFY", "G_FMT", "G_BAUDRATE", "G_CONTROL", "G_NOTIFY", "TX_ENABLE"}
  Entries = 2
INVARIANTS  ClientsServed EventsInOrder
