-------------------------- MODULE MCHardwareModel --------------------------
EXTENDS HardwareModel

CONSTANTS Creator, Handler

MCThreads == {Creator, Handler}

MCPrograms ==
  [t \in MCThreads |->
     IF t = Creator THEN {suart_pc16x50_create, suart_pc16x50_create \o suart_pc16x50_delete}
     ELSE {suart_handler_pc16x50(overrun) : overrun \in BOOLEAN}]
=============================================================================
