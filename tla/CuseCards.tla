------------------------------ MODULE CuseCards ------------------------------
(***************************************************************************)
(* The CUSE core with its card drivers.  The loop driver                   *)
(* (cuse-drivers/dmx512_cuse_loop_device.c) has two cards, and a frame     *)
(* written to one is received by the other; both other_card pointers are   *)
(* set (testdmx_init) before the first request.  The drivers of real lines *)
(* (dmx512_cuse_llgip.c, dmx512_cuse_uart.c, dmx512_cuse_pwm.c: see        *)
(* CuseBoards) put the frame on the line and leave the files alone; a      *)
(* receiver (llgip) hands the core the frames its interrupt callback       *)
(* finds, without the transmit flag.                                       *)
(***************************************************************************)
EXTENDS CuseDev

\* The loop driver gives the frame to the other card as it is, transmit flag
\* included.
testdmx_sendFrame(c, m) == Job(1 - c, m)

\* dmx512_cuse_write marks the frame as transmitted, lets the driver send it
\* and then shows it to the files of its own card.
dmx512_cuse_write ==
  /\ Idle
  /\ \E h \in setup.files,
        m \in [port : Ports, tx : {TRUE}, data : setup.data] :
       /\ in_use[h]
       /\ \/ /\ setup.driver = "loop"
             /\ jobs' = << testdmx_sendFrame(h[1], m), Job(h[1], m) >>
          \/ /\ setup.driver = "wire"
             /\ jobs' = << Job(h[1], m) >>
  /\ UNCHANGED << pool, context, client, setup, server, destroyed >>

\* The callback of a watched file descriptor, run by the session loop after
\* the requests.
fdwatcher_callback ==
  /\ Idle
  /\ setup.driver = "wire"
  /\ \E c \in {h[1] : h \in setup.files},
        m \in [port : Ports, tx : {FALSE}, data : setup.data] :
       jobs' = << Job(c, m) >>
  /\ UNCHANGED << pool, context, client, setup, server, destroyed >>

Next == Core \/ dmx512_cuse_write \/ fdwatcher_callback

Spec == Init /\ [][Next]_vars

-----------------------------------------------------------------------------
(* Properties                                                              *)

\* README.md: "Frames send via port0 on one card are received on port0 of the
\* other card": the frame answers a read that waits on the other card with
\* that port in its receive filter.  (The first of two jobs is the delivery to
\* the other card.)
ReceivedOnOtherCard ==
  [][\A h \in Handles :
       (/\ Len(jobs) = 2
        /\ h = << Head(jobs).card, Head(jobs).index >>
        /\ in_use[h]
        /\ LiveRead(h) # NULL
        /\ Head(jobs).msg.port \in port_mask[h])
       => (jobs' # jobs => read_req'[h] = NULL)]_vars
=============================================================================
