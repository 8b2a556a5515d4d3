----------------------------- MODULE Dmx512Dummy -----------------------------
(***************************************************************************)
(* The dummy card driver (drivers/dmx512/boards/dmx512_dummy.c) on top of  *)
(* the kernel core: two cards whose ports are connected crosswise through  *)
(* their userptr.  The module's init and exit functions run concurrently   *)
(* with the users of the device files: the files of a card exist before    *)
(* its ports do, and the ports before they are connected.                  *)
(***************************************************************************)
EXTENDS Dmx512Core

CONSTANT MaxLoads \* bound: how often the driver is loaded

ASSUME MaxLoadsAssumption == MaxLoads \in Nat

VARIABLES
  driver,   \* where the driver module is in its init or exit function
  connected \* how many dmx512_port_set_userptr calls have been made

dummy == << driver, connected >>
vars == << queues, registry, threads, oops, dummy >>

DriverStates == {"unloaded", "card0", "card1", "abort", "abort0", "connect",
                 "loaded", "exit0", "unregistered0", "exit1", "delete0",
                 "delete1", "core_removed"}

\* The loop over the ports connects port i of card 0, then port i of card 1.
IsConnected(d, i) == 2 * i + d < connected

\* A port's userptr is the port of the other card with the same index.  A
\* port without one swallows the entry: send_frame still returns 0 and write
\* reports success.
dmx512_dummy_send_frame(t) ==
  /\ pc[t] = "send_frame"
  /\ LET d == filp[t].dev
         i == frame[held[t]].port
     IN \/ PortsFreed(t, d) /\ Oops
        \/ /\ ~ PortsFreed(t, d)
           /\ ~ IsConnected(d, i)
           /\ held' = [held EXCEPT ![t] = NULL]
           /\ arg' = [arg EXCEPT ![t] = NULL]
           /\ pc' = [pc EXCEPT ![t] = "open"]
           /\ UNCHANGED << queues, registry, filp, oops >>
        \/ /\ ~ PortsFreed(t, d)
           /\ IsConnected(d, i)
           /\ \/ PortsFreed(t, Peer(d)) /\ Oops
              \/ /\ ~ PortsFreed(t, Peer(d))
                 /\ dmx512_received_frame(t, Peer(d), i)
  /\ UNCHANGED dummy

Thread(t) ==
  \/ FileOperation(t) /\ UNCHANGED dummy
  \/ dmx512_dummy_send_frame(t)
  \/ received_frame_put(t, Peer(filp[t].dev)) /\ UNCHANGED dummy
  \/ received_frame_wake(t, Peer(filp[t].dev)) /\ UNCHANGED dummy

-----------------------------------------------------------------------------
(* dmx512_dummy_driver_init and dmx512_dummy_driver_exit.                  *)

create_card0 ==
  /\ driver = "unloaded"
  /\ generation < MaxLoads
  /\ connected' = 0
  /\ \/ register_dmx512_device(0, generation + 1) /\ driver' = "card0"
     \/ register_dmx512_device_fails(0, generation + 1) /\ UNCHANGED driver

create_port(d) ==
  /\ driver = IF d = 0 THEN "card0" ELSE "card1"
  /\ nports[d] < PortsCount
  /\ dmx512_add_port(d)
  /\ UNCHANGED dummy

create_card1 ==
  /\ driver = "card0"
  /\ nports[0] = PortsCount
  /\ UNCHANGED connected
  /\ \/ register_dmx512_device(1, generation) /\ driver' = "card1"
     \/ register_dmx512_device_fails(1, generation) /\ driver' = "abort"

\* The error path: unlinking card 0 writes into the freed card 1 that the
\* failed registration left in the list.
init_abort ==
  /\ UNCHANGED connected
  /\ \/ /\ driver = "abort"
        /\ unregister_wake(0)
        /\ driver' = "abort0"
     \/ /\ driver = "abort0"
        /\ StaleList
        /\ Oops
        /\ UNCHANGED driver

connect_ports ==
  /\ \/ driver = "connect"
     \/ driver = "card1" /\ nports[1] = PortsCount
  /\ connected' = connected + 1
  /\ driver' = IF connected' = 2 * PortsCount THEN "loaded" ELSE "connect"
  /\ UNCHANGED << queues, registry, threads, oops >>

\* An open file does not keep the driver from being unloaded.
dmx512_dummy_driver_exit ==
  /\ UNCHANGED connected
  /\ \/ /\ driver = "loaded"
        /\ unregister_wake(0)
        /\ driver' = "exit0"
     \/ /\ driver = "exit0"
        /\ unregister_dmx512_device(0)
        /\ driver' = "unregistered0"
     \/ /\ driver = "unregistered0"
        /\ unregister_wake(1)
        /\ driver' = "exit1"
     \/ /\ driver = "exit1"
        /\ unregister_dmx512_device(1)
        /\ driver' = "delete0"
     \/ /\ driver = "delete0"
        /\ dmx512_delete_device(0)
        /\ driver' = "delete1"
     \/ /\ driver = "delete1"
        /\ dmx512_delete_device(1)
        /\ driver' = "unloaded"

\* The core module can go once no driver needs it and no file counts a use.
dmx512_core_exit ==
  /\ driver = "unloaded"
  /\ \A t \in Threads : pc[t] = "closed"
  /\ free_framequeue' = dmx512_framequeue_cleanup(free_framequeue)
  /\ driver' = "core_removed"
  /\ UNCHANGED << rxframequeue, frame, registry, threads, oops, connected >>

Driver ==
  \/ create_card0
  \/ \E d \in Devices : create_port(d)
  \/ create_card1
  \/ init_abort
  \/ connect_ports
  \/ dmx512_dummy_driver_exit
  \/ dmx512_core_exit

Init ==
  /\ dmx512_core_init
  /\ driver = "unloaded"
  /\ connected = 0

Next ==
  /\ ~ oops
  /\ \/ \E t \in Threads : Thread(t)
     \/ Driver

Spec == Init /\ [][Next]_vars

\* The kernel schedules every thread that is neither asleep nor outside the
\* driver; nothing makes a process start a call or send a signal.
Running(t) ==
  \/ read_wait(t) \/ read_get(t) \/ read_copy(t)
  \/ write_port(t) \/ write_putback(t)

FairThread(t) ==
  /\ ~ oops
  /\ \/ Running(t) /\ UNCHANGED dummy
     \/ dmx512_dummy_send_frame(t)
     \/ received_frame_put(t, Peer(filp[t].dev)) /\ UNCHANGED dummy
     \/ received_frame_wake(t, Peer(filp[t].dev)) /\ UNCHANGED dummy

FairSpec == Spec /\ \A t \in Threads : WF_vars(FairThread(t))

-----------------------------------------------------------------------------
(* Properties                                                              *)

FileRefs == [dev : Devices, gen : Nat]

\* Every variable has its type.  A thread holds an entry exactly between
\* unlinking it from one list and linking it into another.
TypeOK ==
  /\ free_framequeue \in Seq(Frames)
  /\ rxframequeue \in [Devices -> Seq(Frames)]
  /\ frame \in [Frames -> Messages \union {NULL}]
  /\ device \in [Devices -> {"none", "registered", "unregistered", "deleted"}]
  /\ nports \in [Devices -> 0..PortsCount]
  /\ dmx512_devices \in SUBSET Devices
  /\ generation \in Nat
  /\ pc \in [Threads -> PCs]
  /\ filp \in [Threads -> FileRefs]
  /\ held \in [Threads -> Frames \union {NULL}]
  /\ arg \in [Threads -> Messages \union {NULL}]
  /\ oops \in BOOLEAN
  /\ driver \in DriverStates
  /\ connected \in Nat
  /\ \A t \in Threads :
       held[t] # NULL <=> pc[t] \in {"read_copy", "write_port",
                                     "write_putback", "send_frame", "rx_put"}

\* The list pointers of an entry are used for one list at a time: an entry is
\* in the pool, in the queue of one card or in the hands of one thread, and
\* nowhere twice, however the steps of readers, writers, init and exit
\* interleave (dmx512_framequeue_put never checks).
FrameOwnership ==
  /\ NoDuplicates(free_framequeue)
  /\ \A d \in Devices :
       /\ NoDuplicates(rxframequeue[d])
       /\ Entries(rxframequeue[d]) \intersect Entries(free_framequeue) = {}
  /\ Entries(rxframequeue[0]) \intersect Entries(rxframequeue[1]) = {}
  /\ \A t \in Threads : held[t] # NULL =>
       /\ held[t] \notin Entries(free_framequeue)
       /\ \A d \in Devices : held[t] \notin Entries(rxframequeue[d])
       /\ \A u \in Threads : held[u] = held[t] => u = t

\* No wakeup is lost: a reader sleeps on a card with unread frames only while
\* some writer that queued a frame has its wake_up still to do.
NoLostWakeup ==
  \A t \in Threads :
    (pc[t] = "asleep" /\ ~ DeviceFreed(t)
       /\ ~ dmx512_framequeue_isempty(rxframequeue[filp[t].dev]))
    => \E u \in Threads :
         /\ pc[u] = "rx_wake"
         /\ filp[u] = [dev |-> Peer(filp[t].dev), gen |-> filp[t].gen]

\* The entries that can still carry a frame.
InCirculation ==
  Entries(free_framequeue)
    \union (UNION {Entries(rxframequeue[d]) : d \in Devices})
    \union ({held[t] : t \in Threads} \ {NULL})

\* Once the ports are connected no call loses an entry, whichever way it
\* returns: the pool is shared by all cards and never refilled.
NoLeakWhileLoaded ==
  [][driver = "loaded" /\ driver' = "loaded"
     => InCirculation' = InCirculation]_vars

\* The header of dmx512_dummy.c: "All frames send to one port of first device
\* are received on the corresponding port of the other device": a frame that
\* send_frame accepted reaches the receive queue of the other card.
AllFramesReceived ==
  [][\A t \in Threads :
       pc[t] = "send_frame" => pc'[t] \in {"send_frame", "rx_put"}]_vars

\* A sleeping reader is woken when there is something to read.
ReaderWoken ==
  \A t \in Threads :
    (pc[t] = "asleep" /\ ~ DeviceFreed(t)
       /\ ~ dmx512_framequeue_isempty(rxframequeue[filp[t].dev]))
    ~> (pc[t] # "asleep" \/ oops)

\* The refinement mapping.  A writer has a frame on its way from write's
\* copy_from_user until it is refused, lost in an unconnected port, or queued
\* on the other card; a reader has one from the queue to copy_to_user.
LinkChan == [d \in Devices |-> Contents(frame, rxframequeue[d])]

LinkOut ==
  [t \in Threads |-> IF arg[t] = NULL THEN {}
                     ELSE {[card |-> filp[t].dev, msg |-> arg[t]]}]

LinkIn ==
  [t \in Threads |-> IF pc[t] = "read_copy" THEN frame[held[t]] ELSE NULL]

Link ==
  INSTANCE DmxLink
    WITH None <- NULL, chan <- LinkChan, out <- LinkOut, in <- LinkIn

\* The two cards are the two FIFO channels of DmxLink: what a reader copies to
\* user space is what one writer passed to write on the other card, with the
\* same port number, once and in the order of the queue.  The contents of an
\* entry do not change while it is queued or held by a reader.
ImplementsLink == Link!Spec
=============================================================================
