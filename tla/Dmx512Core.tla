----------------------------- MODULE Dmx512Core -----------------------------
(***************************************************************************)
(* The kernel core of dmx4linux2 (drivers/dmx512/core/dmx512.c): the pool  *)
(* of frame entries, the device and port registry, and the file operations *)
(* of /dev/dmx-cardN.  A card driver adds its actions and the next-state   *)
(* relation: see Dmx512Dummy.                                              *)
(*                                                                         *)
(* A thread is a process with at most one open file; between two atomic    *)
(* steps of a thread any other thread and the driver may run.  A step is   *)
(* what the code does under one lock, or up to the next access to shared   *)
(* memory.  Memory is freed while pointers to it remain (an open file does *)
(* not pin the card driver: dmx->owner is the core module).  A step that   *)
(* follows a pointer into freed memory sets oops and ends the behaviour:   *)
(* nothing is claimed about what follows.                                  *)
(***************************************************************************)
EXTENDS FrameQueue

CONSTANTS
  PoolSize,   \* how many frame entries dmx512_core_init allocates (16)
  Threads,    \* processes using the device files
  PortsCount, \* ports_count, the number of ports of each card
  Data,       \* frame contents other than the port number
  NULL

Frames == 1..PoolSize \* the entries, in the order of their allocation

ASSUME PoolAssumption == PoolSize \in Nat
ASSUME PortsAssumption == PortsCount \in Nat \ {0}
ASSUME NullAssumption == NULL \notin Frames /\ NULL \notin [port : 0..PortsCount, data : Data]

Devices == {0, 1}
Messages == [port : 0..PortsCount, data : Data]

VARIABLES
  free_framequeue, \* the pool shared by all cards
  rxframequeue,    \* rxframequeue[d]: received frames nobody has read yet
  frame,           \* frame[e]: the struct dmx512frame in entry e
  device,          \* device[d]: life of the struct dmx512_device
  nports,          \* nports[d]: length of the device's list of ports
  dmx512_devices,  \* the devices linked into the global list
  generation,      \* counts the allocations of a pair of cards
  pc,              \* pc[t]: where thread t is in its file operation
  filp,            \* filp[t]: the device file t has open
  held,            \* held[t]: the entry in local variable e, or NULL
  arg,             \* arg[t]: the frame in the buffer passed to write
  oops             \* freed memory has been accessed

queues == << free_framequeue, rxframequeue, frame >>
registry == << device, nports, dmx512_devices, generation >>
threads == << pc, filp, held, arg >>

NoFile == [dev |-> 0, gen |-> 0]

PCs == {"closed", "open", "read_wait", "asleep", "read_get", "read_copy",
        "write_port", "write_putback", "send_frame", "rx_put", "rx_wake"}

\* dmx512_core_init puts one entry after the other into the pool.
dmx512_core_init ==
  /\ free_framequeue = [i \in 1..PoolSize |-> i]
  /\ rxframequeue = [d \in Devices |-> dmx512_framequeue_init]
  /\ frame = [e \in Frames |-> NULL]
  /\ device = [d \in Devices |-> "none"]
  /\ nports = [d \in Devices |-> 0]
  /\ dmx512_devices = {}
  /\ generation = 0
  /\ pc = [t \in Threads |-> "closed"]
  /\ filp = [t \in Threads |-> NoFile]
  /\ held = [t \in Threads |-> NULL]
  /\ arg = [t \in Threads |-> NULL]
  /\ oops = FALSE

Peer(d) == 1 - d

\* The struct dmx512_device behind t's file has been freed.
DeviceFreed(t) ==
  filp[t].gen # generation \/ device[filp[t].dev] = "deleted"

\* The ports of card d that t's file generation refers to have been freed.
PortsFreed(t, d) ==
  filp[t].gen # generation \/ device[d] # "registered"

\* The device list links a device that has been freed.
StaleList == \E d \in dmx512_devices : device[d] = "deleted"

Oops == oops' = TRUE /\ UNCHANGED << queues, registry, threads >>

\* Mutation: wake_up on the wait queue of the card the frame was written to.
woken_sender(d) ==
  [t \in Threads |->
     IF pc[t] = "asleep" /\ filp[t] = [dev |-> Peer(d), gen |-> generation]
     THEN "read_wait" ELSE pc[t]]

\* wake_up on the wait queue of card d: every sleeper tests again.
Woken(d) ==
  [t \in Threads |->
     IF pc[t] = "asleep" /\ filp[t] = [dev |-> d, gen |-> generation]
     THEN "read_wait" ELSE pc[t]]

-----------------------------------------------------------------------------
(* File operations.  poll and ioctl change nothing.                        *)

\* The minor exists from misc_register to misc_deregister.  try_module_get
\* counts a use of the core module and cannot fail while a card driver
\* that depends on the core is loaded.
dmx512_device_open(t) ==
  /\ pc[t] = "closed"
  /\ \E d \in Devices :
       /\ device[d] = "registered"
       /\ filp' = [filp EXCEPT ![t] = [dev |-> d, gen |-> generation]]
  /\ pc' = [pc EXCEPT ![t] = "open"]
  /\ UNCHANGED << queues, registry, held, arg, oops >>

dmx512_device_release(t) ==
  /\ pc[t] = "open"
  /\ \/ DeviceFreed(t) /\ Oops
     \/ /\ ~ DeviceFreed(t)
        /\ pc' = [pc EXCEPT ![t] = "closed"]
        /\ filp' = [filp EXCEPT ![t] = NoFile]
        /\ UNCHANGED << queues, registry, held, arg, oops >>

\* read, up to the first look at the queue.  A short buffer (-EINVAL) or an
\* empty queue with O_NONBLOCK (-EAGAIN) returns at once, changing nothing.
dmx512_device_read(t) ==
  /\ pc[t] = "open"
  /\ \/ DeviceFreed(t) /\ Oops
     \/ /\ ~ DeviceFreed(t)
        /\ pc' = [pc EXCEPT ![t] =
                    IF dmx512_framequeue_isempty(rxframequeue[filp[t].dev])
                    THEN "read_wait" ELSE "read_get"]
        /\ UNCHANGED << queues, registry, filp, held, arg, oops >>

\* Mutation: interruptible_sleep_on, which does not test the condition.
read_wait_untested(t) ==
  /\ pc[t] = "read_wait"
  /\ ~ DeviceFreed(t)
  /\ pc' = [pc EXCEPT ![t] = "asleep"]
  /\ UNCHANGED << queues, registry, filp, held, arg, oops >>

\* wait_event_interruptible: test the condition and sleep while it is false.
\* A wake_up after the test finds the task on the wait queue, so test and
\* sleep are one step.
read_wait(t) ==
  /\ pc[t] = "read_wait"
  /\ \/ DeviceFreed(t) /\ Oops
     \/ /\ ~ DeviceFreed(t)
        /\ pc' = [pc EXCEPT ![t] =
                    IF dmx512_framequeue_isempty(rxframequeue[filp[t].dev])
                    THEN "asleep" ELSE "read_get"]
        /\ UNCHANGED << queues, registry, filp, held, arg, oops >>

\* A signal ends the wait; its result is ignored and the read goes on.
read_signal(t) ==
  /\ pc[t] \in {"read_wait", "asleep"}
  /\ pc' = [pc EXCEPT ![t] = "read_get"]
  /\ UNCHANGED << queues, registry, filp, held, arg, oops >>

\* Another reader may have taken the frame: then read returns 0.
read_get(t) ==
  /\ pc[t] = "read_get"
  /\ \/ DeviceFreed(t) /\ Oops
     \/ /\ ~ DeviceFreed(t)
        /\ LET d == filp[t].dev
               q == rxframequeue[d]
           IN \/ /\ dmx512_framequeue_isempty(q)
                 /\ pc' = [pc EXCEPT ![t] = "open"]
                 /\ UNCHANGED << rxframequeue, held >>
              \/ /\ ~ dmx512_framequeue_isempty(q)
                 /\ held' = [held EXCEPT ![t] = dmx512_framequeue_front(q)]
                 /\ rxframequeue' =
                      [rxframequeue EXCEPT ![d] = dmx512_framequeue_get(q)]
                 /\ pc' = [pc EXCEPT ![t] = "read_copy"]
        /\ UNCHANGED << free_framequeue, frame, registry, filp, arg, oops >>

\* dmx512_framequeue_put(&free_framequeue, e) as the last step of a call.
PutFree(t) ==
  /\ free_framequeue' = dmx512_framequeue_put(free_framequeue, held[t])
  /\ held' = [held EXCEPT ![t] = NULL]
  /\ pc' = [pc EXCEPT ![t] = "open"]
  /\ UNCHANGED << rxframequeue, frame, registry, filp, oops >>

\* copy_to_user; the entry goes back to the pool whether it succeeds or not.
read_copy(t) ==
  /\ pc[t] = "read_copy"
  /\ PutFree(t)
  /\ UNCHANGED arg

\* write, up to the copy of the user's buffer into an entry of the pool.  An
\* empty pool returns -ENOMEM, changing nothing.  The copy fails for a short
\* or unreadable buffer.
dmx512_device_write(t) ==
  /\ pc[t] = "open"
  /\ ~ dmx512_framequeue_isempty(free_framequeue)
  /\ LET e == dmx512_framequeue_front(free_framequeue) IN
       /\ held' = [held EXCEPT ![t] = e]
       /\ free_framequeue' = dmx512_framequeue_get(free_framequeue)
       /\ \/ \E m \in Messages :
               /\ frame' = [frame EXCEPT ![e] = m]
               /\ arg' = [arg EXCEPT ![t] = m]
               /\ pc' = [pc EXCEPT ![t] = "write_port"]
          \/ /\ pc' = [pc EXCEPT ![t] = "write_putback"]
             /\ UNCHANGED << frame, arg >>
  /\ UNCHANGED << rxframequeue, registry, filp, oops >>

\* dmx512_port_by_index(dmx, index) finds a port.
dmx512_port_by_index(d, index) == index < nports[d]

\* The drivers in the tree leave transmitter_has_space 0: a port that exists
\* gets the frame.
write_port(t) ==
  /\ pc[t] = "write_port"
  /\ \/ DeviceFreed(t) /\ Oops
     \/ /\ ~ DeviceFreed(t)
        /\ \/ /\ dmx512_port_by_index(filp[t].dev, frame[held[t]].port)
              /\ pc' = [pc EXCEPT ![t] = "send_frame"]
              /\ UNCHANGED arg
           \/ /\ ~ dmx512_port_by_index(filp[t].dev, frame[held[t]].port)
              /\ pc' = [pc EXCEPT ![t] = "write_putback"]
              /\ arg' = [arg EXCEPT ![t] = NULL]
        /\ UNCHANGED << queues, registry, filp, held, oops >>

\* Mutation: -EINVAL is returned without putting the entry back.
write_putback_leak(t) ==
  /\ pc[t] = "write_putback"
  /\ held' = [held EXCEPT ![t] = NULL]
  /\ pc' = [pc EXCEPT ![t] = "open"]
  /\ UNCHANGED << queues, registry, filp, arg, oops >>

\* -EINVAL: the entry goes back to the pool.
write_putback(t) ==
  /\ pc[t] = "write_putback"
  /\ PutFree(t)
  /\ UNCHANGED arg

-----------------------------------------------------------------------------
(* dmx512_received_frame(port, frame), called by a card driver in thread t *)
(* for a port of card d: three accesses to the port, with other threads    *)
(* running in between.                                                     *)

dmx512_received_frame(t, d, index) ==
  /\ frame' = [frame EXCEPT ![held[t]].port = index]
  /\ pc' = [pc EXCEPT ![t] = "rx_put"]
  /\ UNCHANGED << free_framequeue, rxframequeue, registry, filp, held, arg,
                  oops >>

received_frame_put(t, d) ==
  /\ pc[t] = "rx_put"
  /\ \/ PortsFreed(t, d) /\ Oops
     \/ /\ ~ PortsFreed(t, d)
        /\ rxframequeue' =
             [rxframequeue EXCEPT ![d] = dmx512_framequeue_put(@, held[t])]
        /\ held' = [held EXCEPT ![t] = NULL]
        /\ arg' = [arg EXCEPT ![t] = NULL]
        /\ pc' = [pc EXCEPT ![t] = "rx_wake"]
        /\ UNCHANGED << free_framequeue, frame, registry, filp, oops >>

received_frame_wake(t, d) ==
  /\ pc[t] = "rx_wake"
  /\ \/ PortsFreed(t, d) /\ Oops
     \/ /\ ~ PortsFreed(t, d)
        /\ pc' = [Woken(d) EXCEPT ![t] = "open"]
        /\ UNCHANGED << queues, registry, filp, held, arg, oops >>

-----------------------------------------------------------------------------
(* The registry, called by a card driver when it is loaded and unloaded.   *)
(* Each operation runs under dmx512_lock.                                  *)

\* dmx512_create_device and register_dmx512_device: the file exists from here
\* on, with an empty list of ports.
register_dmx512_device(d, gen) ==
  \/ StaleList /\ Oops
  \/ /\ ~ StaleList
     /\ device' = [device EXCEPT ![d] = "registered"]
     /\ nports' = [nports EXCEPT ![d] = 0]
     /\ rxframequeue' = [rxframequeue EXCEPT ![d] = dmx512_framequeue_init]
     /\ dmx512_devices' = dmx512_devices \union {d}
     /\ generation' = gen
     /\ UNCHANGED << free_framequeue, frame, threads, oops >>

\* misc_register fails: the caller frees the device, which stays linked into
\* dmx512_devices.
register_dmx512_device_fails(d, gen) ==
  /\ ~ StaleList
  /\ device' = [device EXCEPT ![d] = "deleted"]
  /\ dmx512_devices' = dmx512_devices \union {d}
  /\ generation' = gen
  /\ UNCHANGED << queues, nports, threads, oops >>

dmx512_add_port(d) ==
  /\ nports' = [nports EXCEPT ![d] = @ + 1]
  /\ UNCHANGED << queues, device, dmx512_devices, generation, threads, oops >>

\* unregister_dmx512_device wakes the readers first.
unregister_wake(d) ==
  /\ pc' = Woken(d)
  /\ UNCHANGED << queues, registry, filp, held, arg, oops >>

\* Then it removes the file, frees the ports, unlinks the device and frees the
\* unread entries: those never return to the pool.
unregister_dmx512_device(d) ==
  \/ StaleList /\ Oops
  \/ /\ ~ StaleList
     /\ device' = [device EXCEPT ![d] = "unregistered"]
     /\ nports' = [nports EXCEPT ![d] = 0]
     /\ dmx512_devices' = dmx512_devices \ {d}
     /\ rxframequeue' =
          [rxframequeue EXCEPT ![d] = dmx512_framequeue_cleanup(@)]
     /\ UNCHANGED << free_framequeue, frame, generation, threads, oops >>

\* kfree(device): what is left in its queue is lost with it.
dmx512_delete_device(d) ==
  /\ device' = [device EXCEPT ![d] = "deleted"]
  /\ rxframequeue' = [rxframequeue EXCEPT ![d] = << >>]
  /\ UNCHANGED << free_framequeue, frame, nports, dmx512_devices, generation,
                  threads, oops >>

\* One step of a file operation in thread t, up to the driver's send_frame.
FileOperation(t) ==
  \/ dmx512_device_open(t)
  \/ dmx512_device_release(t)
  \/ dmx512_device_read(t)
  \/ read_wait(t)
  \/ read_signal(t)
  \/ read_get(t)
  \/ read_copy(t)
  \/ dmx512_device_write(t)
  \/ write_port(t)
  \/ write_putback(t)
=============================================================================
