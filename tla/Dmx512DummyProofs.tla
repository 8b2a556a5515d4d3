-------------------------- MODULE Dmx512DummyProofs --------------------------
(***************************************************************************)
(* Proofs about the kernel core with the dummy driver, for any number of   *)
(* entries, threads, ports and contents.                                   *)
(***************************************************************************)
EXTENDS Dmx512Dummy, FrameQueueProofs

\* Between copy_from_user and the receive queue an entry carries the frame
\* that was passed to write, on a port that exists once it was looked up.
WrittenFrame ==
  \A t \in Threads :
    /\ pc[t] \in {"write_port", "send_frame", "rx_put"} <=> arg[t] # NULL
    /\ arg[t] # NULL => frame[held[t]] = arg[t]
    /\ pc[t] \in {"send_frame", "rx_put"} => arg[t].port < PortsCount

\* No file belongs to a load of the driver that is still to come.
FileGenerations ==
  \A t \in Threads : filp[t].gen <= generation

TypeInv == TypeOK /\ WrittenFrame

\* The core starts with every entry in the pool and no thread in a call.
LEMMA InitType == Init => TypeInv
<1> SUFFICES ASSUME Init PROVE TypeInv
  BY Zenon
<1>1. free_framequeue \in Seq(Frames)
  <2>1. free_framequeue \in [1..PoolSize -> Frames]
    BY Zenon DEF Init, dmx512_core_init, Frames
  <2> QED BY <2>1, PoolAssumption
<1>2. rxframequeue \in [Devices -> Seq(Frames)]
  BY EmptyEntries, Zenon DEF Init, dmx512_core_init, dmx512_framequeue_init
<1>3. oops \in BOOLEAN
  BY Zenon DEF Init, dmx512_core_init
<1>4. /\ frame \in [Frames -> Messages \union {NULL}]
      /\ arg \in [Threads -> Messages \union {NULL}]
      /\ held \in [Threads -> Frames \union {NULL}]
      /\ device \in [Devices -> {"none", "registered", "unregistered", "deleted"}]
  BY Zenon DEF Init, dmx512_core_init
<1>5. nports \in [Devices -> 0..PortsCount]
  BY PortsAssumption DEF Init, dmx512_core_init
<1>6. filp \in [Threads -> FileRefs]
  BY Zenon DEF Init, dmx512_core_init, NoFile, FileRefs, Devices
<1>7. pc \in [Threads -> PCs]
  BY Zenon DEF Init, dmx512_core_init, PCs
<1>8. TypeOK
  BY <1>1, <1>2, <1>3, <1>4, <1>5, <1>6, <1>7, Zenon
     DEF Init, dmx512_core_init, TypeOK, DriverStates
<1>9. WrittenFrame
  BY Zenon DEF Init, dmx512_core_init, WrittenFrame
<1> QED BY <1>8, <1>9, Zenon DEF TypeInv

\* A step that follows a pointer into freed memory changes nothing else.
LEMMA OopsType ==
  ASSUME TypeInv, Oops, driver' \in DriverStates, connected' \in Nat
  PROVE  TypeInv'
<1>1. oops' \in BOOLEAN
  BY Zenon DEF Oops
<1>2. TypeOK'
  BY <1>1, Zenon DEF TypeInv, TypeOK, Oops, queues, registry, threads
<1>3. WrittenFrame'
  BY Zenon DEF TypeInv, WrittenFrame, Oops, queues, registry, threads
<1> QED BY <1>2, <1>3, Zenon DEF TypeInv

\* Every step of a thread that leaves the lists and the registry alone, with
\* a new program counter for it.
LEMMA ReadType ==
  ASSUME TypeInv, UNCHANGED dummy, NEW t \in Threads,
         \/ dmx512_device_open(t) \/ dmx512_device_release(t)
         \/ dmx512_device_read(t) \/ read_wait(t) \/ read_signal(t)
  PROVE  TypeInv'
<1>1. CASE Oops
  BY <1>1, OopsType, Zenon DEF dummy, TypeInv, TypeOK
<1>2. CASE ~ Oops
  <2> USE DEF dmx512_device_open, dmx512_device_release, dmx512_device_read,
              read_wait, read_signal
  <2>1. UNCHANGED << queues, registry, held, arg, oops >>
    BY <1>2, Zenon
  <2>5. pc[t] \in {"closed", "open", "read_wait", "asleep"}
    BY Zenon
  <2>6. \E x \in {"closed", "open", "read_wait", "asleep", "read_get"} :
          pc' = [pc EXCEPT ![t] = x]
    BY <1>2, Zenon
  <2>2. filp' \in [Threads -> FileRefs]
    <3>1. \/ filp' = filp
          \/ filp' = [filp EXCEPT ![t] = NoFile]
          \/ \E d \in Devices : filp' = [filp EXCEPT ![t] = [dev |-> d, gen |-> generation]]
      BY <1>2, Zenon
    <3>2. filp \in [Threads -> FileRefs] /\ generation \in Nat
      BY Zenon DEF TypeInv, TypeOK
    <3>3. NoFile \in FileRefs /\ \A d \in Devices : [dev |-> d, gen |-> generation] \in FileRefs
      BY <3>2, Zenon DEF NoFile, FileRefs, Devices
    <3> QED BY <3>1, <3>2, <3>3, Zenon
  <2>3. TypeOK'
    BY <2>1, <2>2, <2>5, <2>6 DEF TypeInv, TypeOK, queues, registry, dummy, PCs
  <2>4. WrittenFrame'
    BY <2>1, <2>5, <2>6, Zenon DEF TypeInv, TypeOK, WrittenFrame, queues, registry
  <2> QED BY <2>3, <2>4, Zenon DEF TypeInv
<1> QED BY <1>1, <1>2, Zenon

-----------------------------------------------------------------------------
(* The inductive invariant: types, the frames in the writers' hands, and   *)
(* the ownership of the entries.  Ownership is needed for the second: a    *)
(* write fills an entry of the pool, which no other thread holds.          *)

OwnInv == TypeInv /\ FrameOwnership

\* Ownership depends on the lists and the threads' entries only.
LEMMA OwnershipStable ==
  ASSUME FrameOwnership, UNCHANGED << free_framequeue, rxframequeue, held >>
  PROVE  FrameOwnership'
BY Zenon DEF FrameOwnership

\* read_get moves the first entry of the card's queue to the thread.
LEMMA ReadGetOwn ==
  ASSUME OwnInv, UNCHANGED dummy, NEW t \in Threads, read_get(t)
  PROVE  OwnInv'
<1>1. CASE Oops
  BY <1>1, OopsType, OwnershipStable, Zenon
     DEF OwnInv, TypeInv, TypeOK, dummy, Oops, queues, threads
<1>2. CASE /\ ~ Oops
           /\ dmx512_framequeue_isempty(rxframequeue[filp[t].dev])
  <2>1. /\ UNCHANGED << free_framequeue, rxframequeue, frame, held, registry,
                         filp, arg, oops >>
        /\ pc' = [pc EXCEPT ![t] = "open"]
        /\ pc[t] = "read_get"
    BY <1>2, Zenon DEF read_get
  <2>2. TypeInv'
    BY <2>1, Zenon DEF OwnInv, TypeInv, TypeOK, WrittenFrame, registry, dummy, PCs
  <2> QED BY <2>1, <2>2, OwnershipStable, Zenon DEF OwnInv
<1>3. CASE /\ ~ Oops
           /\ ~ dmx512_framequeue_isempty(rxframequeue[filp[t].dev])
  <2> DEFINE d == filp[t].dev
             q == rxframequeue[d]
             e == dmx512_framequeue_front(q)
             r == dmx512_framequeue_get(q)
  <2>1. /\ UNCHANGED << free_framequeue, frame, registry, filp, arg, oops >>
        /\ held' = [held EXCEPT ![t] = e]
        /\ rxframequeue' = [rxframequeue EXCEPT ![d] = r]
        /\ pc' = [pc EXCEPT ![t] = "read_copy"]
        /\ pc[t] = "read_get"
    BY <1>3, Zenon DEF read_get
  <2>2. d \in Devices /\ q \in Seq(Frames)
    BY Zenon DEF OwnInv, TypeInv, TypeOK, FileRefs
  <2>3. e \in Frames /\ r \in Seq(Frames) /\ Entries(q) = Entries(r) \union {e}
    BY <1>3, <2>2, GetEntries, Zenon
  <2>4. NoDuplicates(q)
    BY <2>2, Zenon DEF OwnInv, FrameOwnership
  <2>5. NoDuplicates(r) /\ e \notin Entries(r)
    BY <1>3, <2>2, <2>4, GetNoDuplicates, Zenon
  <2> HIDE DEF d, q, e, r
  <2>6. TypeOK'
    BY <2>1, <2>2, <2>3, NullAssumption, Zenon
       DEF OwnInv, TypeInv, TypeOK, registry, dummy, PCs
  <2>7. WrittenFrame'
    BY <2>1, <2>3, Zenon DEF OwnInv, TypeInv, TypeOK, WrittenFrame
  <2>8. FrameOwnership'
    BY <2>1, <2>2, <2>3, <2>5, Zenon DEF q, OwnInv, FrameOwnership, Devices, TypeInv, TypeOK
  <2> QED BY <2>6, <2>7, <2>8, Zenon DEF OwnInv, TypeInv
<1> QED BY <1>1, <1>2, <1>3, Zenon

\* The last step of a read, or of a write that failed: the entry goes from
\* the thread to the end of the pool.
LEMMA PutFreeOwn ==
  ASSUME OwnInv, UNCHANGED dummy, NEW t \in Threads,
         read_copy(t) \/ write_putback(t)
  PROVE  OwnInv'
<1> DEFINE e == held[t]
           p == dmx512_framequeue_put(free_framequeue, e)
<1>1. /\ UNCHANGED << rxframequeue, frame, registry, filp, arg, oops >>
      /\ free_framequeue' = p
      /\ held' = [held EXCEPT ![t] = NULL]
      /\ pc' = [pc EXCEPT ![t] = "open"]
      /\ pc[t] \in {"read_copy", "write_putback"}
  BY Zenon DEF read_copy, write_putback, PutFree
<1>2. e \in Frames /\ e # NULL /\ free_framequeue \in Seq(Frames)
  BY <1>1, Zenon DEF OwnInv, TypeInv, TypeOK
<1>3. NoDuplicates(free_framequeue) /\ e \notin Entries(free_framequeue)
  BY <1>2, Zenon DEF OwnInv, FrameOwnership
<1>4. p \in Seq(Frames) /\ Entries(p) = Entries(free_framequeue) \union {e}
  BY <1>2, PutEntries
<1>5. NoDuplicates(p)
  BY <1>2, <1>3, PutNoDuplicates, Zenon
<1> HIDE DEF p
<1>6. TypeOK'
  BY <1>1, <1>4, NullAssumption, Zenon DEF OwnInv, TypeInv, TypeOK, registry, dummy, PCs
<1>7. WrittenFrame'
  BY <1>1, Zenon DEF OwnInv, TypeInv, TypeOK, WrittenFrame
<1>8. FrameOwnership'
  BY <1>1, <1>2, <1>4, <1>5 DEF OwnInv, FrameOwnership, Devices, TypeInv, TypeOK
<1> QED BY <1>6, <1>7, <1>8, Zenon DEF OwnInv, TypeInv

\* write takes the first entry of the pool and fills it.
LEMMA WriteOwn ==
  ASSUME OwnInv, UNCHANGED dummy, NEW t \in Threads, dmx512_device_write(t)
  PROVE  OwnInv'
<1> DEFINE e == dmx512_framequeue_front(free_framequeue)
           r == dmx512_framequeue_get(free_framequeue)
<1>1. /\ UNCHANGED << rxframequeue, registry, filp, oops >>
      /\ free_framequeue' = r
      /\ held' = [held EXCEPT ![t] = e]
      /\ pc[t] = "open"
      /\ ~ dmx512_framequeue_isempty(free_framequeue)
  BY Zenon DEF dmx512_device_write
<1>2. \/ \E m \in Messages :
           /\ frame' = [frame EXCEPT ![e] = m]
           /\ arg' = [arg EXCEPT ![t] = m]
           /\ pc' = [pc EXCEPT ![t] = "write_port"]
      \/ /\ pc' = [pc EXCEPT ![t] = "write_putback"]
         /\ UNCHANGED << frame, arg >>
  BY Zenon DEF dmx512_device_write
<1>3. free_framequeue \in Seq(Frames) /\ NoDuplicates(free_framequeue)
  BY Zenon DEF OwnInv, TypeInv, TypeOK, FrameOwnership
<1>4. /\ e \in Frames /\ r \in Seq(Frames)
      /\ Entries(free_framequeue) = Entries(r) \union {e}
  BY <1>1, <1>3, GetEntries, Zenon
<1>5. NoDuplicates(r) /\ e \notin Entries(r)
  BY <1>1, <1>3, GetNoDuplicates, Zenon
<1>6. held[t] = NULL /\ e # NULL
  BY <1>1, <1>4, NullAssumption, Zenon DEF OwnInv, TypeInv, TypeOK
<1>7. \A u \in Threads : held[u] # e
  BY <1>4, <1>6, Zenon DEF OwnInv, FrameOwnership
<1> HIDE DEF e, r
<1>8. TypeOK'
  <2>1. frame' \in [Frames -> Messages \union {NULL}]
    BY <1>2, Zenon DEF OwnInv, TypeInv, TypeOK
  <2>2. arg' \in [Threads -> Messages \union {NULL}]
    BY <1>2, Zenon DEF OwnInv, TypeInv, TypeOK
  <2>3. \E x \in {"write_port", "write_putback"} : pc' = [pc EXCEPT ![t] = x]
    BY <1>2, Zenon
  <2> QED BY <2>1, <2>2, <2>3, <1>1, <1>4, <1>6
          DEF OwnInv, TypeInv, TypeOK, registry, dummy, PCs
<1>9. WrittenFrame'
  <2>1. CASE UNCHANGED << frame, arg >>
    BY <2>1, <1>1, <1>2, <1>6, NullAssumption
       DEF OwnInv, TypeInv, TypeOK, WrittenFrame, Messages
  <2>2. CASE \E m \in Messages :
               /\ frame' = [frame EXCEPT ![e] = m]
               /\ arg' = [arg EXCEPT ![t] = m]
               /\ pc' = [pc EXCEPT ![t] = "write_port"]
    <3>1. PICK m \in Messages :
               /\ frame' = [frame EXCEPT ![e] = m]
               /\ arg' = [arg EXCEPT ![t] = m]
               /\ pc' = [pc EXCEPT ![t] = "write_port"]
      BY <2>2, Zenon
    <3>2. m # NULL
      BY NullAssumption, Zenon DEF Messages
    <3>3. frame'[e] = m /\ \A u \in Threads : held[u] # NULL => frame'[held[u]] = frame[held[u]]
      BY <3>1, <1>4, <1>7, Zenon DEF OwnInv, TypeInv, TypeOK
    <3> QED BY <3>1, <3>2, <3>3, <1>1, <1>4, Zenon
            DEF OwnInv, TypeInv, TypeOK, WrittenFrame
  <2> QED BY <2>1, <2>2, <1>2, Zenon
<1>10. FrameOwnership'
  BY <1>1, <1>4, <1>5, <1>6, <1>7
     DEF OwnInv, FrameOwnership, Devices, TypeInv, TypeOK
<1> QED BY <1>8, <1>9, <1>10, Zenon DEF OwnInv, TypeInv

\* The lookup of the port moves no entry.
LEMMA WritePortOwn ==
  ASSUME OwnInv, UNCHANGED dummy, NEW t \in Threads, write_port(t)
  PROVE  OwnInv'
<1>1. CASE Oops
  BY <1>1, OopsType, OwnershipStable, Zenon
     DEF OwnInv, TypeInv, TypeOK, dummy, Oops, queues, threads
<1>2. CASE ~ Oops
  <2>1. /\ UNCHANGED << queues, registry, filp, held, oops >>
        /\ pc[t] = "write_port"
    BY <1>2, Zenon DEF write_port
  <2>2. \/ /\ frame[held[t]].port < nports[filp[t].dev]
           /\ pc' = [pc EXCEPT ![t] = "send_frame"]
           /\ UNCHANGED arg
        \/ /\ pc' = [pc EXCEPT ![t] = "write_putback"]
           /\ arg' = [arg EXCEPT ![t] = NULL]
    BY <1>2, Zenon DEF write_port, dmx512_port_by_index
  <2>3. TypeOK'
    BY <2>1, <2>2, Zenon DEF OwnInv, TypeInv, TypeOK, queues, registry, dummy, PCs
  <2>4. frame[held[t]] = arg[t] /\ arg[t] \in Messages
    BY <2>1, Zenon DEF OwnInv, TypeInv, TypeOK, WrittenFrame
  <2>5. arg[t].port \in Nat /\ nports[filp[t].dev] \in 0..PortsCount
    BY <2>4 DEF OwnInv, TypeInv, TypeOK, FileRefs, Messages
  <2>6. WrittenFrame'
    BY <2>1, <2>2, <2>4, <2>5, PortsAssumption
       DEF OwnInv, TypeInv, TypeOK, WrittenFrame, queues
  <2>7. FrameOwnership'
    BY <2>1, OwnershipStable, Zenon DEF OwnInv, queues
  <2> QED BY <2>3, <2>6, <2>7, Zenon DEF OwnInv, TypeInv
<1> QED BY <1>1, <1>2, Zenon

\* The driver's send_frame: the entry stays with the thread, or is lost in a
\* port that is not connected.
LEMMA SendOwn ==
  ASSUME OwnInv, NEW t \in Threads, dmx512_dummy_send_frame(t)
  PROVE  OwnInv'
<1> DEFINE i == frame[held[t]].port
<1>1. UNCHANGED dummy /\ pc[t] = "send_frame"
  BY Zenon DEF dmx512_dummy_send_frame
<1>2. CASE Oops
  BY <1>1, <1>2, OopsType, OwnershipStable, Zenon
     DEF OwnInv, TypeInv, TypeOK, dummy, Oops, queues, threads
<1>3. CASE /\ held' = [held EXCEPT ![t] = NULL]
           /\ arg' = [arg EXCEPT ![t] = NULL]
           /\ pc' = [pc EXCEPT ![t] = "open"]
           /\ UNCHANGED << queues, registry, filp, oops >>
  <2>1. TypeOK'
    BY <1>1, <1>3, NullAssumption, Zenon
       DEF OwnInv, TypeInv, TypeOK, queues, registry, dummy, PCs
  <2>2. WrittenFrame'
    BY <1>1, <1>3, Zenon DEF OwnInv, TypeInv, TypeOK, WrittenFrame, queues
  <2>3. FrameOwnership'
    BY <1>3, Zenon DEF OwnInv, TypeInv, TypeOK, FrameOwnership, queues
  <2> QED BY <2>1, <2>2, <2>3, Zenon DEF OwnInv, TypeInv
<1>4. CASE dmx512_received_frame(t, Peer(filp[t].dev), i)
  <2>1. /\ frame' = [frame EXCEPT ![held[t]].port = i]
        /\ pc' = [pc EXCEPT ![t] = "rx_put"]
        /\ UNCHANGED << free_framequeue, rxframequeue, registry, filp, held,
                        arg, oops >>
    BY <1>4, Zenon DEF dmx512_received_frame
  <2>2. held[t] \in Frames /\ frame[held[t]] \in Messages
    BY <1>1, Zenon DEF OwnInv, TypeInv, TypeOK, WrittenFrame
  <2>3. [frame[held[t]] EXCEPT !.port = i] = frame[held[t]]
    BY <2>2, Zenon DEF Messages
  <2>4. frame' = frame
    BY <2>1, <2>2, <2>3 DEF OwnInv, TypeInv, TypeOK
  <2>5. TypeOK'
    BY <1>1, <2>1, <2>4, Zenon DEF OwnInv, TypeInv, TypeOK, registry, dummy, PCs
  <2>6. WrittenFrame'
    BY <1>1, <2>1, <2>4, Zenon DEF OwnInv, TypeInv, TypeOK, WrittenFrame
  <2>7. FrameOwnership'
    BY <2>1, OwnershipStable, Zenon DEF OwnInv
  <2> QED BY <2>5, <2>6, <2>7, Zenon DEF OwnInv, TypeInv
<1> QED BY <1>2, <1>3, <1>4, Zenon DEF dmx512_dummy_send_frame

\* dmx512_received_frame links the thread's entry into the card's queue.
LEMMA RxPutOwn ==
  ASSUME OwnInv, UNCHANGED dummy, NEW t \in Threads, NEW d \in Devices,
         received_frame_put(t, d)
  PROVE  OwnInv'
<1>1. CASE Oops
  BY <1>1, OopsType, OwnershipStable, Zenon
     DEF OwnInv, TypeInv, TypeOK, dummy, Oops, queues, threads
<1>2. CASE ~ Oops
  <2> DEFINE e == held[t]
             q == rxframequeue[d]
             p == dmx512_framequeue_put(q, e)
  <2>1. /\ UNCHANGED << free_framequeue, frame, registry, filp, oops >>
        /\ rxframequeue' = [rxframequeue EXCEPT ![d] = p]
        /\ held' = [held EXCEPT ![t] = NULL]
        /\ arg' = [arg EXCEPT ![t] = NULL]
        /\ pc' = [pc EXCEPT ![t] = "rx_wake"]
        /\ pc[t] = "rx_put"
    BY <1>2, Zenon DEF received_frame_put
  <2>2. e \in Frames /\ e # NULL /\ q \in Seq(Frames)
    BY <2>1, Zenon DEF OwnInv, TypeInv, TypeOK
  <2>3. NoDuplicates(q) /\ e \notin Entries(q) /\ e \notin Entries(free_framequeue)
    BY <2>2, Zenon DEF OwnInv, FrameOwnership
  <2>4. p \in Seq(Frames) /\ Entries(p) = Entries(q) \union {e}
    BY <2>2, PutEntries
  <2>5. NoDuplicates(p)
    BY <2>2, <2>3, PutNoDuplicates, Zenon
  <2> HIDE DEF p
  <2>6. TypeOK'
    BY <2>1, <2>4, NullAssumption, Zenon DEF OwnInv, TypeInv, TypeOK, registry, dummy, PCs
  <2>7. WrittenFrame'
    BY <2>1, Zenon DEF OwnInv, TypeInv, TypeOK, WrittenFrame
  <2>8. FrameOwnership'
    BY <2>1, <2>2, <2>3, <2>4, <2>5
       DEF OwnInv, FrameOwnership, Devices, TypeInv, TypeOK
  <2> QED BY <2>6, <2>7, <2>8, Zenon DEF OwnInv, TypeInv
<1> QED BY <1>1, <1>2, Zenon

\* A wake_up moves sleepers, not entries.
LEMMA RxWakeOwn ==
  ASSUME OwnInv, UNCHANGED dummy, NEW t \in Threads, NEW d \in Devices,
         received_frame_wake(t, d)
  PROVE  OwnInv'
<1>1. CASE Oops
  BY <1>1, OopsType, OwnershipStable, Zenon
     DEF OwnInv, TypeInv, TypeOK, dummy, Oops, queues, threads
<1>2. CASE ~ Oops
  <2>1. /\ pc' = [Woken(d) EXCEPT ![t] = "open"]
        /\ UNCHANGED << queues, registry, filp, held, arg, oops >>
        /\ pc[t] = "rx_wake"
    BY <1>2, Zenon DEF received_frame_wake
  <2>2. TypeOK'
    BY <2>1, Zenon DEF OwnInv, TypeInv, TypeOK, queues, registry, dummy, PCs, Woken
  <2>3. WrittenFrame'
    BY <2>1, Zenon DEF OwnInv, TypeInv, TypeOK, WrittenFrame, queues, Woken
  <2>4. FrameOwnership'
    BY <2>1, OwnershipStable, Zenon DEF OwnInv, queues
  <2> QED BY <2>2, <2>3, <2>4, Zenon DEF OwnInv, TypeInv
<1> QED BY <1>1, <1>2, Zenon

\* Loading and unloading: a card's queue is emptied, at most.
LEMMA DriverOwn ==
  ASSUME OwnInv, Driver
  PROVE  OwnInv'
<1>1. driver' \in DriverStates /\ connected' \in Nat
  BY DEF Driver, create_card0, create_port, create_card1, init_abort,
         connect_ports, dmx512_dummy_driver_exit, dmx512_core_exit,
         DriverStates, dummy, OwnInv, TypeInv, TypeOK
<1>2. CASE Oops
  BY <1>1, <1>2, OopsType, OwnershipStable, Zenon DEF OwnInv, Oops, queues, threads
<1>3. ASSUME NEW d \in Devices,
             /\ UNCHANGED << free_framequeue, frame, filp, held, arg, oops >>
             /\ device' \in [Devices -> {"none", "registered", "unregistered", "deleted"}]
             /\ nports' \in [Devices -> 0..PortsCount]
             /\ dmx512_devices' \in SUBSET Devices
             /\ generation' \in Nat
             /\ pc' = pc \/ pc' = Woken(d)
             /\ \/ rxframequeue' = rxframequeue
                \/ rxframequeue' = [rxframequeue EXCEPT ![d] = << >>]
      PROVE  OwnInv'
  <2>1. rxframequeue' \in [Devices -> Seq(Frames)]
    <3>1. << >> \in Seq(Frames) /\ rxframequeue \in [Devices -> Seq(Frames)]
      BY DEF OwnInv, TypeInv, TypeOK
    <3> QED BY <1>3, <3>1, Zenon
  <2>2. pc' \in [Threads -> PCs]
    BY <1>3 DEF OwnInv, TypeInv, TypeOK, Woken, PCs
  <2>3. \A t \in Threads : pc'[t] = pc[t]
                           \/ (pc[t] = "asleep" /\ pc'[t] = "read_wait")
    BY <1>3, Zenon DEF OwnInv, TypeInv, TypeOK, Woken
  <2>4. TypeOK'
    BY <1>1, <1>3, <2>1, <2>2, <2>3, Zenon DEF OwnInv, TypeInv, TypeOK
  <2>5. WrittenFrame'
    BY <1>3, <2>3, Zenon DEF OwnInv, TypeInv, WrittenFrame
  <2>6. \A c \in Devices : \/ rxframequeue'[c] = rxframequeue[c]
                           \/ rxframequeue'[c] = << >>
    BY <1>3, Zenon DEF OwnInv, TypeInv, TypeOK
  <2>7. \A c \in Devices : /\ Entries(rxframequeue'[c]) \subseteq Entries(rxframequeue[c])
                           /\ NoDuplicates(rxframequeue'[c])
    BY <2>6, EmptyEntries, Zenon DEF OwnInv, FrameOwnership
  <2>8. FrameOwnership'
    BY <1>3, <2>7, Zenon DEF OwnInv, FrameOwnership, Devices
  <2> QED BY <2>4, <2>5, <2>8, Zenon DEF OwnInv, TypeInv
<1>4. CASE dmx512_core_exit
  <2>1. /\ UNCHANGED << rxframequeue, frame, registry, threads, oops >>
        /\ free_framequeue' = << >>
    BY <1>4, Zenon DEF dmx512_core_exit, dmx512_framequeue_cleanup
  <2>2. TypeOK'
    BY <1>1, <2>1, EmptyEntries, Zenon DEF OwnInv, TypeInv, TypeOK, registry, threads
  <2>3. WrittenFrame'
    BY <2>1, Zenon DEF OwnInv, TypeInv, WrittenFrame, threads
  <2>4. FrameOwnership'
    BY <2>1, EmptyEntries, Zenon DEF OwnInv, FrameOwnership, threads
  <2> QED BY <2>2, <2>3, <2>4, Zenon DEF OwnInv, TypeInv
<1>5. ASSUME NEW d \in Devices, NEW g \in Nat,
             \/ register_dmx512_device(d, g) \/ register_dmx512_device_fails(d, g)
             \/ unregister_wake(d) \/ unregister_dmx512_device(d)
             \/ dmx512_delete_device(d)
             \/ nports[d] < PortsCount /\ dmx512_add_port(d)
      PROVE  OwnInv'
  <2>1. CASE Oops
    BY <2>1, <1>2, Zenon
  <2>2. CASE ~ Oops
    <3>1. /\ UNCHANGED << free_framequeue, frame, filp, held, arg, oops >>
          /\ pc' = pc \/ pc' = Woken(d)
          /\ \/ rxframequeue' = rxframequeue
             \/ rxframequeue' = [rxframequeue EXCEPT ![d] = << >>]
      BY <1>5, <2>2, Zenon DEF register_dmx512_device, register_dmx512_device_fails,
           unregister_wake, unregister_dmx512_device, dmx512_delete_device, dmx512_add_port,
           queues, registry, threads,
           dmx512_framequeue_init, dmx512_framequeue_cleanup
    <3>2. device' \in [Devices -> {"none", "registered", "unregistered", "deleted"}]
      BY <1>5, <2>2, Zenon DEF register_dmx512_device, register_dmx512_device_fails,
           unregister_wake, unregister_dmx512_device, dmx512_delete_device, dmx512_add_port,
           registry, OwnInv, TypeInv, TypeOK
    <3>3. nports' \in [Devices -> 0..PortsCount]
      <4>1. \/ nports' = nports
            \/ nports' = [nports EXCEPT ![d] = 0]
            \/ nports[d] < PortsCount /\ nports' = [nports EXCEPT ![d] = @ + 1]
        BY <1>5, <2>2, Zenon DEF register_dmx512_device, register_dmx512_device_fails,
             unregister_wake, unregister_dmx512_device, dmx512_delete_device, dmx512_add_port,
             registry
      <4>2. nports \in [Devices -> 0..PortsCount]
        BY Zenon DEF OwnInv, TypeInv, TypeOK
      <4>3. 0 \in 0..PortsCount /\ (nports[d] < PortsCount => nports[d] + 1 \in 0..PortsCount)
        BY <4>2, PortsAssumption
      <4> QED BY <4>1, <4>2, <4>3, Zenon
    <3>4. dmx512_devices' \in SUBSET Devices /\ generation' \in Nat
      BY <1>5, <2>2, Zenon DEF register_dmx512_device, register_dmx512_device_fails,
           unregister_wake, unregister_dmx512_device, dmx512_delete_device, dmx512_add_port,
           registry, OwnInv, TypeInv, TypeOK
    <3> QED BY <1>3, <3>1, <3>2, <3>3, <3>4, Zenon
  <2> QED BY <2>1, <2>2, Zenon
<1>6. generation \in Nat /\ generation + 1 \in Nat /\ 0 \in Devices /\ 1 \in Devices
  BY DEF OwnInv, TypeInv, TypeOK, Devices
<1>7. CASE create_card0
  BY <1>5, <1>6, <1>7, Zenon DEF create_card0
<1>8. CASE \E d \in Devices : create_port(d)
  BY <1>5, <1>6, <1>8, Zenon DEF create_port
<1>9. CASE create_card1
  BY <1>5, <1>6, <1>9, Zenon DEF create_card1
<1>10. CASE init_abort
  BY <1>2, <1>5, <1>6, <1>10, Zenon DEF init_abort
<1>11. CASE connect_ports
  BY <1>3, <1>6, <1>11, Zenon
     DEF connect_ports, queues, registry, threads, OwnInv, TypeInv, TypeOK
<1>12. CASE dmx512_dummy_driver_exit
  BY <1>5, <1>6, <1>12, Zenon DEF dmx512_dummy_driver_exit
<1> QED BY <1>4, <1>7, <1>8, <1>9, <1>10, <1>11, <1>12, Zenon DEF Driver

-----------------------------------------------------------------------------
\* dmx512_core_init links every entry into the pool once.
LEMMA InitOwn == Init => OwnInv
<1> SUFFICES ASSUME Init PROVE OwnInv
  BY Zenon
<1>1. TypeInv
  BY InitType, Zenon
<1>2. /\ free_framequeue = [i \in 1..PoolSize |-> i]
      /\ \A d \in Devices : rxframequeue[d] = << >>
      /\ \A t \in Threads : held[t] = NULL
  BY Zenon DEF Init, dmx512_core_init, dmx512_framequeue_init
<1>3. NoDuplicates(free_framequeue)
  <2>1. Len(free_framequeue) = PoolSize
    BY <1>2, PoolAssumption
  <2> QED BY <2>1, <1>2, Zenon DEF NoDuplicates
<1>4. FrameOwnership
  BY <1>2, <1>3, EmptyEntries, Zenon DEF FrameOwnership, Devices
<1> QED BY <1>1, <1>4, Zenon DEF OwnInv

\* Every step of a thread and of the driver keeps the invariant.
LEMMA NextOwn == OwnInv /\ [Next]_vars => OwnInv'
<1> SUFFICES ASSUME OwnInv, [Next]_vars PROVE OwnInv'
  BY Zenon
<1>1. CASE UNCHANGED vars
  <2>1. TypeInv'
    BY <1>1, Zenon DEF OwnInv, TypeInv, TypeOK, WrittenFrame, vars, queues, registry,
                threads, dummy
  <2>2. FrameOwnership'
    BY <1>1, OwnershipStable, Zenon DEF OwnInv, vars, queues, threads
  <2> QED BY <2>1, <2>2, Zenon DEF OwnInv
<1>2. CASE Driver
  BY <1>2, DriverOwn, Zenon
<1>3. ASSUME NEW t \in Threads, Thread(t) PROVE OwnInv'
  <2>1. Peer(filp[t].dev) \in Devices
    <3>1. filp[t].dev \in Devices
      BY Zenon DEF OwnInv, TypeInv, TypeOK, FileRefs
    <3> QED BY <3>1 DEF Peer, Devices
  <2>2. ASSUME UNCHANGED dummy,
               \/ dmx512_device_open(t) \/ dmx512_device_release(t)
               \/ dmx512_device_read(t) \/ read_wait(t) \/ read_signal(t)
        PROVE  OwnInv'
    <3>1. TypeInv'
      BY <2>2, ReadType, Zenon DEF OwnInv
    <3>2. UNCHANGED << free_framequeue, rxframequeue, held >>
      BY <2>2, Zenon DEF dmx512_device_open, dmx512_device_release,
           dmx512_device_read, read_wait, read_signal, Oops, queues, threads
    <3> QED BY <3>1, <3>2, OwnershipStable, Zenon DEF OwnInv
  <2>3. CASE FileOperation(t) /\ UNCHANGED dummy
    BY <2>2, <2>3, ReadGetOwn, PutFreeOwn, WriteOwn, WritePortOwn, Zenon
       DEF FileOperation
  <2> QED BY <1>3, <2>1, <2>3, SendOwn, RxPutOwn, RxWakeOwn, Zenon DEF Thread
<1> QED BY <1>1, <1>2, <1>3, Zenon DEF Next

\* Every variable has its type, whatever the sizes and the interleaving.
THEOREM TypeCorrect == Spec => []TypeOK
<1>1. OwnInv => TypeOK
  BY Zenon DEF OwnInv, TypeInv
<1> QED BY InitOwn, NextOwn, <1>1, PTL DEF Spec

\* An entry is in one list or in the hands of one thread, and nowhere twice:
\* no interleaving of reads, writes, loading and unloading makes
\* dmx512_framequeue_put link an entry that is linked already.
THEOREM EntriesOwnedOnce == Spec => []FrameOwnership
<1>1. OwnInv => FrameOwnership
  BY Zenon DEF OwnInv
<1> QED BY InitOwn, NextOwn, <1>1, PTL DEF Spec

-----------------------------------------------------------------------------
(* No lost wakeup.  The invariant needs one more fact to be inductive: no  *)
(* file belongs to a load of the driver that is still to come, else a new  *)
(* card could find old readers asleep on it.                               *)

WakeInv == NoLostWakeup /\ FileGenerations

\* A step keeps the invariant if it completes no wake_up and whoever sleeps
\* afterwards slept before, on a queue that was not filled, or sleeps on an
\* empty queue.
LEMMA WakeStable ==
  ASSUME NoLostWakeup,
         \A u \in Threads : pc[u] = "rx_wake" => pc'[u] = "rx_wake" /\ filp'[u] = filp[u],
         \A t \in Threads : pc'[t] = "asleep" =>
           \/ dmx512_framequeue_isempty(rxframequeue'[filp'[t].dev])
           \/ DeviceFreed(t)'
           \/ /\ pc[t] = "asleep"
              /\ filp'[t] = filp[t]
              /\ ~ dmx512_framequeue_isempty(rxframequeue[filp[t].dev])
              /\ ~ DeviceFreed(t)
  PROVE  NoLostWakeup'
<1> SUFFICES ASSUME NEW t \in Threads, pc'[t] = "asleep", ~ DeviceFreed(t)',
                    ~ dmx512_framequeue_isempty(rxframequeue'[filp'[t].dev])
             PROVE  \E u \in Threads :
                      /\ pc'[u] = "rx_wake"
                      /\ filp'[u] = [dev |-> Peer(filp'[t].dev), gen |-> filp'[t].gen]
  BY Zenon DEF NoLostWakeup
<1>1. PICK u \in Threads :
        /\ pc[u] = "rx_wake"
        /\ filp[u] = [dev |-> Peer(filp[t].dev), gen |-> filp[t].gen]
  BY Zenon DEF NoLostWakeup
<1> QED BY <1>1, Zenon

\* A step of a thread that fills no queue and completes no wake_up.
LEMMA ThreadWake ==
  ASSUME OwnInv, WakeInv, NEW t \in Threads,
         FileOperation(t) \/ dmx512_dummy_send_frame(t)
  PROVE  WakeInv'
<1>1. CASE Oops
  BY <1>1, Zenon DEF WakeInv, NoLostWakeup, FileGenerations, Oops, queues, registry,
              threads, DeviceFreed
<1>2. CASE ~ Oops
  <2> USE DEF FileOperation, dmx512_device_open, dmx512_device_release,
        dmx512_device_read, read_wait, read_signal, read_get, read_copy,
        PutFree, dmx512_device_write, write_port, write_putback,
        dmx512_dummy_send_frame, dmx512_received_frame
  <2>1. UNCHANGED registry /\ pc[t] # "rx_wake"
    BY <1>2, Zenon
  <2>2. \E x \in PCs : pc' = [pc EXCEPT ![t] = x]
    BY <1>2, Zenon DEF PCs
  <2>3. \/ filp' = filp
        \/ /\ pc'[t] \in {"open", "closed"}
           /\ \E f \in FileRefs : /\ filp' = [filp EXCEPT ![t] = f]
                                  /\ f.gen <= generation
    <3> USE DEF OwnInv, TypeInv, TypeOK
    <3>1. CASE dmx512_device_open(t)
      <4>1. PICK d \in Devices : filp' = [filp EXCEPT ![t] = [dev |-> d, gen |-> generation]]
        BY <3>1, Zenon
      <4>2. pc'[t] = "open"
        BY <3>1, Zenon
      <4> DEFINE f == [dev |-> d, gen |-> generation]
      <4>3. f \in FileRefs /\ f.gen <= generation
        BY DEF FileRefs
      <4> QED BY <4>1, <4>2, <4>3, Zenon
    <3>2. CASE dmx512_device_release(t)
      <4>1. filp' = [filp EXCEPT ![t] = NoFile] /\ pc'[t] = "closed"
        BY <1>2, <3>2, Zenon
      <4>2. NoFile \in FileRefs /\ NoFile.gen <= generation
        BY DEF FileRefs, NoFile, Devices
      <4> QED BY <4>1, <4>2, Zenon
    <3> QED BY <1>2, <3>1, <3>2, Zenon
  <2>4. \A d \in Devices :
          \/ rxframequeue'[d] = rxframequeue[d]
          \/ ~ dmx512_framequeue_isempty(rxframequeue[d])
    BY <1>2, Zenon DEF queues, OwnInv, TypeInv, TypeOK
  <2>5. pc'[t] = "asleep" => /\ dmx512_framequeue_isempty(rxframequeue[filp[t].dev])
                             /\ UNCHANGED << rxframequeue, filp >>
    BY <1>2, <2>2, Zenon DEF OwnInv, TypeInv, TypeOK, queues
  <2> HIDE DEF FileOperation, dmx512_dummy_send_frame
  <2>6. FileGenerations'
    BY <2>1, <2>3, Zenon DEF WakeInv, FileGenerations, registry, OwnInv, TypeInv, TypeOK
  <2>7. \A u \in Threads : pc[u] = "rx_wake" => pc'[u] = "rx_wake" /\ filp'[u] = filp[u]
    BY <2>1, <2>2, <2>3, Zenon DEF OwnInv, TypeInv, TypeOK
  <2>8. ASSUME NEW u \in Threads, pc'[u] = "asleep",
               ~ dmx512_framequeue_isempty(rxframequeue'[filp'[u].dev]),
               ~ DeviceFreed(u)'
        PROVE  /\ pc[u] = "asleep"
               /\ filp'[u] = filp[u]
               /\ ~ dmx512_framequeue_isempty(rxframequeue[filp[u].dev])
               /\ ~ DeviceFreed(u)
    <3>1. u # t
      BY <2>5, <2>8, Zenon
    <3>2. pc[u] = "asleep" /\ filp'[u] = filp[u]
      BY <3>1, <2>2, <2>3, <2>8, Zenon DEF OwnInv, TypeInv, TypeOK
    <3>3. filp[u].dev \in Devices
      BY Zenon DEF OwnInv, TypeInv, TypeOK, FileRefs
    <3>4. ~ dmx512_framequeue_isempty(rxframequeue[filp[u].dev])
      BY <3>2, <3>3, <2>4, <2>8, Zenon
    <3>5. ~ DeviceFreed(u)
      BY <3>2, <2>1, <2>8, Zenon DEF DeviceFreed, registry
    <3> QED BY <3>2, <3>4, <3>5, Zenon
  <2>9. NoLostWakeup'
    BY <2>7, <2>8, WakeStable, Zenon DEF WakeInv
  <2> QED BY <2>6, <2>9, Zenon DEF WakeInv
<1> QED BY <1>1, <1>2, Zenon

\* Filling a queue makes the thread the one that owes the wake_up.
LEMMA RxPutWake ==
  ASSUME OwnInv, WakeInv, NEW t \in Threads,
         received_frame_put(t, Peer(filp[t].dev))
  PROVE  WakeInv'
<1>1. CASE Oops
  BY <1>1, Zenon DEF WakeInv, NoLostWakeup, FileGenerations, Oops, queues, registry,
              threads, DeviceFreed
<1>2. CASE ~ Oops
  <2> DEFINE d == Peer(filp[t].dev)
  <2>1. /\ UNCHANGED << registry, filp >>
        /\ pc' = [pc EXCEPT ![t] = "rx_wake"]
        /\ rxframequeue' = [rxframequeue EXCEPT ![d] = dmx512_framequeue_put(@, held[t])]
        /\ filp[t].gen = generation
    BY <1>2, Zenon DEF received_frame_put, PortsFreed
  <2>2. pc \in [Threads -> PCs] /\ filp \in [Threads -> FileRefs] /\ rxframequeue \in [Devices -> Seq(Frames)]
    BY Zenon DEF OwnInv, TypeInv, TypeOK
  <2>3. FileGenerations'
    BY <2>1, Zenon DEF WakeInv, FileGenerations, registry
  <2>4. NoLostWakeup'
    <3> SUFFICES ASSUME NEW u \in Threads, pc'[u] = "asleep", ~ DeviceFreed(u)',
                        ~ dmx512_framequeue_isempty(rxframequeue'[filp'[u].dev])
                 PROVE  \E v \in Threads :
                          /\ pc'[v] = "rx_wake"
                          /\ filp'[v] = [dev |-> Peer(filp'[u].dev), gen |-> filp'[u].gen]
      BY Zenon DEF NoLostWakeup
    <3>1. filp'[u] = filp[u] /\ pc[u] = "asleep" /\ ~ DeviceFreed(u)
      BY <2>1, <2>2, Zenon DEF DeviceFreed, registry
    <3>2. CASE filp[u].dev = d
      <4>1. filp[u].gen = generation
        BY <3>1, Zenon DEF DeviceFreed
      <4>2. filp[t] = [dev |-> Peer(d), gen |-> generation]
        <5>1. filp[t].dev \in {0, 1}
          BY <2>2, Zenon DEF FileRefs, Devices
        <5>2. Peer(d) = filp[t].dev
          BY <5>1 DEF Peer
        <5>3. filp[t] = [dev |-> filp[t].dev, gen |-> filp[t].gen]
          BY <2>2, Zenon DEF FileRefs
        <5> QED BY <5>2, <5>3, <2>1, Zenon
      <4> QED BY <2>1, <2>2, <3>1, <3>2, <4>1, <4>2, Zenon
    <3>3. CASE filp[u].dev # d
      <4>1. ~ dmx512_framequeue_isempty(rxframequeue[filp[u].dev])
        BY <2>1, <2>2, <3>1, <3>3, Zenon DEF FileRefs
      <4>2. PICK v \in Threads :
              /\ pc[v] = "rx_wake"
              /\ filp[v] = [dev |-> Peer(filp[u].dev), gen |-> filp[u].gen]
        BY <3>1, <4>1, Zenon DEF WakeInv, NoLostWakeup
      <4> QED BY <2>1, <2>2, <4>2, Zenon
    <3> QED BY <3>2, <3>3, Zenon
  <2> QED BY <2>3, <2>4, Zenon DEF WakeInv
<1> QED BY <1>1, <1>2, Zenon

\* Completing the wake_up leaves nobody asleep on that card.
LEMMA RxWakeWake ==
  ASSUME OwnInv, WakeInv, NEW t \in Threads,
         received_frame_wake(t, Peer(filp[t].dev))
  PROVE  WakeInv'
<1>1. CASE Oops
  BY <1>1, Zenon DEF WakeInv, NoLostWakeup, FileGenerations, Oops, queues, registry,
              threads, DeviceFreed
<1>2. CASE ~ Oops
  <2> DEFINE d == Peer(filp[t].dev)
  <2>1. /\ UNCHANGED << queues, registry, filp >>
        /\ pc' = [Woken(d) EXCEPT ![t] = "open"]
        /\ filp[t].gen = generation
    BY <1>2, Zenon DEF received_frame_wake, PortsFreed
  <2>2. pc \in [Threads -> PCs] /\ filp \in [Threads -> FileRefs]
    BY Zenon DEF OwnInv, TypeInv, TypeOK
  <2>3. FileGenerations'
    BY <2>1, Zenon DEF WakeInv, FileGenerations, registry
  <2>4. NoLostWakeup'
    <3> SUFFICES ASSUME NEW u \in Threads, pc'[u] = "asleep", ~ DeviceFreed(u)',
                        ~ dmx512_framequeue_isempty(rxframequeue'[filp'[u].dev])
                 PROVE  \E v \in Threads :
                          /\ pc'[v] = "rx_wake"
                          /\ filp'[v] = [dev |-> Peer(filp'[u].dev), gen |-> filp'[u].gen]
      BY Zenon DEF NoLostWakeup
    <3>1. /\ filp'[u] = filp[u] /\ pc[u] = "asleep" /\ ~ DeviceFreed(u)
          /\ filp[u] # [dev |-> d, gen |-> generation]
      BY <2>1, <2>2, Zenon DEF DeviceFreed, registry, Woken
    <3>2. filp[u].dev # d
      BY <2>2, <3>1, Zenon DEF DeviceFreed, FileRefs
    <3>3. ~ dmx512_framequeue_isempty(rxframequeue[filp[u].dev])
      BY <2>1, <3>1, Zenon DEF queues
    <3>4. PICK v \in Threads :
            /\ pc[v] = "rx_wake"
            /\ filp[v] = [dev |-> Peer(filp[u].dev), gen |-> filp[u].gen]
      BY <3>1, <3>3, Zenon DEF WakeInv, NoLostWakeup
    <3>5. v # t
      <4>1. filp[v].dev = Peer(filp[u].dev)
        BY <3>4
      <4> QED BY <4>1, <3>2, <2>2 DEF FileRefs, Peer, Devices
    <3> QED BY <2>1, <2>2, <3>1, <3>4, <3>5, Zenon DEF Woken
  <2> QED BY <2>3, <2>4, Zenon DEF WakeInv
<1> QED BY <1>1, <1>2, Zenon

\* Loading and unloading empty queues; a new pair of cards has no readers yet.
LEMMA DriverWake ==
  ASSUME OwnInv, WakeInv, Driver
  PROVE  WakeInv'
<1>1. CASE Oops
  BY <1>1, Zenon DEF WakeInv, NoLostWakeup, FileGenerations, Oops, queues, registry,
              threads, DeviceFreed
<1>2. ASSUME UNCHANGED << filp >>,
             generation' \in Nat, generation' >= generation,
             \A u \in Threads : pc'[u] = pc[u] \/ (pc[u] = "asleep" /\ pc'[u] # "asleep"),
             \A c \in Devices :
               \/ dmx512_framequeue_isempty(rxframequeue'[c])
               \/ generation' # generation
               \/ /\ rxframequeue'[c] = rxframequeue[c]
                  /\ device[c] = "deleted" => device'[c] = "deleted"
      PROVE  WakeInv'
  <2>1. FileGenerations'
    <3>1. generation \in Nat /\ \A t \in Threads : filp[t].gen \in Nat
      BY Zenon DEF OwnInv, TypeInv, TypeOK, FileRefs
    <3> QED BY <3>1, <1>2 DEF WakeInv, FileGenerations
  <2>2. ASSUME NEW u \in Threads, pc'[u] = "asleep",
               ~ dmx512_framequeue_isempty(rxframequeue'[filp'[u].dev]),
               ~ DeviceFreed(u)'
        PROVE  /\ pc[u] = "asleep"
               /\ filp'[u] = filp[u]
               /\ ~ dmx512_framequeue_isempty(rxframequeue[filp[u].dev])
               /\ ~ DeviceFreed(u)
    <3>1. pc[u] = "asleep" /\ filp'[u] = filp[u]
      BY <1>2, <2>2, Zenon
    <3>2. filp[u].gen = generation' /\ device'[filp[u].dev] # "deleted"
      BY <2>2, <3>1, Zenon DEF DeviceFreed
    <3>3. generation' = generation
      <4>1. filp[u].gen <= generation /\ generation \in Nat /\ filp[u].gen \in Nat
        BY Zenon DEF WakeInv, FileGenerations, OwnInv, TypeInv, TypeOK, FileRefs
      <4> QED BY <4>1, <3>2, <1>2
    <3>4. filp[u].dev \in Devices
      BY Zenon DEF OwnInv, TypeInv, TypeOK, FileRefs
    <3> QED BY <1>2, <2>2, <3>1, <3>2, <3>3, <3>4, Zenon DEF DeviceFreed
  <2>3. \A u \in Threads : pc[u] = "rx_wake" => pc'[u] = "rx_wake" /\ filp'[u] = filp[u]
    BY <1>2, Zenon
  <2>4. NoLostWakeup'
    BY <2>2, <2>3, WakeStable, Zenon DEF WakeInv
  <2> QED BY <2>1, <2>4, Zenon DEF WakeInv
<1>3. /\ generation \in Nat
      /\ pc \in [Threads -> PCs]
      /\ rxframequeue \in [Devices -> Seq(Frames)]
      /\ device \in [Devices -> {"none", "registered", "unregistered", "deleted"}]
  BY Zenon DEF OwnInv, TypeInv, TypeOK
<1>4. \A c \in Devices, u \in Threads :
        Woken(c)[u] = pc[u] \/ (pc[u] = "asleep" /\ Woken(c)[u] # "asleep")
  BY <1>3, Zenon DEF Woken
<1>5. ASSUME NEW d \in Devices,
             \/ unregister_wake(d) \/ unregister_dmx512_device(d)
             \/ dmx512_delete_device(d)
             \/ dmx512_add_port(d) \/ register_dmx512_device(d, generation)
             \/ register_dmx512_device_fails(d, generation)
      PROVE  WakeInv'
  <2>1. CASE Oops
    BY <2>1, <1>1, Zenon
  <2>2. CASE ~ Oops
    <3>1. UNCHANGED filp /\ generation' = generation
      BY <1>5, <2>2, Zenon DEF unregister_wake, unregister_dmx512_device, dmx512_delete_device,
           dmx512_add_port, register_dmx512_device,
           register_dmx512_device_fails, registry, threads
    <3>2. pc' = pc \/ pc' = Woken(d)
      BY <1>5, <2>2, Zenon DEF unregister_wake, unregister_dmx512_device, dmx512_delete_device,
           dmx512_add_port, register_dmx512_device,
           register_dmx512_device_fails, registry, threads
    <3>3. \/ rxframequeue' = [rxframequeue EXCEPT ![d] = << >>]
          \/ rxframequeue' = rxframequeue
      BY <1>5, <2>2, Zenon DEF unregister_wake, unregister_dmx512_device, dmx512_delete_device,
           dmx512_add_port, register_dmx512_device,
           register_dmx512_device_fails, queues, registry,
           dmx512_framequeue_init, dmx512_framequeue_cleanup
    <3>4. \/ /\ rxframequeue' = [rxframequeue EXCEPT ![d] = << >>]
             /\ \A c \in Devices \ {d} : device'[c] = device[c]
          \/ \A c \in Devices : device[c] = "deleted" => device'[c] = "deleted"
      BY <1>3, <1>5, <2>2, Zenon DEF unregister_wake, unregister_dmx512_device, dmx512_delete_device,
           dmx512_add_port, register_dmx512_device,
           register_dmx512_device_fails, queues, registry,
           dmx512_framequeue_init, dmx512_framequeue_cleanup
    <3>5. \A c \in Devices :
            \/ dmx512_framequeue_isempty(rxframequeue'[c])
            \/ /\ rxframequeue'[c] = rxframequeue[c]
               /\ device[c] = "deleted" => device'[c] = "deleted"
      BY <1>3, <3>3, <3>4, Zenon DEF dmx512_framequeue_isempty
    <3>6. \A u \in Threads : pc'[u] = pc[u] \/ (pc[u] = "asleep" /\ pc'[u] # "asleep")
      BY <3>2, <1>4, Zenon
    <3>7. generation' \in Nat /\ generation' >= generation
      BY <3>1, <1>3
    <3> QED BY <1>2, <3>1, <3>5, <3>6, <3>7, Zenon
  <2> QED BY <2>1, <2>2, Zenon
<1>6. 0 \in Devices /\ 1 \in Devices
  BY Zenon DEF Devices
<1>7. CASE create_card0
  <2>1. CASE Oops
    BY <2>1, <1>1, Zenon
  <2>2. CASE ~ Oops
    <3>1. UNCHANGED << filp, pc >> /\ generation' = generation + 1
      BY <1>7, <2>2, Zenon DEF create_card0, register_dmx512_device,
           register_dmx512_device_fails, registry, threads
    <3> QED BY <1>2, <1>3, <3>1
  <2> QED BY <2>1, <2>2, Zenon
<1>8. CASE \E d \in Devices : create_port(d)
  BY <1>5, <1>8, Zenon DEF create_port
<1>9. CASE create_card1
  BY <1>5, <1>6, <1>9, Zenon DEF create_card1
<1>10. CASE init_abort
  BY <1>1, <1>5, <1>6, <1>10, Zenon DEF init_abort
<1>11. CASE connect_ports \/ dmx512_core_exit
  <2>1. UNCHANGED << filp, pc, rxframequeue, device, generation >>
    BY <1>11, Zenon DEF connect_ports, dmx512_core_exit, queues, registry, threads
  <2> QED BY <1>2, <1>3, <2>1
<1>12. CASE dmx512_dummy_driver_exit
  BY <1>5, <1>6, <1>12, Zenon DEF dmx512_dummy_driver_exit
<1> QED BY <1>7, <1>8, <1>9, <1>10, <1>11, <1>12, Zenon DEF Driver

\* No wakeup is lost: a reader sleeps on a card with unread frames only while
\* a writer still has to call wake_up for it.
THEOREM WakeupsAreNotLost == Spec => []NoLostWakeup
<1>1. Init => WakeInv
  BY DEF Init, dmx512_core_init, WakeInv, NoLostWakeup, FileGenerations, NoFile
<1>2. OwnInv /\ WakeInv /\ [Next]_vars => WakeInv'
  <2> SUFFICES ASSUME OwnInv, WakeInv, [Next]_vars PROVE WakeInv'
    BY Zenon
  <2>1. CASE UNCHANGED vars
    BY <2>1, Zenon DEF WakeInv, NoLostWakeup, FileGenerations, vars, queues, registry,
                threads, DeviceFreed
  <2>2. CASE \E t \in Threads : Thread(t)
    BY <2>2, ThreadWake, RxPutWake, RxWakeWake, Zenon DEF Thread
  <2>3. CASE Driver
    BY <2>3, DriverWake, Zenon
  <2> QED BY <2>1, <2>2, <2>3, Zenon DEF Next
<1>3. WakeInv => NoLostWakeup
  BY Zenon DEF WakeInv
<1> QED BY InitOwn, NextOwn, <1>1, <1>2, <1>3, PTL DEF Spec

-----------------------------------------------------------------------------
(* No entry is lost while the driver is loaded.                            *)

ConnectInv == driver = "loaded" => connected = 2 * PortsCount

\* dmx512_dummy_driver_init returns after the last port is connected.
LEMMA NextConnect ==
  ASSUME ConnectInv, [Next]_vars PROVE ConnectInv'
<1>1. CASE UNCHANGED dummy
  BY <1>1, Zenon DEF ConnectInv, dummy
<1>2. CASE Driver
  BY <1>2, Zenon DEF ConnectInv, Driver, create_card0, create_port, create_card1,
       init_abort, connect_ports, dmx512_dummy_driver_exit, dmx512_core_exit,
       dummy
<1> QED BY <1>1, <1>2, Zenon DEF Next, Thread, vars, dmx512_dummy_send_frame

\* Where an entry in circulation can be.
LEMMA CirculationMember ==
  ASSUME NEW x
  PROVE  x \in InCirculation <=>
           \/ x \in Entries(free_framequeue)
           \/ x \in Entries(rxframequeue[0])
           \/ x \in Entries(rxframequeue[1])
           \/ x # NULL /\ \E t \in Threads : held[t] = x
BY Zenon DEF InCirculation, Devices

\* The same of the state after a step.
LEMMA CirculationMemberPrime ==
  ASSUME NEW x
  PROVE  x \in InCirculation' <=>
           \/ x \in Entries(free_framequeue')
           \/ x \in Entries(rxframequeue'[0])
           \/ x \in Entries(rxframequeue'[1])
           \/ x # NULL /\ \E t \in Threads : held'[t] = x
BY Zenon DEF InCirculation, Devices

\* The calls that move an entry put it into a list or hand it on.
LEMMA ThreadKeepsEntries ==
  ASSUME OwnInv, ConnectInv, driver = "loaded", NEW t \in Threads, Thread(t)
  PROVE  InCirculation' = InCirculation
<1> USE DEF OwnInv, TypeInv, TypeOK
<1>1. CASE UNCHANGED << free_framequeue, rxframequeue, held >>
  BY <1>1 DEF InCirculation
<1>2. CASE read_get(t) /\ ~ UNCHANGED << free_framequeue, rxframequeue, held >>
  <2> DEFINE d == filp[t].dev
             q == rxframequeue[d]
             e == dmx512_framequeue_front(q)
             r == dmx512_framequeue_get(q)
  <2>1. /\ ~ dmx512_framequeue_isempty(q)
        /\ UNCHANGED free_framequeue
        /\ held' = [held EXCEPT ![t] = e]
        /\ rxframequeue' = [rxframequeue EXCEPT ![d] = r]
        /\ held[t] = NULL
    BY <1>2, Zenon DEF read_get, Oops, queues, threads
  <2>2. d \in Devices /\ q \in Seq(Frames)
    BY Zenon DEF FileRefs
  <2>3. e \in Frames /\ Entries(q) = Entries(r) \union {e}
    BY <2>1, <2>2, GetEntries, Zenon
  <2>4. e # NULL
    BY <2>3, NullAssumption, Zenon
  <2> HIDE DEF e, r
  <2>5. ASSUME NEW x PROVE x \in InCirculation' <=> x \in InCirculation
    <3>1. d = 0 \/ d = 1
      BY <2>2, Zenon DEF Devices
    <3>2. /\ Entries(rxframequeue'[d]) = Entries(r)
          /\ \A c \in Devices \ {d} : rxframequeue'[c] = rxframequeue[c]
      BY <2>1, <2>2, Zenon
    <3>3. (\E u \in Threads : held'[u] = x)
            <=> x = e \/ (\E u \in Threads \ {t} : held[u] = x)
      BY <2>1, Zenon
    <3> HIDE DEF d
    <3> QED BY <2>1, <2>3, <2>4, <3>1, <3>2, <3>3, CirculationMember,
               CirculationMemberPrime, Zenon DEF q, Devices
  <2> QED BY <2>5, Zenon
<1>3. CASE read_copy(t) \/ write_putback(t)
  <2> DEFINE e == held[t]
             p == dmx512_framequeue_put(free_framequeue, e)
  <2>1. /\ UNCHANGED rxframequeue
        /\ free_framequeue' = p
        /\ held' = [held EXCEPT ![t] = NULL]
        /\ e # NULL /\ e \in Frames
    BY <1>3, Zenon DEF read_copy, write_putback, PutFree
  <2>2. Entries(p) = Entries(free_framequeue) \union {e}
    BY <2>1, PutEntries
  <2> HIDE DEF p
  <2>3. ASSUME NEW x PROVE x \in InCirculation' <=> x \in InCirculation
    BY <2>1, <2>2, CirculationMember, CirculationMemberPrime, Zenon
  <2> QED BY <2>3, Zenon
<1>4. CASE dmx512_device_write(t)
  <2> DEFINE e == dmx512_framequeue_front(free_framequeue)
             r == dmx512_framequeue_get(free_framequeue)
  <2>1. /\ ~ dmx512_framequeue_isempty(free_framequeue)
        /\ UNCHANGED rxframequeue
        /\ free_framequeue' = r
        /\ held' = [held EXCEPT ![t] = e]
        /\ held[t] = NULL
    BY <1>4, Zenon DEF dmx512_device_write
  <2>2. e \in Frames /\ Entries(free_framequeue) = Entries(r) \union {e}
    BY <2>1, GetEntries, Zenon
  <2>3. e # NULL
    BY <2>2, NullAssumption, Zenon
  <2> HIDE DEF e, r
  <2>4. ASSUME NEW x PROVE x \in InCirculation' <=> x \in InCirculation
    BY <2>1, <2>2, <2>3, CirculationMember, CirculationMemberPrime, Zenon
  <2> QED BY <2>4, Zenon
<1>5. CASE dmx512_dummy_send_frame(t)
  <2>1. arg[t] \in Messages /\ arg[t].port < PortsCount /\ frame[held[t]] = arg[t]
    BY <1>5, Zenon DEF dmx512_dummy_send_frame, WrittenFrame
  <2>2. frame[held[t]].port \in Nat /\ frame[held[t]].port < PortsCount
    BY <2>1 DEF Messages
  <2>3. filp[t].dev \in {0, 1} /\ connected = 2 * PortsCount
    BY Zenon DEF FileRefs, Devices, ConnectInv
  <2>4. IsConnected(filp[t].dev, frame[held[t]].port)
    BY <2>2, <2>3, PortsAssumption DEF IsConnected
  <2>5. UNCHANGED << free_framequeue, rxframequeue, held >>
    BY <1>5, <2>4, Zenon DEF dmx512_dummy_send_frame, dmx512_received_frame, Oops,
                      queues, threads
  <2> QED BY <2>5, <1>1, Zenon
<1>6. CASE /\ received_frame_put(t, Peer(filp[t].dev))
           /\ ~ UNCHANGED << free_framequeue, rxframequeue, held >>
  <2> DEFINE d == Peer(filp[t].dev)
             e == held[t]
             q == rxframequeue[d]
             p == dmx512_framequeue_put(q, e)
  <2>1. /\ UNCHANGED free_framequeue
        /\ rxframequeue' = [rxframequeue EXCEPT ![d] = p]
        /\ held' = [held EXCEPT ![t] = NULL]
        /\ e # NULL /\ e \in Frames
    BY <1>6, Zenon DEF received_frame_put, Oops, queues, threads
  <2>2. d \in Devices
    <3>1. filp[t].dev \in Devices
      BY Zenon DEF FileRefs
    <3> HIDE DEF OwnInv
    <3> QED BY <3>1 DEF Peer, Devices
  <2>3. Entries(p) = Entries(q) \union {e}
    BY <2>1, <2>2, PutEntries
  <2> HIDE DEF p
  <2>4. ASSUME NEW x PROVE x \in InCirculation' <=> x \in InCirculation
    BY <2>1, <2>2, <2>3, CirculationMember, CirculationMemberPrime, Zenon DEF q, Devices
  <2> QED BY <2>4, Zenon
<1>7. CASE \/ dmx512_device_open(t) \/ dmx512_device_release(t)
           \/ dmx512_device_read(t) \/ read_wait(t) \/ read_signal(t)
           \/ write_port(t) \/ received_frame_wake(t, Peer(filp[t].dev))
  <2>1. UNCHANGED << free_framequeue, rxframequeue, held >>
    BY <1>7, Zenon DEF dmx512_device_open, dmx512_device_release, dmx512_device_read,
         read_wait, read_signal, write_port, received_frame_wake, Oops, queues,
         threads
  <2> QED BY <2>1, <1>1, Zenon
<1> QED BY <1>1, <1>2, <1>3, <1>4, <1>5, <1>6, <1>7, Zenon DEF Thread, FileOperation

\* Once the ports are connected, every call that takes an entry puts it back
\* or passes it on: the pool that all cards share does not drain.
THEOREM LoadedDriverKeepsEntries == Spec => NoLeakWhileLoaded
<1>1. Init => ConnectInv
  BY Zenon DEF Init, ConnectInv
<1>2. /\ OwnInv /\ ConnectInv /\ [Next]_vars
      => [driver = "loaded" /\ driver' = "loaded"
          => InCirculation' = InCirculation]_vars
  <2> SUFFICES ASSUME OwnInv, ConnectInv, Next,
                      driver = "loaded", driver' = "loaded"
               PROVE  InCirculation' = InCirculation
    BY Zenon
  <2>1. ~ Driver
    BY Zenon DEF Driver, create_card0, create_port, create_card1, init_abort,
         connect_ports, dmx512_dummy_driver_exit, dmx512_core_exit
  <2> QED BY <2>1, ThreadKeepsEntries, Zenon DEF Next
<1> QED BY InitOwn, NextOwn, NextConnect, <1>1, <1>2, PTL
        DEF Spec, NoLeakWhileLoaded

-----------------------------------------------------------------------------
(* The core and the driver implement the two FIFO channels of DmxLink: an   *)
(* entry that a write fills is in no queue and in no reader's hands, so no *)
(* frame changes on its way.                                               *)

\* An empty list holds no frames.
LEMMA EmptyContents == \A f : Contents(f, << >>) = << >>
BY DEF Contents

\* Before anything is written the channels are empty.
LEMMA InitLink == Init => Link!Init
BY EmptyContents
   DEF Init, dmx512_core_init, Link!Init, Link!Cards, LinkChan, LinkOut, LinkIn,
       Devices, dmx512_framequeue_init

\* A step that changes no frame, no queue and nothing of what the threads
\* have on their way is a stuttering step of the link.
LEMMA LinkStable ==
  ASSUME UNCHANGED << rxframequeue, frame, held, arg >>,
         \A t \in Threads :
           /\ arg[t] # NULL => filp'[t] = filp[t]
           /\ pc'[t] = "read_copy" <=> pc[t] = "read_copy"
  PROVE  UNCHANGED Link!vars
<1>1. LinkChan' = LinkChan
  BY Zenon DEF LinkChan
<1>2. LinkOut' = LinkOut
  BY Zenon DEF LinkOut
<1>3. LinkIn' = LinkIn
  BY Zenon DEF LinkIn
<1> QED BY <1>1, <1>2, <1>3, Zenon DEF Link!vars

\* A step into freed memory changes nothing on the link.
LEMMA OopsLink ==
  ASSUME Oops
  PROVE  UNCHANGED Link!vars
BY LinkStable, Zenon DEF Oops, queues, threads

\* Opening and closing a file and waiting for a frame move no frame.
LEMMA IdleLink ==
  ASSUME OwnInv, NEW t \in Threads,
         \/ dmx512_device_open(t) \/ dmx512_device_release(t)
         \/ dmx512_device_read(t) \/ read_wait(t) \/ read_signal(t)
         \/ received_frame_wake(t, Peer(filp[t].dev))
  PROVE  UNCHANGED Link!vars
<1> USE DEF OwnInv, TypeInv, TypeOK
<1>1. CASE Oops
  BY <1>1, OopsLink, Zenon
<1>2. CASE ~ Oops
  <2> USE DEF dmx512_device_open, dmx512_device_release, dmx512_device_read,
              read_wait, read_signal, received_frame_wake
  <2>1. UNCHANGED << rxframequeue, frame, held, arg >>
    BY <1>2, Zenon DEF queues
  <2>2. \A u \in Threads \ {t} : filp'[u] = filp[u]
    BY <1>2, Zenon
  <2>3. arg[t] # NULL => filp'[t] = filp[t]
    BY <1>2, Zenon DEF WrittenFrame
  <2>4. \A u \in Threads : pc'[u] = "read_copy" <=> pc[u] = "read_copy"
    BY <1>2, Zenon DEF Woken
  <2> QED BY <2>1, <2>2, <2>3, <2>4, LinkStable, Zenon
<1> QED BY <1>1, <1>2, Zenon

\* Taking the first entry of the card's queue is the step Take.
LEMMA ReadGetLink ==
  ASSUME OwnInv, NEW t \in Threads, read_get(t)
  PROVE  UNCHANGED Link!vars \/ \E d \in Link!Cards : Link!Take(t, d)
<1> USE DEF OwnInv, TypeInv, TypeOK
<1>1. CASE Oops
  BY <1>1, OopsLink, Zenon
<1>2. CASE ~ Oops /\ dmx512_framequeue_isempty(rxframequeue[filp[t].dev])
  <2>1. /\ UNCHANGED << rxframequeue, frame, held, arg, filp >>
        /\ pc' = [pc EXCEPT ![t] = "open"]
        /\ pc[t] = "read_get"
    BY <1>2, Zenon DEF read_get
  <2> QED BY <2>1, LinkStable, Zenon
<1>3. CASE ~ Oops /\ ~ dmx512_framequeue_isempty(rxframequeue[filp[t].dev])
  <2> DEFINE d == filp[t].dev
             q == rxframequeue[d]
             e == dmx512_framequeue_front(q)
             r == dmx512_framequeue_get(q)
  <2>1. /\ UNCHANGED << frame, arg, filp >>
        /\ held' = [held EXCEPT ![t] = e]
        /\ rxframequeue' = [rxframequeue EXCEPT ![d] = r]
        /\ pc' = [pc EXCEPT ![t] = "read_copy"]
    BY <1>3, Zenon DEF read_get
  <2>2. d \in Devices /\ q \in Seq(Frames)
    BY Zenon DEF FileRefs
  <2>3. /\ Contents(frame, q) # << >>
        /\ Head(Contents(frame, q)) = frame[e]
        /\ Tail(Contents(frame, q)) = Contents(frame, r)
    BY <1>3, <2>2, GetContents, Zenon
  <2>4. LinkOut' = LinkOut
    BY <2>1, Zenon DEF LinkOut
  <2> HIDE DEF e, r
  <2>5. LinkChan' = [LinkChan EXCEPT ![d] = Tail(@)] /\ LinkChan[d] # << >>
    BY <2>1, <2>2, <2>3, Zenon DEF LinkChan
  <2>6. LinkIn' = [LinkIn EXCEPT ![t] = frame[e]]
    BY <2>1, Zenon DEF LinkIn
  <2>7. frame[e] = Head(LinkChan[d])
    BY <2>2, <2>3, Zenon DEF LinkChan
  <2>8. Link!Take(t, d)
    BY <2>4, <2>5, <2>6, <2>7, Zenon DEF Link!Take
  <2> QED BY <2>2, <2>8, Zenon DEF Link!Cards, Devices
<1> QED BY <1>1, <1>2, <1>3, Zenon

\* copy_to_user, after which the entry is back in the pool, is Return.
LEMMA ReadCopyLink ==
  ASSUME OwnInv, NEW t \in Threads, read_copy(t)
  PROVE  Link!Return(t)
<1> USE DEF OwnInv, TypeInv, TypeOK
<1>1. /\ UNCHANGED << rxframequeue, frame, arg, filp >>
      /\ held' = [held EXCEPT ![t] = NULL]
      /\ pc' = [pc EXCEPT ![t] = "open"]
  BY Zenon DEF read_copy, PutFree
<1>2. LinkChan' = LinkChan /\ LinkOut' = LinkOut
  BY <1>1, Zenon DEF LinkChan, LinkOut
<1>3. LinkIn' = [LinkIn EXCEPT ![t] = NULL]
  BY <1>1, Zenon DEF LinkIn
<1> QED BY <1>2, <1>3, Zenon DEF Link!Return

\* A refused write gives its entry back: nothing moves on the link.
LEMMA PutbackLink ==
  ASSUME OwnInv, NEW t \in Threads, write_putback(t)
  PROVE  UNCHANGED Link!vars
<1> USE DEF OwnInv, TypeInv, TypeOK
<1>1. /\ UNCHANGED << rxframequeue, frame, arg, filp >>
      /\ held' = [held EXCEPT ![t] = NULL]
      /\ pc' = [pc EXCEPT ![t] = "open"]
      /\ pc[t] = "write_putback"
  BY Zenon DEF write_putback, PutFree
<1>2. LinkChan' = LinkChan /\ LinkOut' = LinkOut
  BY <1>1, Zenon DEF LinkChan, LinkOut
<1>3. LinkIn' = LinkIn
  BY <1>1, Zenon DEF LinkIn
<1> QED BY <1>2, <1>3, Zenon DEF Link!vars

\* copy_from_user into an entry of the pool is Submit: the entry is in no
\* queue and no reader holds it, so no frame on its way changes.
LEMMA WriteLink ==
  ASSUME OwnInv, NEW t \in Threads, dmx512_device_write(t)
  PROVE  \/ UNCHANGED Link!vars
         \/ \E d \in Link!Cards, m \in Messages : Link!Submit(t, d, m)
<1> USE DEF OwnInv, TypeInv, TypeOK
<1> DEFINE e == dmx512_framequeue_front(free_framequeue)
<1>1. /\ UNCHANGED << rxframequeue, filp >>
      /\ held' = [held EXCEPT ![t] = e]
      /\ pc[t] = "open"
      /\ ~ dmx512_framequeue_isempty(free_framequeue)
  BY Zenon DEF dmx512_device_write
<1>2. e \in Frames /\ e \in Entries(free_framequeue) /\ e # NULL
  <2>1. free_framequeue \in Seq(Frames)
    BY Zenon
  <2>2. e \in Frames /\ e \in Entries(free_framequeue)
    BY <1>1, <2>1, GetEntries, Zenon
  <2> QED BY <2>2, NullAssumption, Zenon
<1>3. arg[t] = NULL
  BY <1>1, Zenon DEF WrittenFrame
<1>4. CASE /\ pc' = [pc EXCEPT ![t] = "write_putback"]
           /\ UNCHANGED << frame, arg >>
  <2> HIDE DEF e
  <2>1. LinkChan' = LinkChan /\ LinkOut' = LinkOut
    BY <1>1, <1>4, Zenon DEF LinkChan, LinkOut
  <2>2. LinkIn' = LinkIn
    BY <1>1, <1>4, Zenon DEF LinkIn
  <2> QED BY <2>1, <2>2, Zenon DEF Link!vars
<1>5. ASSUME NEW m \in Messages,
             frame' = [frame EXCEPT ![e] = m],
             arg' = [arg EXCEPT ![t] = m],
             pc' = [pc EXCEPT ![t] = "write_port"]
      PROVE  \E d \in Link!Cards : Link!Submit(t, d, m)
  <2> HIDE DEF e
  <2>1. \A d \in Devices :
          Contents(frame', rxframequeue[d]) = Contents(frame, rxframequeue[d])
    <3> TAKE d \in Devices
    <3>1. e \notin Entries(rxframequeue[d])
      BY <1>2, Zenon DEF FrameOwnership
    <3>2. Entries(rxframequeue[d]) \subseteq Frames
      BY EntriesSubset, Zenon
    <3>3. \A x \in Entries(rxframequeue[d]) : frame'[x] = frame[x]
      BY <1>5, <3>1, <3>2, Zenon
    <3> QED BY <3>3, ContentsOfEntries, Zenon
  <2>2. LinkChan' = LinkChan
    BY <1>1, <2>1, Zenon DEF LinkChan
  <2>3. LinkIn' = LinkIn
    <3>1. \A u \in Threads : held[u] # NULL => held[u] # e
      BY <1>2, Zenon DEF FrameOwnership
    <3>2. \A u \in Threads : pc[u] = "read_copy" =>
            held[u] # NULL /\ held[u] \in Frames
      BY Zenon
    <3>3. \A u \in Threads : pc[u] = "read_copy" =>
            frame'[held'[u]] = frame[held[u]]
      BY <1>1, <1>5, <3>1, <3>2, Zenon
    <3>4. \A u \in Threads : pc'[u] = "read_copy" <=> pc[u] = "read_copy"
      BY <1>1, <1>5, Zenon
    <3> QED BY <3>3, <3>4, Zenon DEF LinkIn
  <2>4. m # NULL
    BY NullAssumption, Zenon DEF Messages
  <2>5. LinkOut[t] = {}
    BY <1>3, Zenon DEF LinkOut
  <2>6. LinkOut' = [LinkOut EXCEPT ![t] = {[card |-> filp[t].dev, msg |-> m]}]
    BY <1>1, <1>5, <2>4, Zenon DEF LinkOut
  <2>7. filp[t].dev \in Link!Cards
    BY Zenon DEF FileRefs, Devices, Link!Cards
  <2> QED BY <2>2, <2>3, <2>5, <2>6, <2>7, Zenon DEF Link!Submit
<1> QED BY <1>4, <1>5, Zenon DEF dmx512_device_write

\* A step after which the thread has no frame to write any more, and that
\* queues nothing, is Refuse.
LEMMA RefuseLink ==
  ASSUME OwnInv, NEW t \in Threads,
         UNCHANGED << rxframequeue, frame, filp >>,
         arg' = [arg EXCEPT ![t] = NULL],
         \A u \in Threads \ {t} : pc'[u] = pc[u] /\ held'[u] = held[u],
         pc[t] # "read_copy", pc'[t] # "read_copy"
  PROVE  Link!Refuse(t)
<1> USE DEF OwnInv, TypeInv, TypeOK
<1>1. LinkChan' = LinkChan
  BY Zenon DEF LinkChan
<1>2. LinkIn' = LinkIn
  BY Zenon DEF LinkIn
<1>3. LinkOut' = [LinkOut EXCEPT ![t] = {}]
  BY Zenon DEF LinkOut
<1> QED BY <1>1, <1>2, <1>3, Zenon DEF Link!Refuse

\* Looking up the port: the frame is refused when there is none.
LEMMA WritePortLink ==
  ASSUME OwnInv, NEW t \in Threads, write_port(t)
  PROVE  UNCHANGED Link!vars \/ Link!Refuse(t)
<1> USE DEF OwnInv, TypeInv, TypeOK
<1>1. CASE Oops
  BY <1>1, OopsLink, Zenon
<1>2. CASE ~ Oops /\ dmx512_port_by_index(filp[t].dev, frame[held[t]].port)
  <2>1. /\ UNCHANGED << rxframequeue, frame, held, arg, filp >>
        /\ pc' = [pc EXCEPT ![t] = "send_frame"]
        /\ pc[t] = "write_port"
    BY <1>2, Zenon DEF write_port, queues
  <2> QED BY <2>1, LinkStable, Zenon
<1>3. CASE ~ Oops /\ ~ dmx512_port_by_index(filp[t].dev, frame[held[t]].port)
  <2>1. /\ UNCHANGED << rxframequeue, frame, held, filp >>
        /\ arg' = [arg EXCEPT ![t] = NULL]
        /\ pc' = [pc EXCEPT ![t] = "write_putback"]
        /\ pc[t] = "write_port"
    BY <1>3, Zenon DEF write_port, queues
  <2> QED BY <2>1, RefuseLink, Zenon
<1> QED BY <1>1, <1>2, <1>3, Zenon

\* The dummy driver's send_frame loses the frame in an unconnected port or
\* hands it to the other card with the port number it already has.
LEMMA SendLink ==
  ASSUME OwnInv, NEW t \in Threads, dmx512_dummy_send_frame(t)
  PROVE  UNCHANGED Link!vars \/ Link!Refuse(t)
<1> USE DEF OwnInv, TypeInv, TypeOK
<1> DEFINE h == held[t]
           i == frame[h].port
<1>1. CASE Oops
  BY <1>1, OopsLink, Zenon
<1>2. CASE ~ Oops /\ ~ IsConnected(filp[t].dev, i)
  <2>1. /\ UNCHANGED << rxframequeue, frame, filp >>
        /\ held' = [held EXCEPT ![t] = NULL]
        /\ arg' = [arg EXCEPT ![t] = NULL]
        /\ pc' = [pc EXCEPT ![t] = "open"]
        /\ pc[t] = "send_frame"
    BY <1>2, Zenon DEF dmx512_dummy_send_frame, queues
  <2> QED BY <2>1, RefuseLink, Zenon
<1>3. CASE ~ Oops /\ IsConnected(filp[t].dev, i)
  <2>1. /\ UNCHANGED << rxframequeue, filp, held, arg >>
        /\ frame' = [frame EXCEPT ![h].port = i]
        /\ pc' = [pc EXCEPT ![t] = "rx_put"]
        /\ pc[t] = "send_frame"
    BY <1>3, Zenon DEF dmx512_dummy_send_frame, dmx512_received_frame
  <2>2. h \in Frames /\ frame[h] \in Messages
    BY <2>1, Zenon DEF WrittenFrame
  <2>3. [frame[h] EXCEPT !.port = i] = frame[h]
    BY <2>2, Zenon DEF Messages
  <2>4. frame' = [frame EXCEPT ![h] = frame[h]]
    BY <2>1, <2>3, Zenon
  <2>5. frame' = frame
    BY <2>2, <2>4, Zenon
  <2> QED BY <2>1, <2>5, LinkStable, Zenon
<1> QED BY <1>1, <1>2, <1>3, Zenon

\* Queueing the entry on the other card is Deliver.
LEMMA RxPutLink ==
  ASSUME OwnInv, NEW t \in Threads, received_frame_put(t, Peer(filp[t].dev))
  PROVE  UNCHANGED Link!vars \/ Link!Deliver(t)
<1> USE DEF OwnInv, TypeInv, TypeOK
<1>1. CASE Oops
  BY <1>1, OopsLink, Zenon
<1>2. CASE ~ Oops
  <2> DEFINE d == Peer(filp[t].dev)
             e == held[t]
             q == rxframequeue[d]
             p == dmx512_framequeue_put(q, e)
  <2>1. /\ UNCHANGED << frame, filp >>
        /\ rxframequeue' = [rxframequeue EXCEPT ![d] = p]
        /\ held' = [held EXCEPT ![t] = NULL]
        /\ arg' = [arg EXCEPT ![t] = NULL]
        /\ pc' = [pc EXCEPT ![t] = "rx_wake"]
        /\ pc[t] = "rx_put"
    BY <1>2, Zenon DEF received_frame_put
  <2>2. d \in Devices /\ d = Link!Other(filp[t].dev)
    <3>1. filp[t].dev \in {0, 1}
      BY Zenon DEF FileRefs, Devices
    <3> HIDE DEF OwnInv
    <3> QED BY <3>1 DEF Peer, Devices, Link!Other
  <2>3. e \in Frames /\ q \in Seq(Frames)
    BY <2>1, <2>2, Zenon
  <2>4. arg[t] # NULL /\ frame[e] = arg[t]
    BY <2>1, Zenon DEF WrittenFrame
  <2>5. Contents(frame, p) = Append(Contents(frame, q), arg[t])
    BY <2>3, <2>4, PutContents
  <2> HIDE DEF p, d
  <2>6. LinkChan' = [LinkChan EXCEPT ![d] = Append(@, arg[t])]
    BY <2>1, <2>2, <2>5, Zenon DEF LinkChan
  <2>7. LinkOut[t] = {[card |-> filp[t].dev, msg |-> arg[t]]}
    BY <2>4, Zenon DEF LinkOut
  <2>8. LinkOut' = [LinkOut EXCEPT ![t] = {}]
    BY <2>1, Zenon DEF LinkOut
  <2>9. LinkIn' = LinkIn
    BY <2>1, Zenon DEF LinkIn
  <2> QED BY <2>2, <2>6, <2>7, <2>8, <2>9 DEF Link!Deliver
<1> QED BY <1>1, <1>2, Zenon

\* Loading and unloading the driver move no frame but may lose a card's
\* backlog.
LEMMA DriverLink ==
  ASSUME OwnInv, Driver
  PROVE  UNCHANGED Link!vars \/ \E d \in Link!Cards : Link!Flush(d)
<1> USE DEF OwnInv, TypeInv, TypeOK
<1>1. CASE Oops
  BY <1>1, OopsLink, Zenon
<1>2. CASE ~ Oops
  <2> USE DEF Driver, create_card0, create_port, create_card1, init_abort,
        connect_ports, dmx512_dummy_driver_exit, dmx512_core_exit,
        register_dmx512_device, register_dmx512_device_fails, dmx512_add_port,
        unregister_wake,
        unregister_dmx512_device, dmx512_delete_device
  <2>1. UNCHANGED << frame, filp, held, arg >>
    BY <1>2, Zenon DEF queues, threads
  <2>2. \A u \in Threads : pc'[u] = "read_copy" <=> pc[u] = "read_copy"
    BY <1>2, Zenon DEF threads, Woken
  <2>3. \/ UNCHANGED rxframequeue
        \/ \E d \in Devices : rxframequeue' = [rxframequeue EXCEPT ![d] = << >>]
    BY <1>2, Zenon DEF queues, Devices, dmx512_framequeue_init,
                dmx512_framequeue_cleanup
  <2>4. CASE UNCHANGED rxframequeue
    BY <2>1, <2>2, <2>4, LinkStable, Zenon
  <2>5. ASSUME NEW d \in Devices, rxframequeue' = [rxframequeue EXCEPT ![d] = << >>]
        PROVE  Link!Flush(d)
    <3>1. LinkChan' = [LinkChan EXCEPT ![d] = << >>]
      BY <2>1, <2>5, EmptyContents, Zenon DEF LinkChan
    <3>2. LinkOut' = LinkOut /\ LinkIn' = LinkIn
      BY <2>1, <2>2, Zenon DEF LinkOut, LinkIn
    <3> QED BY <3>1, <3>2, Zenon DEF Link!Flush
  <2> QED BY <2>3, <2>4, <2>5, Zenon DEF Link!Cards, Devices
<1> QED BY <1>1, <1>2, Zenon

\* Every step of the driver, the core and the threads is a step of the link
\* or leaves it alone.
LEMMA NextLink ==
  ASSUME OwnInv, [Next]_vars
  PROVE  [Link!Next]_(Link!vars)
<1>1. CASE UNCHANGED vars
  BY <1>1, LinkStable, Zenon DEF vars, queues, threads
<1>2. CASE Driver
  BY <1>2, DriverLink, Zenon DEF Link!Next
<1>3. ASSUME NEW t \in Threads, Thread(t)
      PROVE  [Link!Next]_(Link!vars)
  <2>1. CASE \/ dmx512_device_open(t) \/ dmx512_device_release(t)
             \/ dmx512_device_read(t) \/ read_wait(t) \/ read_signal(t)
             \/ received_frame_wake(t, Peer(filp[t].dev))
    BY <2>1, IdleLink, Zenon
  <2>2. CASE read_get(t)
    BY <2>2, ReadGetLink, Zenon DEF Link!Next
  <2>3. CASE read_copy(t)
    BY <2>3, ReadCopyLink, Zenon DEF Link!Next
  <2>4. CASE write_putback(t)
    BY <2>4, PutbackLink, Zenon
  <2>5. CASE dmx512_device_write(t)
    BY <2>5, WriteLink, Zenon DEF Link!Next
  <2>6. CASE write_port(t)
    BY <2>6, WritePortLink, Zenon DEF Link!Next
  <2>7. CASE dmx512_dummy_send_frame(t)
    BY <2>7, SendLink, Zenon DEF Link!Next
  <2>8. CASE received_frame_put(t, Peer(filp[t].dev))
    BY <2>8, RxPutLink, Zenon DEF Link!Next
  <2> QED BY <1>3, <2>1, <2>2, <2>3, <2>4, <2>5, <2>6, <2>7, <2>8, Zenon
          DEF Thread, FileOperation
<1> QED BY <1>1, <1>2, <1>3, Zenon DEF Next

\* What a reader gets from a card is what one writer passed to write on the
\* other card: every frame once, unaltered, with its port number, in the
\* order in which the frames were queued.
THEOREM CardsAreFifoChannels == Spec => ImplementsLink
BY InitOwn, NextOwn, InitLink, NextLink, PTL DEF Spec, ImplementsLink, Link!Spec

=============================================================================
