------------------------------- MODULE CuseDev -------------------------------
(***************************************************************************)
(* The CUSE core (cuse-drivers/dmx512_cuse_dev.c): the dmx4linux2 file     *)
(* interface served from user space.  One thread serves the requests of    *)
(* all cards (fuse_multisession_loop), so a handler runs to its end before *)
(* the next request is looked at.  The only calls that outlive their       *)
(* handler are a blocking read, parked in its context, and a poll that     *)
(* sleeps in the kernel until fuse_notify_poll.                            *)
(*                                                                         *)
(* Handing a received frame to the contexts of a card is a loop over them; *)
(* each turn of the loop is one step (handle_context), and while jobs are  *)
(* left the server does nothing else.  Card drivers are modules of their   *)
(* own: see CuseCards.                                                     *)
(*                                                                         *)
(* A behaviour starts with one of the Setups: the driver, the threads that *)
(* call, the files they may open and the contents they write.              *)
(*                                                                         *)
(* External, from libfuse and the kernel: requests arrive on open files    *)
(* only; release arrives after every call on the file has returned; a      *)
(* signal makes fuse_req_interrupted true but returns a read only when the *)
(* server replies.                                                         *)
(***************************************************************************)
EXTENDS FrameQueue

CONSTANTS
  NumCards,     \* cards (FUSE sessions) of the server process
  ContextCount, \* DMX512_CUSE_CONTEXT_COUNT (32)
  PoolSize,     \* entries allocated by dmx512_core_init (32*32*2*4)
  Threads,      \* threads of client programs
  Ports,        \* port numbers that occur in frames
  Masks,        \* port filters that clients set: sets of bit numbers
  Data,         \* frame contents other than port and flags
  Setups,       \* what a behaviour may start with: see Setup
  NULL

Frames == 1..PoolSize
Cards == 0..(NumCards - 1)
Contexts == 0..(ContextCount - 1)
Handles == Cards \X Contexts
Messages == [port : Ports, tx : BOOLEAN, data : Data]

Setup ==
  [driver  : {"loop", "wire"},
   clients : SUBSET Threads,
   files   : SUBSET Handles,
   data    : SUBSET Data]

ASSUME CardAssumption == NumCards \in Nat \ {0}
ASSUME ContextAssumption == ContextCount \in Nat \ {0}
ASSUME PoolAssumption == PoolSize \in Nat
ASSUME PortAssumption == Ports \subseteq Nat
ASSUME MaskAssumption == Masks \subseteq SUBSET (0..63)
ASSUME SetupAssumption ==
  /\ Setups \subseteq Setup
  /\ \A s \in Setups : s.driver = "loop" => NumCards = 2
ASSUME NullAssumption ==
  /\ NULL \notin Frames
  /\ NULL \notin Threads
  /\ NULL \notin Handles
  /\ NULL \notin Messages

VARIABLES
  setup,           \* one of Setups, never changed
  free_framequeue, \* the pool of frame entries of all cards
  frame,           \* frame[e]: the frame in entry e
  in_use,          \* the fields of struct dmx512_cuse_context, by handle
  nonblocking,
  port_mask,
  port_txmask,
  read_req,        \* the thread whose read is parked here, or NULL
  pollhandle,      \* a poll handle is registered
  framequeue,
  jobs,            \* the calls of handle_received_frame still to be made
  reading,         \* reading[t]: the file t's read waits on, or NULL
  polling,         \* polling[t]: the file t's poll sleeps on, or NULL
  interrupted,     \* the threads whose read got a signal
  got,             \* got[t]: the frame t's last read returned, or NULL
  server,          \* "running", "teardown" or "exited"
  destroyed        \* how many sessions have been torn down

pool == << free_framequeue, frame >>
filters == << port_mask, port_txmask >>
context == << in_use, nonblocking, filters, read_req, pollhandle,
              framequeue >>
client == << reading, polling, interrupted, got >>
loop == << setup, jobs, server, destroyed >>
vars == << pool, context, client, loop >>

dmx512_core_init ==
  /\ free_framequeue = [i \in 1..PoolSize |-> i]
  /\ frame = [e \in Frames |-> NULL]

\* dmx512_cuse_create_session clears both cards.
Init ==
  /\ setup \in Setups
  /\ dmx512_core_init
  /\ in_use = [h \in Handles |-> FALSE]
  /\ nonblocking = [h \in Handles |-> FALSE]
  /\ port_mask = [h \in Handles |-> {}]
  /\ port_txmask = [h \in Handles |-> {}]
  /\ read_req = [h \in Handles |-> NULL]
  /\ pollhandle = [h \in Handles |-> FALSE]
  /\ framequeue = [h \in Handles |-> dmx512_framequeue_init]
  /\ jobs = << >>
  /\ reading = [t \in Threads |-> NULL]
  /\ polling = [t \in Threads |-> NULL]
  /\ interrupted = {}
  /\ got = [t \in Threads |-> NULL]
  /\ server = "running"
  /\ destroyed = 0

Idle == server = "running" /\ jobs = << >>

\* A thread makes one call at a time.
Free(t) == reading[t] = NULL /\ polling[t] = NULL

-----------------------------------------------------------------------------
(* dmx512_cuse_handle_received_frame                                       *)

\* The bits set in 1 << port, widened from int to unsigned long long: bit 31
\* is the sign and is extended.  Shifting by 32 or more is undefined: the
\* processor shifts by port % 32 or yields 0.
SignExtended(n) == IF n = 31 THEN 31..63 ELSE {n}

ShiftOutcomes(port) ==
  IF port < 32 THEN {SignExtended(port)} ELSE {SignExtended(port % 32), {}}

Selects(h, m, bits) ==
  /\ m.port < 64
  /\ (IF m.tx THEN port_txmask[h] ELSE port_mask[h]) \intersect bits # {}

\* The read parked in a context, unless a signal interrupted it.
LiveRead(h) ==
  IF read_req[h] \in interrupted THEN NULL ELSE read_req[h]

\* The first job has been done for one context; the last one ends the job.
NextContext ==
  LET j == Head(jobs) IN
    IF j.index + 1 < ContextCount
    THEN << [j EXCEPT !.index = @ + 1] >> \o Tail(jobs)
    ELSE Tail(jobs)

\* The frame is not for this context: a parked read that was interrupted is
\* answered with EINTR all the same.  A frame that finds neither a read nor
\* a poll handle is dropped.
skip_context(h) ==
  /\ read_req' = [read_req EXCEPT ![h] = LiveRead(h)]
  /\ reading' = [t \in Threads |->
                   IF t = read_req[h] /\ t \in interrupted
                   THEN NULL ELSE reading[t]]
  /\ interrupted' = interrupted \ {read_req[h]}
  /\ UNCHANGED << pool, in_use, nonblocking, filters, pollhandle,
                  framequeue, polling, got >>

answer_read(h, m) ==
  LET t == LiveRead(h) IN
    /\ t # NULL
    /\ read_req' = [read_req EXCEPT ![h] = NULL]
    /\ reading' = [reading EXCEPT ![t] = NULL]
    /\ got' = [got EXCEPT ![t] = m]
    /\ UNCHANGED << pool, in_use, nonblocking, filters, pollhandle,
                    framequeue, polling, interrupted >>

\* Mutation: fuse_notify_poll is missing.
queue_frame_silent(h, m) ==
  /\ LiveRead(h) = NULL
  /\ pollhandle[h]
  /\ ~ dmx512_framequeue_isempty(free_framequeue)
  /\ LET e == dmx512_framequeue_front(free_framequeue) IN
       /\ free_framequeue' = dmx512_framequeue_get(free_framequeue)
       /\ frame' = [frame EXCEPT ![e] = m]
       /\ framequeue' = [framequeue EXCEPT ![h] = dmx512_framequeue_put(@, e)]
  /\ UNCHANGED << in_use, nonblocking, filters, read_req, pollhandle, reading,
                  polling, interrupted, got >>

\* Queue a copy if the pool has an entry left, and notify in any case: the
\* kernel wakes every poll on the file.
queue_frame(h, m) ==
  /\ LiveRead(h) = NULL
  /\ pollhandle[h]
  /\ \/ /\ ~ dmx512_framequeue_isempty(free_framequeue)
        /\ LET e == dmx512_framequeue_front(free_framequeue) IN
             /\ free_framequeue' = dmx512_framequeue_get(free_framequeue)
             /\ frame' = [frame EXCEPT ![e] = m]
             /\ framequeue' =
                  [framequeue EXCEPT ![h] = dmx512_framequeue_put(@, e)]
     \/ /\ dmx512_framequeue_isempty(free_framequeue)
        /\ UNCHANGED << pool, framequeue >>
  /\ polling' = [t \in Threads |->
                   IF polling[t] = h THEN NULL ELSE polling[t]]
  /\ read_req' = [read_req EXCEPT ![h] = NULL]
  /\ reading' = [t \in Threads |->
                   IF t = read_req[h] THEN NULL ELSE reading[t]]
  /\ interrupted' = interrupted \ {read_req[h]}
  /\ UNCHANGED << in_use, nonblocking, filters, pollhandle, got >>

\* One turn of the loop over the contexts.
handle_context ==
  /\ jobs # << >>
  /\ LET j == Head(jobs)
         h == << j.card, j.index >>
     IN \E bits \in ShiftOutcomes(j.msg.port) :
          LET selected == in_use[h] /\ Selects(h, j.msg, bits) IN
            \/ selected /\ answer_read(h, j.msg)
            \/ selected /\ queue_frame(h, j.msg)
            \/ /\ ~ selected \/ (LiveRead(h) = NULL /\ ~ pollhandle[h])
               /\ skip_context(h)
  /\ jobs' = NextContext
  /\ UNCHANGED << setup, server, destroyed >>

\* A call of dmx512_cuse_handle_received_frame(card, frame).
Job(c, m) == [card |-> c, msg |-> m, index |-> 0]

-----------------------------------------------------------------------------
(* The request handlers.                                                   *)

\* The first context that is not in use is cleared; with none, ENOMEM.
\* bzero forgets whatever the last user of the context left in it.
dmx512_cuse_open ==
  /\ Idle
  /\ \E h \in setup.files, nb \in BOOLEAN :
       /\ ~ in_use[h]
       /\ \A i \in Contexts : i < h[2] => in_use[<< h[1], i >>]
       /\ in_use' = [in_use EXCEPT ![h] = TRUE]
       /\ nonblocking' = [nonblocking EXCEPT ![h] = nb]
       /\ port_mask' = [port_mask EXCEPT ![h] = {}]
       /\ port_txmask' = [port_txmask EXCEPT ![h] = {}]
       /\ read_req' = [read_req EXCEPT ![h] = NULL]
       /\ pollhandle' = [pollhandle EXCEPT ![h] = FALSE]
       /\ framequeue' = [framequeue EXCEPT ![h] = dmx512_framequeue_init]
  /\ UNCHANGED << pool, client, loop >>

\* The unread entries are freed: they do not return to the pool.
dmx512_cuse_release ==
  /\ Idle
  /\ \E h \in Handles :
       /\ in_use[h]
       /\ \A t \in Threads : reading[t] # h /\ polling[t] # h
       /\ in_use' = [in_use EXCEPT ![h] = FALSE]
       /\ port_mask' = [port_mask EXCEPT ![h] = {}]
       /\ framequeue' =
            [framequeue EXCEPT ![h] = dmx512_framequeue_cleanup(@)]
  /\ UNCHANGED << pool, nonblocking, port_txmask, read_req, pollhandle,
                  client, loop >>

\* Mutation: the entry is given back to the pool but stays queued.
read_queued_linked(t, h) ==
  /\ ~ dmx512_framequeue_isempty(framequeue[h])
  /\ LET e == dmx512_framequeue_front(framequeue[h]) IN
       /\ got' = [got EXCEPT ![t] = frame[e]]
       /\ free_framequeue' = dmx512_framequeue_put(free_framequeue, e)
  /\ UNCHANGED << frame, framequeue, read_req, reading, interrupted >>

\* Mutation: the entry is not given back to the pool.
read_queued_leak(t, h) ==
  /\ ~ dmx512_framequeue_isempty(framequeue[h])
  /\ got' = [got EXCEPT ![t] = frame[dmx512_framequeue_front(framequeue[h])]]
  /\ framequeue' = [framequeue EXCEPT ![h] = dmx512_framequeue_get(@)]
  /\ UNCHANGED << pool, read_req, reading, interrupted >>

\* A queued frame answers the read at once.
read_queued(t, h) ==
  /\ ~ dmx512_framequeue_isempty(framequeue[h])
  /\ LET e == dmx512_framequeue_front(framequeue[h]) IN
       /\ got' = [got EXCEPT ![t] = frame[e]]
       /\ free_framequeue' = dmx512_framequeue_put(free_framequeue, e)
  /\ framequeue' =
       [framequeue EXCEPT ![h] = dmx512_framequeue_get(@)]
  /\ UNCHANGED << frame, read_req, reading, interrupted >>

\* Without one, a nonblocking read returns nothing.
read_nothing(t, h) ==
  /\ dmx512_framequeue_isempty(framequeue[h])
  /\ nonblocking[h]
  /\ got' = [got EXCEPT ![t] = NULL]
  /\ UNCHANGED << pool, framequeue, read_req, reading, interrupted >>

\* A blocking read is parked; one that was parked before gets EINTR.
read_park(t, h) ==
  /\ dmx512_framequeue_isempty(framequeue[h])
  /\ ~ nonblocking[h]
  /\ read_req' = [read_req EXCEPT ![h] = t]
  /\ reading' = [u \in Threads |->
                   CASE u = t -> h
                     [] u # t /\ u = read_req[h] -> NULL
                     [] OTHER -> reading[u]]
  /\ interrupted' = interrupted \ {read_req[h]}
  /\ got' = [got EXCEPT ![t] = NULL]
  /\ UNCHANGED << pool, framequeue >>

dmx512_cuse_read ==
  /\ Idle
  /\ \E t \in setup.clients, h \in setup.files :
       /\ Free(t)
       /\ in_use[h]
       /\ read_queued(t, h) \/ read_nothing(t, h) \/ read_park(t, h)
  /\ UNCHANGED << in_use, nonblocking, filters, pollhandle, polling, loop >>

\* The two ioctls that change state.
SET_PORT_FILTER ==
  /\ Idle
  /\ \E h \in Handles, mask \in Masks :
       /\ in_use[h]
       /\ port_mask' = [port_mask EXCEPT ![h] = mask]
  /\ UNCHANGED << pool, in_use, nonblocking, port_txmask, read_req,
                  pollhandle, framequeue, client, loop >>

SET_PORT_TXFILTER ==
  /\ Idle
  /\ \E h \in Handles, mask \in Masks :
       /\ in_use[h]
       /\ port_txmask' = [port_txmask EXCEPT ![h] = mask]
  /\ UNCHANGED << pool, in_use, nonblocking, port_mask, read_req,
                  pollhandle, framequeue, client, loop >>

\* The new handle replaces the old one.  The poll sleeps when nothing is
\* queued.
dmx512_cuse_poll ==
  /\ Idle
  /\ \E t \in setup.clients, h \in setup.files :
       /\ Free(t)
       /\ in_use[h]
       /\ pollhandle' = [pollhandle EXCEPT ![h] = TRUE]
       /\ polling' = [polling EXCEPT ![t] =
                        IF dmx512_framequeue_isempty(framequeue[h])
                        THEN h ELSE NULL]
  /\ UNCHANGED << pool, in_use, nonblocking, filters, read_req, framequeue,
                  reading, interrupted, got, loop >>

\* The session loop ends; dmx512_cuse_destroy runs for one card after the
\* other and answers the reads parked there.
stop ==
  /\ Idle
  /\ server' = "teardown"
  /\ UNCHANGED << pool, context, client, setup, jobs, destroyed >>

dmx512_cuse_destroy ==
  /\ server = "teardown"
  /\ destroyed < NumCards
  /\ LET parked == {read_req[<< destroyed, i >>] : i \in Contexts} IN
       /\ reading' = [t \in Threads |->
                        IF t \in parked THEN NULL ELSE reading[t]]
       /\ interrupted' = interrupted \ parked
  /\ read_req' = [h \in Handles |->
                    IF h[1] = destroyed THEN NULL ELSE read_req[h]]
  /\ destroyed' = destroyed + 1
  /\ UNCHANGED << pool, in_use, nonblocking, filters, pollhandle,
                  framequeue, polling, got, setup, jobs, server >>

dmx512_core_exit ==
  /\ server = "teardown"
  /\ destroyed = NumCards
  /\ server' = "exited"
  /\ free_framequeue' = dmx512_framequeue_cleanup(free_framequeue)
  /\ UNCHANGED << frame, context, client, setup, jobs, destroyed >>

-----------------------------------------------------------------------------
(* The clients.                                                            *)

\* FUSE_INTERRUPT is a request of its own, taken by the session loop.
interrupt ==
  /\ Idle
  /\ \E t \in Threads :
       /\ reading[t] # NULL
       /\ interrupted' = interrupted \union {t}
  /\ UNCHANGED << pool, context, reading, polling, got, loop >>

\* A sleeping poll times out, or is ended by a signal.
poll_timeout ==
  /\ \E t \in Threads :
       /\ polling[t] # NULL
       /\ polling' = [polling EXCEPT ![t] = NULL]
  /\ UNCHANGED << pool, context, reading, interrupted, got, loop >>

Core ==
  \/ handle_context
  \/ dmx512_cuse_open
  \/ dmx512_cuse_release
  \/ dmx512_cuse_read
  \/ SET_PORT_FILTER
  \/ SET_PORT_TXFILTER
  \/ dmx512_cuse_poll
  \/ stop
  \/ dmx512_cuse_destroy
  \/ dmx512_core_exit
  \/ interrupt
  \/ poll_timeout

-----------------------------------------------------------------------------
(* Properties                                                              *)

\* Every variable has its type.
TypeOK ==
  /\ setup \in Setups
  /\ free_framequeue \in Seq(Frames)
  /\ frame \in [Frames -> Messages \union {NULL}]
  /\ in_use \in [Handles -> BOOLEAN]
  /\ nonblocking \in [Handles -> BOOLEAN]
  /\ port_mask \in [Handles -> SUBSET (0..63)]
  /\ port_txmask \in [Handles -> SUBSET (0..63)]
  /\ read_req \in [Handles -> Threads \union {NULL}]
  /\ pollhandle \in [Handles -> BOOLEAN]
  /\ framequeue \in [Handles -> Seq(Frames)]
  /\ jobs \in Seq([card : Cards, msg : Messages, index : Contexts])
  /\ reading \in [Threads -> Handles \union {NULL}]
  /\ polling \in [Threads -> Handles \union {NULL}]
  /\ interrupted \in SUBSET Threads
  /\ got \in [Threads -> Messages \union {NULL}]
  /\ server \in {"running", "teardown", "exited"}
  /\ destroyed \in 0..NumCards

\* Every read that waits is parked in the context of its file, and every
\* parked request belongs to a read that still waits: no request is answered
\* twice, and none is forgotten by a second read, a release, the bzero of an
\* open, or the end of the server.
EveryReadParkedOnce ==
  \A t \in Threads, h \in Handles : read_req[h] = t <=> reading[t] = h

\* A read waits only while nothing is queued on its file, although frames are
\* queued and taken by different handlers.
ParkedReadMeansEmpty ==
  \A h \in Handles :
    read_req[h] # NULL => dmx512_framequeue_isempty(framequeue[h])

\* A poll sleeps only while nothing is queued on its file: every frame that
\* was queued has notified every poll (with several threads on one file).
SleepingPollMeansEmpty ==
  \A t \in Threads :
    polling[t] # NULL => dmx512_framequeue_isempty(framequeue[polling[t]])

\* An entry is in the pool or in one queue, and linked once: the queues of
\* all cards draw on one pool.
EntryOwnership ==
  /\ NoDuplicates(free_framequeue)
  /\ \A h \in Handles :
       /\ NoDuplicates(framequeue[h])
       /\ Entries(framequeue[h]) \intersect Entries(free_framequeue) = {}
       /\ \A g \in Handles :
            g # h => Entries(framequeue[h]) \intersect Entries(framequeue[g]) = {}

InCirculation ==
  Entries(free_framequeue)
    \union (UNION {Entries(framequeue[h]) : h \in Handles})

\* Only closing a file and the end of the server take entries out of
\* circulation, and closing a file only those still queued on it.
OnlyCloseLosesEntries ==
  [][\A e \in InCirculation \ InCirculation' :
       \/ server' = "exited"
       \/ \E h \in Handles :
            in_use[h] /\ ~ in_use'[h] /\ e \in Entries(framequeue[h])]_vars

\* The frames queued on each file.
TapBox == [h \in Handles |-> Contents(frame, framequeue[h])]

\* A file is a mailbox: see FrameTap.  What a read returns is what arrived,
\* oldest first and once, although entries are recycled among all files.
Tap ==
  INSTANCE FrameTap WITH
    Files <- Handles,
    None <- NULL,
    waits <- reading,
    box <- TapBox

ImplementsTap == Tap!Spec

\* The comment on port_mask: "Mask of ports to monitor. Bit0 = port1,
\* Bit1=port2,... Sums up to 64 ports.": a waiting read is answered with a
\* received frame just if the bit of its port is set in the filter.
FilterSelectsItsPort ==
  [][\A h \in Handles :
       (/\ jobs # << >>
        /\ h = << Head(jobs).card, Head(jobs).index >>
        /\ in_use[h]
        /\ LiveRead(h) # NULL
        /\ jobs' # jobs)
       => (read_req'[h] = NULL
           <=> Head(jobs).msg.port
                 \in IF Head(jobs).msg.tx THEN port_txmask[h] ELSE port_mask[h])
     ]_vars

\* The comment on framequeue: "we need a per context queue to store frames
\* that come just like that. We always write the new frame to the queue.": a
\* frame the filter selects is queued, or answers a read, while the pool has
\* entries.
FrameNeverDropped ==
  [][\A h \in Handles :
       (/\ jobs # << >>
        /\ h = << Head(jobs).card, Head(jobs).index >>
        /\ in_use[h]
        /\ Head(jobs).msg.port
             \in IF Head(jobs).msg.tx THEN port_txmask[h] ELSE port_mask[h]
        /\ free_framequeue # << >>
        /\ jobs' # jobs)
       => \/ framequeue'[h] # framequeue[h]
          \/ read_req'[h] # read_req[h]]_vars

\* No request is forgotten: a read is parked exactly while its thread waits,
\* and nobody waits in a read or a poll while a frame is queued for them,
\* whatever the order of reads, polls, frames, signals, closes and the end of
\* the server.
NoRequestForgotten ==
  /\ TypeOK
  /\ EveryReadParkedOnce
  /\ ParkedReadMeansEmpty
  /\ SleepingPollMeansEmpty

=============================================================================
