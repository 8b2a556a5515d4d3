-------------------------- MODULE CuseCardsProofs --------------------------
(***************************************************************************)
(* The CUSE core with its card drivers, for any number of cards, contexts, *)
(* entries, threads, ports, filters and contents.  One inductive invariant *)
(* carries everything: requests are parked as their threads wait, nobody   *)
(* waits beside a queued frame, entries are linked once, and a context     *)
(* that is not in use holds neither a request nor an entry, so that the    *)
(* bzero of an open forgets nothing.                                       *)
(***************************************************************************)
EXTENDS CuseCards, FrameQueueProofs

JobType == [card : Cards, msg : Messages, index : Contexts]

IdleContexts ==
  \A h \in Handles :
    ~ in_use[h] => read_req[h] = NULL /\ framequeue[h] = << >>

Inv ==
  /\ TypeOK
  /\ EveryReadParkedOnce
  /\ ParkedReadMeansEmpty
  /\ SleepingPollMeansEmpty
  /\ EntryOwnership
  /\ IdleContexts

-----------------------------------------------------------------------------
(* Handles, jobs and queues.                                               *)

\* A file is a card and the index of a context.
LEMMA HandleParts ==
  /\ \A h \in Handles : h[1] \in Cards /\ h[2] \in Contexts
  /\ \A c \in Cards, i \in Contexts : << c, i >> \in Handles
BY Zenon DEF Handles

\* The loop over the contexts goes on with the next context or the next job.
LEMMA NextContextType ==
  ASSUME TypeOK, jobs # << >>
  PROVE  Head(jobs) \in JobType /\ NextContext \in Seq(JobType)
<1> DEFINE j == Head(jobs)
<1>1. jobs \in Seq(JobType) BY Zenon DEF TypeOK, JobType
<1>2. j \in JobType /\ Tail(jobs) \in Seq(JobType) BY <1>1
<1>3. CASE j.index + 1 < ContextCount
  <2>1. [j EXCEPT !.index = @ + 1] \in JobType
    BY <1>2, <1>3, ContextAssumption DEF JobType, Contexts
  <2>2. << [j EXCEPT !.index = @ + 1] >> \in Seq(JobType) BY <2>1
  <2> QED BY <1>2, <1>3, <2>2 DEF NextContext
<1>4. CASE ~ (j.index + 1 < ContextCount)
  BY <1>2, <1>4, Zenon DEF NextContext
<1> QED BY <1>2, <1>3, <1>4, Zenon

\* A new job starts with the first context.
LEMMA JobTyped ==
  ASSUME NEW c \in Cards, NEW m \in Messages
  PROVE  Job(c, m) \in JobType
BY ContextAssumption DEF Job, JobType, Contexts

\* What one turn of the loop does to the context it has come to.
HandledBy(h, m) ==
  \/ in_use[h] /\ answer_read(h, m)
  \/ in_use[h] /\ queue_frame(h, m)
  \/ skip_context(h)

\* A turn of the loop is one of three steps on one context.
LEMMA HandleContext ==
  ASSUME TypeOK, handle_context
  PROVE  /\ \E h \in Handles, m \in Messages : HandledBy(h, m)
         /\ jobs' \in Seq(JobType)
         /\ UNCHANGED << setup, server, destroyed >>
<1> DEFINE j == Head(jobs)
           g == << j.card, j.index >>
<1>1. jobs # << >> BY Zenon DEF handle_context
<1>2. j \in JobType /\ NextContext \in Seq(JobType) BY <1>1, NextContextType, Zenon
<1>3. g \in Handles /\ j.msg \in Messages BY <1>2, HandleParts, Zenon DEF JobType
<1>4. HandledBy(g, j.msg) BY Zenon DEF handle_context, HandledBy
<1>5. jobs' = NextContext /\ UNCHANGED << setup, server, destroyed >>
  BY Zenon DEF handle_context
<1> QED BY <1>2, <1>3, <1>4, <1>5, Zenon

\* The request a turn of the loop may answer is one of the clients'.
LEMMA LiveReadType ==
  ASSUME TypeOK, NEW h \in Handles
  PROVE  LiveRead(h) \in Threads \union {NULL}
BY Zenon DEF TypeOK, LiveRead

-----------------------------------------------------------------------------
(* How entries move: what EntryOwnership says of each move, and that none  *)
(* is lost by it.                                                          *)

\* An entry of the pool is filled and queued on a file.
LEMMA PoolToQueue ==
  ASSUME TypeOK, EntryOwnership, NEW h \in Handles,
         ~ dmx512_framequeue_isempty(free_framequeue),
         free_framequeue' = dmx512_framequeue_get(free_framequeue),
         framequeue' = [framequeue EXCEPT ![h] =
           dmx512_framequeue_put(@, dmx512_framequeue_front(free_framequeue))]
  PROVE  /\ free_framequeue' \in Seq(Frames)
         /\ framequeue' \in [Handles -> Seq(Frames)]
         /\ dmx512_framequeue_front(free_framequeue) \in Frames
         /\ \A g \in Handles : dmx512_framequeue_front(free_framequeue)
                                 \notin Entries(framequeue[g])
         /\ EntryOwnership'
         /\ InCirculation \subseteq InCirculation'
<1> DEFINE e == dmx512_framequeue_front(free_framequeue)
           q == dmx512_framequeue_put(framequeue[h], e)
<1>1. free_framequeue \in Seq(Frames) /\ framequeue \in [Handles -> Seq(Frames)]
  BY Zenon DEF TypeOK
<1>2. /\ e \in Frames
      /\ free_framequeue' \in Seq(Frames)
      /\ Entries(free_framequeue) = Entries(free_framequeue') \union {e}
  BY <1>1, GetEntries, Zenon
<1>3. NoDuplicates(free_framequeue') /\ e \notin Entries(free_framequeue')
  BY <1>1, GetNoDuplicates, Zenon DEF EntryOwnership
<1>4. \A g \in Handles : e \notin Entries(framequeue[g])
  BY <1>2, Zenon DEF EntryOwnership
<1>5. framequeue[h] \in Seq(Frames) BY <1>1, Zenon
<1>6. q \in Seq(Frames) /\ Entries(q) = Entries(framequeue[h]) \union {e}
  BY <1>2, <1>5, PutEntries
<1>7. NoDuplicates(q)
  BY <1>2, <1>4, <1>5, PutNoDuplicates, Zenon DEF EntryOwnership
<1>8. /\ framequeue' \in [Handles -> Seq(Frames)]
      /\ framequeue'[h] = q
      /\ \A g \in Handles \ {h} : framequeue'[g] = framequeue[g]
  BY <1>1, <1>6, Zenon
<1>9. EntryOwnership'
  BY <1>2, <1>3, <1>4, <1>6, <1>7, <1>8 DEF EntryOwnership
<1>10. InCirculation \subseteq InCirculation'
  BY <1>2, <1>6, <1>8 DEF InCirculation
<1> HIDE DEF q, e
<1> QED BY <1>2, <1>4, <1>8, <1>9, <1>10, Zenon DEF e

\* An entry that was read goes back to the pool.
LEMMA QueueToPool ==
  ASSUME TypeOK, EntryOwnership, NEW h \in Handles,
         ~ dmx512_framequeue_isempty(framequeue[h]),
         free_framequeue' = dmx512_framequeue_put(free_framequeue,
                              dmx512_framequeue_front(framequeue[h])),
         framequeue' = [framequeue EXCEPT ![h] = dmx512_framequeue_get(@)]
  PROVE  /\ free_framequeue' \in Seq(Frames)
         /\ framequeue' \in [Handles -> Seq(Frames)]
         /\ dmx512_framequeue_front(framequeue[h]) \in Frames
         /\ EntryOwnership'
         /\ InCirculation \subseteq InCirculation'
<1> DEFINE e == dmx512_framequeue_front(framequeue[h])
           q == dmx512_framequeue_get(framequeue[h])
<1>1. /\ free_framequeue \in Seq(Frames)
      /\ framequeue \in [Handles -> Seq(Frames)]
      /\ framequeue[h] \in Seq(Frames)
  BY Zenon DEF TypeOK
<1>2. e \in Frames /\ q \in Seq(Frames) /\ Entries(framequeue[h]) = Entries(q) \union {e}
  BY <1>1, GetEntries, Zenon
<1>3. NoDuplicates(q) /\ e \notin Entries(q)
  BY <1>1, GetNoDuplicates, Zenon DEF EntryOwnership
<1>4. e \notin Entries(free_framequeue)
  BY <1>2, Zenon DEF EntryOwnership
<1>5. \A g \in Handles \ {h} : e \notin Entries(framequeue[g])
  BY <1>2, Zenon DEF EntryOwnership
<1>6. /\ free_framequeue' \in Seq(Frames)
      /\ Entries(free_framequeue') = Entries(free_framequeue) \union {e}
  BY <1>1, <1>2, PutEntries
<1>7. NoDuplicates(free_framequeue')
  BY <1>1, <1>2, <1>4, PutNoDuplicates, Zenon DEF EntryOwnership
<1>8. /\ framequeue' \in [Handles -> Seq(Frames)]
      /\ framequeue'[h] = q
      /\ \A g \in Handles \ {h} : framequeue'[g] = framequeue[g]
  BY <1>1, <1>2, Zenon
<1>9. EntryOwnership'
  BY <1>2, <1>3, <1>5, <1>6, <1>7, <1>8 DEF EntryOwnership
<1>10. InCirculation \subseteq InCirculation'
  BY <1>2, <1>6, <1>8 DEF InCirculation
<1> HIDE DEF q, e
<1> QED BY <1>2, <1>6, <1>8, <1>9, <1>10, Zenon DEF e

\* The queue of a file is emptied: only its own entries are lost.
LEMMA QueueDropped ==
  ASSUME TypeOK, EntryOwnership, NEW h \in Handles,
         free_framequeue' = free_framequeue,
         framequeue' = [framequeue EXCEPT ![h] = << >>]
  PROVE  /\ framequeue' \in [Handles -> Seq(Frames)]
         /\ framequeue'[h] = << >>
         /\ \A g \in Handles \ {h} : framequeue'[g] = framequeue[g]
         /\ EntryOwnership'
         /\ InCirculation \subseteq InCirculation' \union Entries(framequeue[h])
<1>1. framequeue \in [Handles -> Seq(Frames)] BY Zenon DEF TypeOK
<1>2. /\ framequeue' \in [Handles -> Seq(Frames)]
      /\ framequeue'[h] = << >>
      /\ \A g \in Handles \ {h} : framequeue'[g] = framequeue[g]
  BY <1>1, EmptyEntries, Zenon
<1>3. EntryOwnership' BY <1>2, EmptyEntries, Zenon DEF EntryOwnership
<1>4. InCirculation \subseteq InCirculation' \union Entries(framequeue[h])
  BY <1>2, Zenon DEF InCirculation
<1> QED BY <1>2, <1>3, <1>4, Zenon

\* Entries that nobody touches stay where they are.
LEMMA QueuesUnchanged ==
  ASSUME EntryOwnership, UNCHANGED << free_framequeue, framequeue >>
  PROVE  EntryOwnership' /\ InCirculation' = InCirculation
BY Zenon DEF EntryOwnership, InCirculation

-----------------------------------------------------------------------------
(* The invariant.                                                          *)

\* The server starts with all entries in the pool and no file open.
LEMMA InitInv == Init => Inv
<1> SUFFICES ASSUME Init PROVE Inv BY Zenon
<1> USE DEF Init, dmx512_core_init, dmx512_framequeue_init
<1>1. free_framequeue \in Seq(Frames) BY PoolAssumption DEF Frames
<1>2. TypeOK
  BY <1>1, CardAssumption, EmptyEntries DEF TypeOK
<1>3. NoDuplicates(free_framequeue)
  BY PoolAssumption DEF NoDuplicates
<1>4. EntryOwnership BY <1>3, EmptyEntries, Zenon DEF EntryOwnership
<1>5. EveryReadParkedOnce BY NullAssumption, Zenon DEF EveryReadParkedOnce
<1>6. ParkedReadMeansEmpty /\ SleepingPollMeansEmpty /\ IdleContexts
  BY Zenon DEF ParkedReadMeansEmpty, SleepingPollMeansEmpty, IdleContexts
<1> QED BY <1>2, <1>4, <1>5, <1>6, Zenon DEF Inv

\* A step that opens, closes, queues, parks and wakes nothing.
LEMMA CalmInv ==
  ASSUME Inv, TypeOK',
         UNCHANGED << free_framequeue, framequeue, in_use, read_req, reading,
                      polling >>
  PROVE  Inv'
<1>1. EntryOwnership' BY QueuesUnchanged, Zenon DEF Inv
<1> QED BY <1>1, Zenon DEF Inv, EveryReadParkedOnce, ParkedReadMeansEmpty,
                    SleepingPollMeansEmpty, IdleContexts

\* The frame is not for this context: at most an interrupted read returns.
LEMMA SkipInv ==
  ASSUME Inv, NEW h \in Handles, skip_context(h), jobs' \in Seq(JobType),
         UNCHANGED << setup, server, destroyed >>
  PROVE  Inv'
<1> USE DEF Inv, skip_context
<1>1. TypeOK'
  BY LiveReadType, Zenon DEF TypeOK, JobType, pool, filters
<1>2. EveryReadParkedOnce'
  BY NullAssumption DEF TypeOK, EveryReadParkedOnce, LiveRead
<1>3. ParkedReadMeansEmpty' BY Zenon DEF TypeOK, ParkedReadMeansEmpty, LiveRead
<1>4. SleepingPollMeansEmpty' BY Zenon DEF SleepingPollMeansEmpty
<1>5. EntryOwnership' BY QueuesUnchanged, Zenon DEF pool
<1>6. IdleContexts' BY Zenon DEF TypeOK, IdleContexts, LiveRead
<1> QED BY <1>1, <1>2, <1>3, <1>4, <1>5, <1>6, Zenon

\* A frame answers the read parked in the context.
LEMMA AnswerInv ==
  ASSUME Inv, NEW h \in Handles, NEW m \in Messages, answer_read(h, m),
         jobs' \in Seq(JobType), UNCHANGED << setup, server, destroyed >>
  PROVE  Inv'
<1> DEFINE t == LiveRead(h)
<1> USE DEF Inv, answer_read
<1>1. t \in Threads /\ t = read_req[h] /\ reading[t] = h
  BY LiveReadType, Zenon DEF TypeOK, LiveRead, EveryReadParkedOnce
<1> HIDE DEF t
<1>2. /\ read_req' = [read_req EXCEPT ![h] = NULL]
      /\ reading' = [reading EXCEPT ![t] = NULL]
      /\ got' = [got EXCEPT ![t] = m]
      /\ UNCHANGED << pool, in_use, nonblocking, filters, pollhandle,
                      framequeue, polling, interrupted >>
  BY Zenon DEF t
<1> HIDE DEF answer_read
<1>3. TypeOK' BY <1>1, <1>2, Zenon DEF TypeOK, JobType, pool, filters
<1>4. EveryReadParkedOnce'
  BY <1>1, <1>2, NullAssumption DEF TypeOK, EveryReadParkedOnce
<1>5. ParkedReadMeansEmpty' BY <1>2, Zenon DEF TypeOK, ParkedReadMeansEmpty
<1>6. SleepingPollMeansEmpty' BY <1>2, Zenon DEF SleepingPollMeansEmpty
<1>7. EntryOwnership' BY <1>2, QueuesUnchanged, Zenon DEF pool
<1>8. IdleContexts' BY <1>2, Zenon DEF TypeOK, IdleContexts
<1> QED BY <1>3, <1>4, <1>5, <1>6, <1>7, <1>8, Zenon

\* A frame is queued, or finds the pool empty; the polls on the file and an
\* interrupted read return.
LEMMA QueueInv ==
  ASSUME Inv, NEW h \in Handles, NEW m \in Messages, in_use[h],
         queue_frame(h, m), jobs' \in Seq(JobType),
         UNCHANGED << setup, server, destroyed >>
  PROVE  Inv' /\ InCirculation \subseteq InCirculation'
<1> DEFINE e == dmx512_framequeue_front(free_framequeue)
<1> USE DEF Inv
<1>1. /\ polling' = [t \in Threads |-> IF polling[t] = h THEN NULL ELSE polling[t]]
      /\ read_req' = [read_req EXCEPT ![h] = NULL]
      /\ reading' = [t \in Threads |-> IF t = read_req[h] THEN NULL ELSE reading[t]]
      /\ interrupted' = interrupted \ {read_req[h]}
      /\ UNCHANGED << in_use, nonblocking, filters, pollhandle, got >>
  BY Zenon DEF queue_frame
<1>2. /\ free_framequeue' \in Seq(Frames)
      /\ frame' \in [Frames -> Messages \union {NULL}]
      /\ framequeue' \in [Handles -> Seq(Frames)]
      /\ \A g \in Handles \ {h} : framequeue'[g] = framequeue[g]
      /\ EntryOwnership'
      /\ InCirculation \subseteq InCirculation'
  <2>1. CASE /\ ~ dmx512_framequeue_isempty(free_framequeue)
             /\ free_framequeue' = dmx512_framequeue_get(free_framequeue)
             /\ frame' = [frame EXCEPT ![e] = m]
             /\ framequeue' =
                  [framequeue EXCEPT ![h] = dmx512_framequeue_put(@, e)]
    <3>1. e \in Frames BY <2>1, PoolToQueue, Zenon
    <3>2. frame' \in [Frames -> Messages \union {NULL}]
      BY <2>1, <3>1, Zenon DEF TypeOK
    <3>3. \A g \in Handles \ {h} : framequeue'[g] = framequeue[g]
      BY <2>1, Zenon DEF TypeOK
    <3> QED BY <2>1, <3>2, <3>3, PoolToQueue, Zenon
  <2>2. CASE UNCHANGED << pool, framequeue >>
    BY <2>2, QueuesUnchanged, Zenon DEF TypeOK, pool
  <2> QED BY <2>1, <2>2, Zenon DEF queue_frame
<1>3. TypeOK' BY <1>1, <1>2, Zenon DEF TypeOK, JobType, filters
<1>4. EveryReadParkedOnce'
  BY <1>1, NullAssumption DEF TypeOK, EveryReadParkedOnce
<1>5. ParkedReadMeansEmpty' BY <1>1, <1>2, Zenon DEF TypeOK, ParkedReadMeansEmpty
<1>6. SleepingPollMeansEmpty'
  BY <1>1, <1>2, Zenon DEF TypeOK, SleepingPollMeansEmpty
<1>7. IdleContexts' BY <1>1, <1>2, Zenon DEF TypeOK, IdleContexts
<1> QED BY <1>2, <1>3, <1>4, <1>5, <1>6, <1>7, Zenon

\* open takes a context that holds nothing, so its bzero forgets nothing.
LEMMA OpenInv ==
  ASSUME Inv, dmx512_cuse_open
  PROVE  Inv' /\ InCirculation \subseteq InCirculation'
<1> USE DEF Inv
<1>1. PICK h \in setup.files, nb \in BOOLEAN :
        /\ ~ in_use[h]
        /\ in_use' = [in_use EXCEPT ![h] = TRUE]
        /\ nonblocking' = [nonblocking EXCEPT ![h] = nb]
        /\ port_mask' = [port_mask EXCEPT ![h] = {}]
        /\ port_txmask' = [port_txmask EXCEPT ![h] = {}]
        /\ read_req' = [read_req EXCEPT ![h] = NULL]
        /\ pollhandle' = [pollhandle EXCEPT ![h] = FALSE]
        /\ framequeue' = [framequeue EXCEPT ![h] = << >>]
  BY Zenon DEF dmx512_cuse_open, dmx512_framequeue_init
<1>2. UNCHANGED << pool, client, loop >> BY Zenon DEF dmx512_cuse_open
<1>3. h \in Handles BY SetupAssumption, Zenon DEF TypeOK, Setup
<1>4. /\ framequeue' \in [Handles -> Seq(Frames)]
      /\ framequeue'[h] = << >>
      /\ \A g \in Handles \ {h} : framequeue'[g] = framequeue[g]
      /\ EntryOwnership'
      /\ InCirculation \subseteq InCirculation' \union Entries(framequeue[h])
  BY <1>1, <1>2, <1>3, QueueDropped, Zenon DEF pool
<1>5. read_req[h] = NULL /\ Entries(framequeue[h]) = {}
  BY <1>1, <1>3, EmptyEntries, Zenon DEF IdleContexts
<1>6. TypeOK' BY <1>1, <1>2, <1>3, <1>4, Zenon DEF TypeOK, pool, client, loop
<1>7. read_req' = read_req BY <1>1, <1>3, <1>5, Zenon DEF TypeOK
<1>8. EveryReadParkedOnce' /\ ParkedReadMeansEmpty'
  BY <1>2, <1>4, <1>7, Zenon
     DEF EveryReadParkedOnce, ParkedReadMeansEmpty, client,
         dmx512_framequeue_isempty
<1>9. SleepingPollMeansEmpty'
  BY <1>2, <1>4, Zenon
     DEF TypeOK, SleepingPollMeansEmpty, client, dmx512_framequeue_isempty
<1>10. IdleContexts' BY <1>1, <1>3, <1>4, <1>7, Zenon DEF TypeOK, IdleContexts
<1> QED BY <1>4, <1>5, <1>6, <1>8, <1>9, <1>10, Zenon

\* release comes when no call waits on the file, and empties its queue.
LEMMA ReleaseInv ==
  ASSUME Inv, dmx512_cuse_release
  PROVE  /\ Inv'
         /\ \E h \in Handles :
              /\ in_use[h] /\ ~ in_use'[h]
              /\ InCirculation
                   \subseteq InCirculation' \union Entries(framequeue[h])
<1> USE DEF Inv
<1>1. PICK h \in Handles :
        /\ in_use[h]
        /\ \A t \in Threads : reading[t] # h /\ polling[t] # h
        /\ in_use' = [in_use EXCEPT ![h] = FALSE]
        /\ port_mask' = [port_mask EXCEPT ![h] = {}]
        /\ framequeue' = [framequeue EXCEPT ![h] = << >>]
  BY Zenon DEF dmx512_cuse_release, dmx512_framequeue_cleanup
<1>2. UNCHANGED << pool, nonblocking, port_txmask, read_req, pollhandle,
                   client, loop >>
  BY Zenon DEF dmx512_cuse_release
<1>3. /\ framequeue' \in [Handles -> Seq(Frames)]
      /\ framequeue'[h] = << >>
      /\ \A g \in Handles \ {h} : framequeue'[g] = framequeue[g]
      /\ EntryOwnership'
      /\ InCirculation \subseteq InCirculation' \union Entries(framequeue[h])
  BY <1>1, <1>2, QueueDropped, Zenon DEF pool
<1>4. read_req[h] = NULL
  BY <1>1 DEF TypeOK, EveryReadParkedOnce
<1>5. TypeOK' BY <1>1, <1>2, <1>3, Zenon DEF TypeOK, pool, client, loop
<1>6. EveryReadParkedOnce' /\ ParkedReadMeansEmpty'
  BY <1>2, <1>3, Zenon
     DEF EveryReadParkedOnce, ParkedReadMeansEmpty, client,
         dmx512_framequeue_isempty
<1>7. SleepingPollMeansEmpty'
  BY <1>2, <1>3, Zenon
     DEF TypeOK, SleepingPollMeansEmpty, client, dmx512_framequeue_isempty
<1>8. IdleContexts' BY <1>1, <1>2, <1>3, <1>4, Zenon DEF TypeOK, IdleContexts
<1>9. ~ in_use'[h] BY <1>1, Zenon DEF TypeOK
<1> QED BY <1>1, <1>3, <1>5, <1>6, <1>7, <1>8, <1>9, Zenon

\* What the three outcomes of a read have in common.
ReadBy(t, h) ==
  /\ Free(t)
  /\ in_use[h]
  /\ read_queued(t, h) \/ read_nothing(t, h) \/ read_park(t, h)
  /\ UNCHANGED << in_use, nonblocking, filters, pollhandle, polling, loop >>

\* A read is made by a thread on an open file.
LEMMA ReadByClient ==
  ASSUME TypeOK, dmx512_cuse_read
  PROVE  \E t \in Threads, h \in Handles : ReadBy(t, h)
<1>1. PICK t \in setup.clients, h \in setup.files :
        /\ Free(t)
        /\ in_use[h]
        /\ read_queued(t, h) \/ read_nothing(t, h) \/ read_park(t, h)
  BY Zenon DEF dmx512_cuse_read
<1>2. t \in Threads /\ h \in Handles
  BY SetupAssumption, Zenon DEF TypeOK, Setup
<1>3. ReadBy(t, h) BY <1>1, Zenon DEF dmx512_cuse_read, ReadBy
<1> QED BY <1>2, <1>3, Zenon

\* A read takes the oldest frame, returns without one, or is parked in the
\* place of an earlier read, which returns.
LEMMA ReadInv ==
  ASSUME Inv, NEW t \in Threads, NEW h \in Handles, ReadBy(t, h)
  PROVE  Inv' /\ InCirculation \subseteq InCirculation'
<1> USE DEF Inv
<1>1. /\ Free(t) /\ in_use[h]
      /\ UNCHANGED << in_use, nonblocking, filters, pollhandle, polling, loop >>
  BY Zenon DEF ReadBy
<1>2. CASE read_queued(t, h)
  <2>1. ~ dmx512_framequeue_isempty(framequeue[h]) BY <1>2, Zenon DEF read_queued
  <2>2. /\ free_framequeue' = dmx512_framequeue_put(free_framequeue,
                                dmx512_framequeue_front(framequeue[h]))
        /\ framequeue' = [framequeue EXCEPT ![h] = dmx512_framequeue_get(@)]
        /\ got' = [got EXCEPT ![t] = frame[dmx512_framequeue_front(framequeue[h])]]
        /\ UNCHANGED << frame, read_req, reading, interrupted >>
    BY <1>2, Zenon DEF read_queued
  <2>3. /\ free_framequeue' \in Seq(Frames)
        /\ framequeue' \in [Handles -> Seq(Frames)]
        /\ dmx512_framequeue_front(framequeue[h]) \in Frames
        /\ EntryOwnership'
        /\ InCirculation \subseteq InCirculation'
    BY <2>1, <2>2, QueueToPool, Zenon
  <2>4. \A g \in Handles \ {h} : framequeue'[g] = framequeue[g]
    BY <2>2, Zenon DEF TypeOK
  <2>5. TypeOK' BY <1>1, <2>2, <2>3, Zenon DEF TypeOK, loop, filters
  <2>6. EveryReadParkedOnce' BY <2>2, Zenon DEF EveryReadParkedOnce
  <2>7. ParkedReadMeansEmpty' BY <2>1, <2>2, <2>4, Zenon DEF ParkedReadMeansEmpty
  <2>8. SleepingPollMeansEmpty'
    BY <1>1, <2>1, <2>4, Zenon DEF TypeOK, SleepingPollMeansEmpty
  <2>9. IdleContexts' BY <1>1, <2>2, <2>4, Zenon DEF IdleContexts
  <2> QED BY <2>3, <2>5, <2>6, <2>7, <2>8, <2>9, Zenon
<1>3. CASE read_nothing(t, h)
  <2>1. /\ got' = [got EXCEPT ![t] = NULL]
        /\ UNCHANGED << pool, framequeue, read_req, reading, interrupted >>
    BY <1>3, Zenon DEF read_nothing
  <2>2. TypeOK' BY <1>1, <2>1, Zenon DEF TypeOK, loop, filters, pool
  <2>3. Inv' BY <1>1, <2>1, <2>2, CalmInv, Zenon DEF pool
  <2> QED BY <2>1, <2>3, QueuesUnchanged, Zenon DEF pool
<1>4. CASE read_park(t, h)
  <2>1. /\ dmx512_framequeue_isempty(framequeue[h])
        /\ read_req' = [read_req EXCEPT ![h] = t]
        /\ interrupted' = interrupted \ {read_req[h]}
        /\ got' = [got EXCEPT ![t] = NULL]
        /\ UNCHANGED << pool, framequeue >>
    BY <1>4, Zenon DEF read_park
  <2>2. /\ reading' \in [Threads -> Handles \union {NULL}]
        /\ reading'[t] = h
        /\ \A u \in Threads \ {t} :
             reading'[u] = IF u = read_req[h] THEN NULL ELSE reading[u]
    BY <1>4, Zenon DEF read_park, TypeOK
  <2>3. TypeOK' BY <1>1, <2>1, <2>2, Zenon DEF TypeOK, loop, filters, pool
  <2>4. \A g \in Handles : read_req[g] # t
    BY <1>1, NullAssumption DEF Free, EveryReadParkedOnce
  <2>5. EveryReadParkedOnce'
    BY <2>1, <2>2, <2>4, NullAssumption DEF TypeOK, EveryReadParkedOnce
  <2>6. ParkedReadMeansEmpty' BY <2>1, Zenon DEF TypeOK, ParkedReadMeansEmpty
  <2>7. SleepingPollMeansEmpty' BY <1>1, <2>1, Zenon DEF SleepingPollMeansEmpty
  <2>8. EntryOwnership' /\ InCirculation' = InCirculation
    BY <2>1, QueuesUnchanged, Zenon DEF pool
  <2>9. IdleContexts' BY <1>1, <2>1, Zenon DEF TypeOK, IdleContexts
  <2> QED BY <2>3, <2>5, <2>6, <2>7, <2>8, <2>9, Zenon
<1> QED BY <1>2, <1>3, <1>4, Zenon DEF ReadBy

\* A poll sleeps only if nothing is queued.
LEMMA PollInv ==
  ASSUME Inv, dmx512_cuse_poll
  PROVE  Inv'
<1> USE DEF Inv
<1>1. PICK t \in setup.clients, h \in setup.files :
        /\ pollhandle' = [pollhandle EXCEPT ![h] = TRUE]
        /\ polling' = [polling EXCEPT ![t] =
             IF dmx512_framequeue_isempty(framequeue[h]) THEN h ELSE NULL]
  BY Zenon DEF dmx512_cuse_poll
<1>2. UNCHANGED << pool, in_use, nonblocking, filters, read_req, framequeue,
                   reading, interrupted, got, loop >>
  BY Zenon DEF dmx512_cuse_poll
<1>3. t \in Threads /\ h \in Handles
  BY SetupAssumption, Zenon DEF TypeOK, Setup
<1>4. TypeOK' BY <1>1, <1>2, <1>3, Zenon DEF TypeOK, pool, filters, loop
<1>5. EveryReadParkedOnce' /\ ParkedReadMeansEmpty' /\ IdleContexts'
  BY <1>2, Zenon DEF EveryReadParkedOnce, ParkedReadMeansEmpty, IdleContexts
<1>6. SleepingPollMeansEmpty'
  BY <1>1, <1>2, <1>3, Zenon DEF TypeOK, SleepingPollMeansEmpty
<1>7. EntryOwnership' BY <1>2, QueuesUnchanged, Zenon DEF pool
<1> QED BY <1>4, <1>5, <1>6, <1>7, Zenon

\* The end of a session answers exactly the reads parked on its card.
LEMMA DestroyInv ==
  ASSUME Inv, dmx512_cuse_destroy
  PROVE  /\ Inv'
         /\ \A t \in Threads : reading'[t] \in {reading[t], NULL}
<1> DEFINE parked == {read_req[<< destroyed, i >>] : i \in Contexts}
<1> USE DEF Inv
<1>1. /\ reading' = [t \in Threads |-> IF t \in parked THEN NULL ELSE reading[t]]
      /\ interrupted' = interrupted \ parked
      /\ read_req' = [h \in Handles |->
                        IF h[1] = destroyed THEN NULL ELSE read_req[h]]
      /\ destroyed' = destroyed + 1
      /\ destroyed < NumCards
      /\ UNCHANGED << pool, in_use, nonblocking, filters, pollhandle,
                      framequeue, polling, got, setup, jobs, server >>
  BY Zenon DEF dmx512_cuse_destroy
<1>2. destroyed \in Cards BY <1>1, CardAssumption DEF TypeOK, Cards
<1>3. ASSUME NEW t \in Threads, NEW h \in Handles, reading[t] = h
      PROVE  t \in parked <=> h[1] = destroyed
  <2>1. read_req[h] = t BY <1>3, Zenon DEF EveryReadParkedOnce
  <2>2. ASSUME h[1] = destroyed PROVE t \in parked
    <3>1. h = << destroyed, h[2] >> /\ h[2] \in Contexts
      BY <2>2 DEF Handles
    <3> QED BY <2>1, <3>1, Zenon
  <2>3. ASSUME t \in parked PROVE h[1] = destroyed
    <3>1. PICK i \in Contexts : read_req[<< destroyed, i >>] = t
      BY <2>3, Zenon
    <3>2. << destroyed, i >> \in Handles BY <1>2, HandleParts, Zenon
    <3>3. reading[t] = << destroyed, i >>
      BY <3>1, <3>2, Zenon DEF EveryReadParkedOnce
    <3> QED BY <1>3, <3>3
  <2> QED BY <2>2, <2>3, Zenon
<1> HIDE DEF parked
<1>4. TypeOK'
  <2>1. destroyed' \in 0..NumCards
    BY <1>1, CardAssumption DEF TypeOK
  <2>2. /\ reading' \in [Threads -> Handles \union {NULL}]
        /\ read_req' \in [Handles -> Threads \union {NULL}]
        /\ interrupted' \subseteq Threads
    BY <1>1, Zenon DEF TypeOK
  <2> QED BY <1>1, <2>1, <2>2, Zenon DEF TypeOK, pool, filters
<1>5. EveryReadParkedOnce'
  <2> SUFFICES ASSUME NEW t \in Threads, NEW h \in Handles
               PROVE  read_req'[h] = t <=> reading'[t] = h
    BY Zenon DEF EveryReadParkedOnce
  <2> QED BY <1>1, <1>3, NullAssumption DEF EveryReadParkedOnce
<1>6. ParkedReadMeansEmpty' /\ SleepingPollMeansEmpty' /\ IdleContexts'
  BY <1>1, Zenon DEF ParkedReadMeansEmpty, SleepingPollMeansEmpty, IdleContexts
<1>7. EntryOwnership' BY <1>1, QueuesUnchanged, Zenon DEF pool
<1>8. \A t \in Threads : reading'[t] \in {reading[t], NULL} BY <1>1, Zenon
<1> QED BY <1>4, <1>5, <1>6, <1>7, <1>8, Zenon

\* The pool is freed at the end.
LEMMA ExitInv ==
  ASSUME Inv, dmx512_core_exit
  PROVE  Inv'
<1> USE DEF Inv
<1>1. /\ server' = "exited"
      /\ free_framequeue' = << >>
      /\ UNCHANGED << frame, context, client, setup, jobs, destroyed >>
  BY Zenon DEF dmx512_core_exit, dmx512_framequeue_cleanup
<1>2. TypeOK'
  BY <1>1, EmptyEntries, Zenon DEF TypeOK, context, client, filters
<1>3. EntryOwnership'
  BY <1>1, EmptyEntries, Zenon DEF EntryOwnership, context
<1> QED BY <1>1, <1>2, <1>3, Zenon
        DEF EveryReadParkedOnce, ParkedReadMeansEmpty, SleepingPollMeansEmpty,
            IdleContexts, context, client

\* A poll that stops sleeping waits for nothing.
LEMMA TimeoutInv ==
  ASSUME Inv, poll_timeout
  PROVE  Inv'
<1> USE DEF Inv
<1>1. PICK t \in Threads : polling' = [polling EXCEPT ![t] = NULL]
  BY Zenon DEF poll_timeout
<1>2. UNCHANGED << pool, context, reading, interrupted, got, loop >>
  BY Zenon DEF poll_timeout
<1>3. TypeOK' BY <1>1, <1>2, Zenon DEF TypeOK, pool, context, filters, loop
<1>4. SleepingPollMeansEmpty'
  BY <1>1, <1>2, Zenon DEF TypeOK, SleepingPollMeansEmpty, context
<1>5. EntryOwnership' BY <1>2, QueuesUnchanged, Zenon DEF pool, context
<1> QED BY <1>2, <1>3, <1>4, <1>5, Zenon
        DEF EveryReadParkedOnce, ParkedReadMeansEmpty, IdleContexts, context

\* A write and the callback of a receiver only give the loop something to do.
LEMMA DriverInv ==
  ASSUME Inv, dmx512_cuse_write \/ fdwatcher_callback
  PROVE  Inv' /\ UNCHANGED << pool, context, client >>
<1> USE DEF Inv
<1>1. setup \in Setup /\ (setup.driver = "loop" => NumCards = 2)
  BY SetupAssumption, Zenon DEF TypeOK
<1>2. jobs' \in Seq(JobType)
  <2>1. CASE dmx512_cuse_write
    <3>1. PICK h \in setup.files,
               m \in [port : Ports, tx : {TRUE}, data : setup.data] :
            \/ /\ setup.driver = "loop"
               /\ jobs' = << Job(1 - h[1], m), Job(h[1], m) >>
            \/ jobs' = << Job(h[1], m) >>
      BY <2>1, Zenon DEF dmx512_cuse_write, testdmx_sendFrame
    <3>2. h[1] \in Cards /\ m \in Messages
      BY <1>1, HandleParts, Zenon DEF Setup, Messages
    <3>3. setup.driver = "loop" => 1 - h[1] \in Cards
      <4>1. \A c \in 0..1 : 1 - c \in 0..1 OBVIOUS
      <4>2. NumCards = 2 => Cards = 0..1 BY DEF Cards
      <4> QED BY <1>1, <3>2, <4>1, <4>2, Zenon
    <3>4. Job(h[1], m) \in JobType BY <3>2, JobTyped, Zenon
    <3>5. setup.driver = "loop" => Job(1 - h[1], m) \in JobType
      BY <3>2, <3>3, JobTyped, Zenon
    <3>6. \A x, y \in JobType :
            << x >> \in Seq(JobType) /\ << x, y >> \in Seq(JobType)
      OBVIOUS
    <3> HIDE DEF JobType
    <3> QED BY <3>1, <3>4, <3>5, <3>6, Zenon
  <2>2. CASE fdwatcher_callback
    <3>1. PICK c \in {h[1] : h \in setup.files},
               m \in [port : Ports, tx : {FALSE}, data : setup.data] :
            jobs' = << Job(c, m) >>
      BY <2>2, Zenon DEF fdwatcher_callback
    <3>2. c \in Cards /\ m \in Messages
      BY <1>1, HandleParts, Zenon DEF Setup, Messages
    <3>3. Job(c, m) \in JobType BY <3>2, JobTyped, Zenon
    <3> QED BY <3>1, <3>3
  <2> QED BY <2>1, <2>2, Zenon
<1>3. UNCHANGED << pool, context, client, setup, server, destroyed >>
  BY Zenon DEF dmx512_cuse_write, fdwatcher_callback
<1>4. TypeOK'
  BY <1>2, <1>3, Zenon DEF TypeOK, JobType, pool, context, filters, client
<1>5. Inv' BY <1>3, <1>4, CalmInv, Zenon DEF pool, context, client
<1> QED BY <1>3, <1>5, Zenon

\* A filter, a signal and the end of the loop change no request and no queue.
LEMMA QuietInv ==
  ASSUME Inv, \/ SET_PORT_FILTER \/ SET_PORT_TXFILTER \/ stop \/ interrupt
  PROVE  /\ Inv'
         /\ UNCHANGED << free_framequeue, frame, framequeue, reading, got >>
<1> USE DEF Inv
<1>1. CASE SET_PORT_FILTER
  <2>1. PICK h \in Handles, mask \in Masks :
          port_mask' = [port_mask EXCEPT ![h] = mask]
    BY <1>1, Zenon DEF SET_PORT_FILTER
  <2>2. UNCHANGED << pool, in_use, nonblocking, port_txmask, read_req,
                     pollhandle, framequeue, client, loop >>
    BY <1>1, Zenon DEF SET_PORT_FILTER
  <2>3. TypeOK' BY <2>1, <2>2, MaskAssumption, Zenon DEF TypeOK, pool, client, loop
  <2> QED BY <2>2, <2>3, CalmInv, Zenon DEF pool, client
<1>2. CASE SET_PORT_TXFILTER
  <2>1. PICK h \in Handles, mask \in Masks :
          port_txmask' = [port_txmask EXCEPT ![h] = mask]
    BY <1>2, Zenon DEF SET_PORT_TXFILTER
  <2>2. UNCHANGED << pool, in_use, nonblocking, port_mask, read_req,
                     pollhandle, framequeue, client, loop >>
    BY <1>2, Zenon DEF SET_PORT_TXFILTER
  <2>3. TypeOK' BY <2>1, <2>2, MaskAssumption, Zenon DEF TypeOK, pool, client, loop
  <2> QED BY <2>2, <2>3, CalmInv, Zenon DEF pool, client
<1>3. CASE stop
  <2>1. /\ server' = "teardown"
        /\ UNCHANGED << pool, context, client, setup, jobs, destroyed >>
    BY <1>3, Zenon DEF stop
  <2>2. TypeOK' BY <2>1, Zenon DEF TypeOK, pool, context, filters, client
  <2> QED BY <2>1, <2>2, CalmInv, Zenon DEF pool, context, client
<1>4. CASE interrupt
  <2>1. PICK t \in Threads : interrupted' = interrupted \union {t}
    BY <1>4, Zenon DEF interrupt
  <2>2. UNCHANGED << pool, context, reading, polling, got, loop >>
    BY <1>4, Zenon DEF interrupt
  <2>3. TypeOK' BY <2>1, <2>2, Zenon DEF TypeOK, pool, context, filters, loop
  <2> QED BY <2>2, <2>3, CalmInv, Zenon DEF pool, context
<1> QED BY <1>1, <1>2, <1>3, <1>4, Zenon

\* A turn of the loop keeps the invariant and loses no entry.
LEMMA HandleInv ==
  ASSUME Inv, handle_context
  PROVE  Inv' /\ InCirculation \subseteq InCirculation'
<1>1. PICK h \in Handles, m \in Messages : HandledBy(h, m)
  BY HandleContext, Zenon DEF Inv
<1>2. jobs' \in Seq(JobType) /\ UNCHANGED << setup, server, destroyed >>
  BY HandleContext, Zenon DEF Inv
<1>3. CASE in_use[h] /\ answer_read(h, m)
  <2>1. UNCHANGED << free_framequeue, framequeue >>
    BY <1>3, Zenon DEF answer_read, pool
  <2> QED BY <1>2, <1>3, <2>1, AnswerInv, QueuesUnchanged, Zenon DEF Inv
<1>4. CASE in_use[h] /\ queue_frame(h, m)
  BY <1>2, <1>4, QueueInv, Zenon
<1>5. CASE skip_context(h)
  <2>1. UNCHANGED << free_framequeue, framequeue >>
    BY <1>5, Zenon DEF skip_context, pool
  <2> QED BY <1>2, <1>5, <2>1, SkipInv, QueuesUnchanged, Zenon DEF Inv
<1> QED BY <1>1, <1>3, <1>4, <1>5, Zenon DEF HandledBy

\* Every step keeps the invariant.
LEMMA NextInv == Inv /\ [Next]_vars => Inv'
<1> SUFFICES ASSUME Inv, [Next]_vars PROVE Inv' BY Zenon
<1>1. CASE handle_context BY <1>1, HandleInv, Zenon
<1>2. CASE dmx512_cuse_open BY <1>2, OpenInv, Zenon
<1>3. CASE dmx512_cuse_release BY <1>3, ReleaseInv, Zenon
<1>4. CASE dmx512_cuse_read BY <1>4, ReadByClient, ReadInv, Zenon DEF Inv
<1>5. CASE SET_PORT_FILTER \/ SET_PORT_TXFILTER \/ stop \/ interrupt
  BY <1>5, QuietInv, Zenon
<1>6. CASE dmx512_cuse_poll BY <1>6, PollInv, Zenon
<1>7. CASE dmx512_cuse_destroy BY <1>7, DestroyInv, Zenon
<1>8. CASE dmx512_core_exit BY <1>8, ExitInv, Zenon
<1>9. CASE poll_timeout BY <1>9, TimeoutInv, Zenon
<1>10. CASE dmx512_cuse_write \/ fdwatcher_callback BY <1>10, DriverInv, Zenon
<1>11. CASE UNCHANGED vars
  <2>1. UNCHANGED << free_framequeue, framequeue, in_use, read_req, reading,
                     polling >>
    BY <1>11, Zenon DEF vars, pool, context, client
  <2>2. TypeOK'
    BY <1>11, Zenon DEF Inv, TypeOK, vars, pool, context, filters, client, loop
  <2> QED BY <2>1, <2>2, CalmInv, Zenon
<1> QED BY <1>1, <1>2, <1>3, <1>4, <1>5, <1>6, <1>7, <1>8, <1>9, <1>10, <1>11, Zenon
        DEF Next, Core

\* The handlers of dmx512_cuse_dev.c park, answer and notify so that no read
\* is forgotten or answered twice, and no read or poll waits beside a frame
\* that is queued for it.
THEOREM RequestsAreServed == Spec => []NoRequestForgotten
<1>1. Inv => NoRequestForgotten BY Zenon DEF Inv, NoRequestForgotten
<1> QED BY InitInv, NextInv, <1>1, PTL DEF Spec

\* The files of all cards share one pool of entries, and no entry is ever
\* linked into two lists or twice into one.
THEOREM EntriesLinkedOnce == Spec => []EntryOwnership
<1>1. Inv => EntryOwnership BY Zenon DEF Inv
<1> QED BY InitInv, NextInv, <1>1, PTL DEF Spec

-----------------------------------------------------------------------------
(* Entries leave circulation only when a file is closed or the server ends. *)

\* What a step may take out of circulation.
CloseLoses ==
  \A e \in InCirculation \ InCirculation' :
    \/ server' = "exited"
    \/ \E h \in Handles :
         in_use[h] /\ ~ in_use'[h] /\ e \in Entries(framequeue[h])

\* Each step loses at most the entries of the file it closes.
LEMMA StepLoses == Inv /\ [Next]_vars => [CloseLoses]_vars
<1> SUFFICES ASSUME Inv, Next PROVE CloseLoses BY Zenon
<1>1. ASSUME InCirculation \subseteq InCirculation' PROVE CloseLoses
  BY <1>1, Zenon DEF CloseLoses
<1>2. ASSUME UNCHANGED << free_framequeue, framequeue >> PROVE CloseLoses
  BY <1>1, <1>2, QueuesUnchanged, Zenon DEF Inv
<1>3. CASE handle_context BY <1>1, <1>3, HandleInv, Zenon
<1>4. CASE dmx512_cuse_open BY <1>1, <1>4, OpenInv, Zenon
<1>5. CASE dmx512_cuse_release
  <2>1. PICK h \in Handles :
          /\ in_use[h] /\ ~ in_use'[h]
          /\ InCirculation \subseteq InCirculation' \union Entries(framequeue[h])
    BY <1>5, ReleaseInv, Zenon
  <2> QED BY <2>1, Zenon DEF CloseLoses
<1>6. CASE dmx512_cuse_read BY <1>1, <1>6, ReadByClient, ReadInv, Zenon DEF Inv
<1>7. CASE SET_PORT_FILTER \/ SET_PORT_TXFILTER \/ stop \/ interrupt
  BY <1>2, <1>7, QuietInv, Zenon
<1>8. CASE dmx512_cuse_poll BY <1>2, <1>8, Zenon DEF dmx512_cuse_poll, pool
<1>9. CASE dmx512_cuse_destroy BY <1>2, <1>9, Zenon DEF dmx512_cuse_destroy, pool
<1>10. CASE dmx512_core_exit BY <1>10, Zenon DEF dmx512_core_exit, CloseLoses
<1>11. CASE poll_timeout BY <1>2, <1>11, Zenon DEF poll_timeout, pool, context
<1>12. CASE dmx512_cuse_write \/ fdwatcher_callback
  BY <1>2, <1>12, DriverInv, Zenon DEF pool, context
<1> QED BY <1>3, <1>4, <1>5, <1>6, <1>7, <1>8, <1>9, <1>10, <1>11, <1>12, Zenon
        DEF Next, Core

\* dmx512_cuse_release frees the unread entries of its file for good; nothing
\* else in the life of the server takes an entry from the pool for good.
THEOREM ClosingLosesOnlyItsQueue == Spec => OnlyCloseLosesEntries
BY InitInv, NextInv, StepLoses, PTL
   DEF Spec, OnlyCloseLosesEntries, CloseLoses

-----------------------------------------------------------------------------
(* Every file is a mailbox.                                                *)

\* No frames are in an empty queue.
LEMMA EmptyBox == \A f : Contents(f, << >>) = << >>
BY DEF Contents

\* The server starts with empty mailboxes and nobody waiting.
LEMMA InitTap == Init => Tap!Init
BY EmptyBox DEF Init, Tap!Init, TapBox, dmx512_framequeue_init

\* A step that moves no frame, after which reads wait as before or not at all.
LEMMA TapInterrupt ==
  ASSUME UNCHANGED << frame, framequeue, got >>,
         \A t \in Threads : reading'[t] \in {reading[t], NULL}
  PROVE  Tap!Next
<1>1. TapBox' = TapBox BY Zenon DEF TapBox
<1> QED BY <1>1, Zenon DEF Tap!Next, Tap!Interrupt

\* A frame that is queued is kept: the entry it is copied into is in no
\* queue, so no other frame changes.
LEMMA TapKeep ==
  ASSUME Inv, NEW h \in Handles, NEW m \in Messages,
         ~ dmx512_framequeue_isempty(free_framequeue),
         free_framequeue' = dmx512_framequeue_get(free_framequeue),
         frame' = [frame EXCEPT ![dmx512_framequeue_front(free_framequeue)] = m],
         framequeue' = [framequeue EXCEPT ![h] =
           dmx512_framequeue_put(@, dmx512_framequeue_front(free_framequeue))]
  PROVE  TapBox' = [TapBox EXCEPT ![h] = Append(@, m)]
<1> DEFINE e == dmx512_framequeue_front(free_framequeue)
<1>1. e \in Frames /\ \A g \in Handles : e \notin Entries(framequeue[g])
  BY PoolToQueue, Zenon DEF Inv
<1>2. frame'[e] = m /\ \A x \in Frames \ {e} : frame'[x] = frame[x]
  BY <1>1, Zenon DEF Inv, TypeOK
<1>3. \A g \in Handles : framequeue[g] \in Seq(Frames)
  BY Zenon DEF Inv, TypeOK
<1>4. \A g \in Handles :
        Contents(frame', framequeue[g]) = Contents(frame, framequeue[g])
  <2> TAKE g \in Handles
  <2>1. \A x \in Entries(framequeue[g]) : frame'[x] = frame[x]
    BY <1>1, <1>2, <1>3, EntriesSubset, Zenon
  <2> QED BY <2>1, ContentsOfEntries, Zenon
<1>5. /\ framequeue'[h] = dmx512_framequeue_put(framequeue[h], e)
      /\ \A g \in Handles \ {h} : framequeue'[g] = framequeue[g]
  BY Zenon DEF Inv, TypeOK
<1> HIDE DEF e
<1>6. Contents(frame', framequeue'[h]) = Append(Contents(frame, framequeue[h]), m)
  <2>1. framequeue[h] \in Seq(Frames) /\ e \in Frames BY <1>1, <1>3, Zenon
  <2>2. Contents(frame', dmx512_framequeue_put(framequeue[h], e))
          = Append(Contents(frame', framequeue[h]), frame'[e])
    BY <2>1, PutContents, Zenon
  <2> QED BY <1>2, <1>4, <1>5, <2>2, Zenon
<1>7. \A g \in Handles \ {h} :
        Contents(frame', framequeue'[g]) = Contents(frame, framequeue[g])
  BY <1>4, <1>5, Zenon
<1> QED BY <1>6, <1>7, Zenon DEF TapBox

\* A turn of the loop keeps the frame, gives it to the read that waits on the
\* empty mailbox, or lets an interrupted read return.
LEMMA TapHandle ==
  ASSUME Inv, handle_context
  PROVE  Tap!Next
<1>1. PICK h \in Handles, m \in Messages : HandledBy(h, m)
  BY HandleContext, Zenon DEF Inv
<1>2. CASE answer_read(h, m)
  <2> DEFINE t == LiveRead(h)
  <2>1. t \in Threads /\ t = read_req[h] /\ reading[t] = h
    BY <1>2, LiveReadType, Zenon
       DEF Inv, TypeOK, answer_read, LiveRead, EveryReadParkedOnce
  <2>2. /\ reading' = [reading EXCEPT ![t] = NULL]
        /\ got' = [got EXCEPT ![t] = m]
        /\ UNCHANGED << frame, framequeue >>
    BY <1>2, Zenon DEF answer_read, pool
  <2> HIDE DEF t
  <2>3. framequeue[h] = << >>
    BY <2>1, NullAssumption, Zenon
       DEF Inv, ParkedReadMeansEmpty, dmx512_framequeue_isempty
  <2>4. TapBox[h] = << >> BY <2>3, EmptyBox, Zenon DEF TapBox
  <2>5. TapBox' = TapBox BY <2>2, Zenon DEF TapBox
  <2>6. reading[t] # NULL BY <2>1, NullAssumption, Zenon
  <2>7. Tap!Bypass(t) BY <2>1, <2>2, <2>4, <2>5, <2>6, Zenon DEF Tap!Bypass
  <2> QED BY <2>1, <2>7, Zenon DEF Tap!Next
<1>3. CASE queue_frame(h, m)
  <2>1. /\ reading' = [t \in Threads |-> IF t = read_req[h] THEN NULL ELSE reading[t]]
        /\ got' = got
    BY <1>3, Zenon DEF queue_frame
  <2>2. CASE UNCHANGED << pool, framequeue >>
    BY <2>1, <2>2, TapInterrupt, Zenon DEF pool
  <2>3. CASE ~ UNCHANGED << pool, framequeue >>
    <3>1. TapBox' = [TapBox EXCEPT ![h] = Append(@, m)]
      BY <1>3, <2>3, TapKeep, Zenon DEF queue_frame
    <3>2. \A t \in Threads : Tap!MayGiveUp(t, h)
      BY <2>1, Zenon DEF Tap!MayGiveUp, Inv, EveryReadParkedOnce
    <3>3. Tap!Keep(h) BY <2>1, <3>1, <3>2, Zenon DEF Tap!Keep
    <3> QED BY <3>3, Zenon DEF Tap!Next
  <2> QED BY <2>2, <2>3, Zenon
<1>4. CASE skip_context(h)
  <2>1. \A t \in Threads : reading'[t] \in {reading[t], NULL}
    BY <1>4, Zenon DEF skip_context
  <2> QED BY <1>4, <2>1, TapInterrupt, Zenon DEF skip_context, pool
<1> QED BY <1>1, <1>2, <1>3, <1>4, Zenon DEF HandledBy

\* A read takes the oldest frame of the mailbox, or finds it empty.
LEMMA TapRead ==
  ASSUME Inv, NEW t \in Threads, NEW h \in Handles, ReadBy(t, h)
  PROVE  Tap!Next
<1>0. reading[t] = NULL BY Zenon DEF ReadBy, Free
<1>1. CASE read_queued(t, h)
  <2> DEFINE e == dmx512_framequeue_front(framequeue[h])
  <2>1. /\ ~ dmx512_framequeue_isempty(framequeue[h])
        /\ got' = [got EXCEPT ![t] = frame[e]]
        /\ framequeue' = [framequeue EXCEPT ![h] = dmx512_framequeue_get(@)]
        /\ UNCHANGED << frame, reading >>
    BY <1>1, Zenon DEF read_queued
  <2>2. framequeue[h] \in Seq(Frames) BY Zenon DEF Inv, TypeOK
  <2>3. /\ TapBox[h] # << >>
        /\ Head(TapBox[h]) = frame[e]
        /\ Tail(TapBox[h]) = Contents(frame, dmx512_framequeue_get(framequeue[h]))
    BY <2>1, <2>2, GetContents, Zenon DEF TapBox
  <2>4. /\ framequeue'[h] = dmx512_framequeue_get(framequeue[h])
        /\ \A g \in Handles \ {h} : framequeue'[g] = framequeue[g]
    BY <2>1, Zenon DEF Inv, TypeOK
  <2>5. TapBox' = [TapBox EXCEPT ![h] = Tail(@)]
    <3>1. \A g \in Handles : TapBox'[g] = Contents(frame, framequeue'[g])
      BY <2>1, Zenon DEF TapBox
    <3>2. \A g \in Handles :
            TapBox'[g] = IF g = h THEN Tail(TapBox[h]) ELSE TapBox[g]
      BY <2>3, <2>4, <3>1, Zenon DEF TapBox
    <3> QED BY <3>2, Zenon DEF TapBox
  <2>6. Tap!Take(t, h) BY <1>0, <2>1, <2>3, <2>5, Zenon DEF Tap!Take
  <2> QED BY <2>6, Zenon DEF Tap!Next
<1>2. CASE read_nothing(t, h) \/ read_park(t, h)
  <2>1. framequeue[h] = << >>
    BY <1>2, Zenon DEF read_nothing, read_park, dmx512_framequeue_isempty
  <2>2. got' = [got EXCEPT ![t] = NULL] /\ UNCHANGED << frame, framequeue >>
    BY <1>2, Zenon DEF read_nothing, read_park, pool
  <2>3. reading'[t] \in {NULL, h}
    BY <1>0, <1>2, Zenon DEF read_nothing, read_park
  <2>4. \A u \in Threads \ {t} : Tap!MayGiveUp(u, h)
    BY <1>2 DEF read_nothing, read_park, Tap!MayGiveUp, Inv, EveryReadParkedOnce
  <2>5. TapBox' = TapBox /\ TapBox[h] = << >>
    BY <2>1, <2>2, EmptyBox, Zenon DEF TapBox
  <2>6. Tap!Miss(t, h) BY <1>0, <2>2, <2>3, <2>4, <2>5, Zenon DEF Tap!Miss
  <2> QED BY <2>6, Zenon DEF Tap!Next
<1> QED BY <1>1, <1>2, Zenon DEF ReadBy

\* Opening and closing a file empties its mailbox.
LEMMA TapClear ==
  ASSUME Inv, dmx512_cuse_open \/ dmx512_cuse_release
  PROVE  Tap!Next
<1>1. UNCHANGED << frame, reading, got >>
  BY Zenon DEF dmx512_cuse_open, dmx512_cuse_release, pool, client
<1>2. PICK h \in Handles : framequeue' = [framequeue EXCEPT ![h] = << >>]
  BY SetupAssumption, Zenon
     DEF Inv, TypeOK, Setup, dmx512_cuse_open, dmx512_cuse_release,
         dmx512_framequeue_init, dmx512_framequeue_cleanup
<1>3. /\ framequeue'[h] = << >>
      /\ \A g \in Handles \ {h} : framequeue'[g] = framequeue[g]
  BY <1>2, Zenon DEF Inv, TypeOK
<1>4. TapBox' = [TapBox EXCEPT ![h] = << >>]
  BY <1>1, <1>3, EmptyBox, Zenon DEF TapBox
<1>5. Tap!Clear(h) BY <1>1, <1>4, Zenon DEF Tap!Clear
<1> QED BY <1>5, Zenon DEF Tap!Next

\* Every step of the server is a step of the mailboxes or leaves them alone.
LEMMA NextTap == Inv /\ [Next]_vars => [Tap!Next]_(Tap!vars)
<1> SUFFICES ASSUME Inv, [Next]_vars PROVE Tap!Next \/ UNCHANGED Tap!vars
  BY Zenon
<1>1. ASSUME UNCHANGED << frame, framequeue, reading, got >> PROVE UNCHANGED Tap!vars
  BY <1>1, Zenon DEF Tap!vars, TapBox
<1>2. CASE handle_context BY <1>2, TapHandle, Zenon
<1>3. CASE dmx512_cuse_open \/ dmx512_cuse_release BY <1>3, TapClear, Zenon
<1>4. CASE dmx512_cuse_read BY <1>4, ReadByClient, TapRead, Zenon DEF Inv
<1>5. CASE SET_PORT_FILTER \/ SET_PORT_TXFILTER \/ stop \/ interrupt
  BY <1>1, <1>5, QuietInv, Zenon
<1>6. CASE dmx512_cuse_poll BY <1>1, <1>6, Zenon DEF dmx512_cuse_poll, pool
<1>7. CASE dmx512_cuse_destroy
  <2>1. UNCHANGED << frame, framequeue, got >>
    BY <1>7, Zenon DEF dmx512_cuse_destroy, pool
  <2> QED BY <1>7, <2>1, DestroyInv, TapInterrupt, Zenon
<1>8. CASE dmx512_core_exit
  BY <1>1, <1>8, Zenon DEF dmx512_core_exit, context, client
<1>9. CASE poll_timeout BY <1>1, <1>9, Zenon DEF poll_timeout, pool, context
<1>10. CASE dmx512_cuse_write \/ fdwatcher_callback
  BY <1>1, <1>10, DriverInv, Zenon DEF pool, context, client
<1>11. CASE UNCHANGED vars
  BY <1>1, <1>11, Zenon DEF vars, pool, context, client
<1> QED BY <1>2, <1>3, <1>4, <1>5, <1>6, <1>7, <1>8, <1>9, <1>10, <1>11, Zenon
        DEF Next, Core

\* dmx512_cuse_read and dmx512_cuse_handle_received_frame together keep the
\* promise of a mailbox for every open file: what a read returns is what
\* arrived on that file, unaltered, oldest first and once.
THEOREM FilesAreMailboxes == Spec => ImplementsTap
BY InitInv, NextInv, InitTap, NextTap, PTL DEF Spec, ImplementsTap, Tap!Spec
=============================================================================
