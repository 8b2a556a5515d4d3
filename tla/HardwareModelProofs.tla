------------------------ MODULE HardwareModelProofs ------------------------
(***************************************************************************)
(* The register accesses of the simulated UART are atomic, for any number  *)
(* of driver threads, any programs and any time the UART takes to answer,  *)
(* as long as its acknowledge outlives the bus cycle by at most two clock  *)
(* cycles: as many as WishboneMaster stays idle.                           *)
(*                                                                         *)
(* The invariant ties each waiting thread to the one place its request is  *)
(* in, and says for each state of the master and each step of the loop     *)
(* where the acknowledge of the UART can be.                               *)
(*                                                                         *)
(* On that rests what the registers hold, for programs that use them in    *)
(* the order OrderAssumption states: two threads are then never both at an *)
(* access that depends on LCR, so a second invariant can follow the latch  *)
(* bit and the value of IER through the program of the one that is.        *)
(***************************************************************************)
EXTENDS HardwareModel, TLAPS

Words == SUBSET Bits

\* The types that the refinement needs.
Typed ==
  /\ mem \in [Regs -> Words] /\ rdata \in Words /\ shadow_fcr \in Words
  /\ request \in [Threads -> Access_ \union {NULL}]
  /\ result \in [Threads -> Words \union {NULL}]
  /\ value \in [Threads -> Words]
  /\ program \in [Threads -> Seq(Steps)]
  /\ \A t \in Threads : program[t] \in Programs[t]
  /\ pc \in [Threads -> Nat \ {0}]
  /\ q \in Seq(Threads)
  /\ pendingRequest \in Threads \union {NULL}
  /\ state \in 0..4 /\ sim \in {"control", "eval", "handle"}
  /\ age \in Nat /\ phase \in {"idle", "answered", "lag"}

\* A request is with its thread, in the queue or with the master, and a result
\* is there only for a thread that waits for it.
OnePlace ==
  /\ \A i, j \in DOMAIN q : q[i] = q[j] => i = j
  /\ \A i \in DOMAIN q : /\ request[q[i]] # NULL /\ result[q[i]] = NULL
                         /\ pendingRequest # q[i]
  /\ \A t \in Threads : request[t] = NULL => result[t] = NULL
  /\ pendingRequest # NULL <=> state \in {1, 2}
  /\ pendingRequest # NULL => request[pendingRequest] # NULL /\ result[pendingRequest] = NULL

\* Where the acknowledge is.
Acknowledge ==
  /\ phase = "answered" => \/ state \in {1, 2} /\ sim = "handle"
                           \/ state = 3 /\ sim # "handle"
  /\ phase = "lag" => \/ state = 3 /\ sim = "handle" /\ age = 1
                      \/ state = 4 /\ sim # "handle" /\ age = 1
                      \/ state = 4 /\ sim = "handle" /\ age = 2
                      \/ state = 0 /\ sim # "handle" /\ age = 2
                      \/ state \in {1, 2} /\ sim = "eval" /\ age = 2
  /\ phase = "answered" => age = 0
  /\ phase = "answered" /\ state \in {1, 2} /\ request[pendingRequest].write => rdata = {}

BusInv == Typed /\ OnePlace /\ Acknowledge

-----------------------------------------------------------------------------
(* The invariant.                                                          *)

\* A thread at a step is at one of the steps of a program.
LEMMA StepTyped ==
  ASSUME Typed, NEW t \in Threads, Running(t)
  PROVE  /\ Step(t) \in Steps
         /\ Step(t).do \in Accessing => Step(t).reg \in Regs
         /\ Written(t) \in Words
<1>1. /\ program[t] \in Seq(Steps) /\ program[t] \in Programs[t] /\ pc[t] \in Nat \ {0}
      /\ value[t] \in Words /\ shadow_fcr \in Words
  BY Zenon DEF Typed
<1>2. pc[t] \in 1..Len(program[t]) /\ pc[t] \in DOMAIN program[t]
  BY <1>1 DEF Running
<1>3. Step(t) \in Steps BY <1>1, <1>2 DEF Step
<1>4. Step(t).do \in Accessing => Step(t).reg \in Regs
  BY <1>1, <1>2, ProgramAssumption, Zenon DEF Step
<1>5. Step(t).set \in Words BY <1>3, Zenon DEF Steps, Words
<1>6. Written(t) \in Words
  <2>1. (value[t] \ Step(t).clear) \union Step(t).set \in Words BY <1>1, <1>5, Zenon DEF Words
  <2>2. shadow_fcr \union Step(t).set \in Words BY <1>1, <1>5, Zenon DEF Words
  <2> QED BY <1>5, <2>1, <2>2, Zenon DEF Written
<1> QED BY <1>3, <1>4, <1>6, Zenon

\* A step of a thread that concerns neither the bus nor its own request.
LEMMA BesideTheBus ==
  ASSUME BusInv, UNCHANGED << mem, rdata, shadow_fcr, request, result, value, program, q,
                              pendingRequest, state, sim, age, phase >>,
         pc' \in [Threads -> Nat \ {0}]
  PROVE  BusInv'
<1>1. Typed' BY Zenon DEF BusInv, Typed
<1>2. OnePlace' BY Zenon DEF BusInv, OnePlace
<1>3. Acknowledge' BY Zenon DEF BusInv, Acknowledge
<1> QED BY <1>1, <1>2, <1>3, Zenon DEF BusInv

\* pc16x50_reg_read and pc16x50_reg_write.
LEMMA AccessInv ==
  ASSUME BusInv, NEW t \in Threads, Access(t)
  PROVE  /\ BusInv' /\ request[t] = NULL /\ result'[t] = NULL /\ pendingRequest' # t
         /\ \E a \in Access_ : request' = [request EXCEPT ![t] = a]
         /\ UNCHANGED << mem, rdata, result, pendingRequest, phase >>
<1>1. Typed /\ OnePlace /\ Acknowledge BY Zenon DEF BusInv
<1>2. /\ Running(t) /\ Step(t).do \in Accessing
      /\ UNCHANGED << mem, rdata, value, result, program, pc, q, pendingRequest, state, sim,
                      age, phase >>
      /\ shadow_fcr' \in {shadow_fcr, Written(t)}
  BY Zenon DEF Access, uart
<1>3. Step(t).reg \in Regs /\ Written(t) \in Words BY <1>1, <1>2, StepTyped, Zenon
<1> DEFINE a == [write |-> Step(t).do # "read", reg |-> Step(t).reg, data |-> Written(t)]
<1>4. a \in Access_ BY <1>3, Zenon DEF Access_, Words
<1>5. request' = [request EXCEPT ![t] = a] BY Zenon DEF Access
<1>6. a # NULL BY <1>4, NullAssumption, Zenon
<1> HIDE DEF a
<1>7. request[t] = NULL /\ result[t] = NULL /\ pendingRequest # t
  BY <1>1, <1>2, NullAssumption, Zenon DEF Running, OnePlace
<1>8. request'[t] = a /\ \A u \in Threads \ {t} : request'[u] = request[u]
  BY <1>1, <1>5, Zenon DEF Typed
<1>9. Typed' BY <1>1, <1>2, <1>3, <1>4, <1>5, Zenon DEF Typed
<1>10. OnePlace'
  <2>1. \A i \in DOMAIN q : q[i] \in Threads BY <1>1 DEF Typed
  <2>2. \A i \in DOMAIN q : request'[q[i]] # NULL BY <1>1, <1>7, <1>8, <2>1, Zenon DEF OnePlace
  <2>3. pendingRequest # NULL => request'[pendingRequest] # NULL
    BY <1>1, <1>7, <1>8, Zenon DEF OnePlace, Typed
  <2>4. \A u \in Threads : request'[u] = NULL => result[u] = NULL
    BY <1>1, <1>6, <1>8, Zenon DEF OnePlace
  <2> QED BY <1>1, <1>2, <2>2, <2>3, <2>4, Zenon DEF OnePlace
<1>11. Acknowledge'
  <2>1. state \in {1, 2} => pendingRequest \in Threads \ {t}
    BY <1>1, <1>7, Zenon DEF OnePlace, Typed
  <2>2. state \in {1, 2} => request'[pendingRequest] = request[pendingRequest]
    BY <1>8, <2>1, Zenon
  <2> QED BY <1>1, <1>2, <2>2, Zenon DEF Acknowledge
<1> QED BY <1>2, <1>4, <1>5, <1>7, <1>9, <1>10, <1>11, Zenon DEF BusInv

\* readMemory and writeMemory put the request into the queue.
LEMMA QueueInv ==
  ASSUME BusInv, NEW t \in Threads, Queue(t)
  PROVE  BusInv'
<1>1. Typed /\ OnePlace /\ Acknowledge BY Zenon DEF BusInv
<1>2. /\ request[t] # NULL /\ result[t] = NULL /\ pendingRequest # t /\ t \notin Range(q)
      /\ q' = Append(q, t)
      /\ UNCHANGED << mem, rdata, shadow_fcr, request, result, value, program, pc,
                      pendingRequest, state, sim, age, phase >>
  BY Zenon DEF Queue, driver, uart
<1>3. q \in Seq(Threads) BY <1>1, Zenon DEF Typed
<1>4. /\ q' \in Seq(Threads) /\ DOMAIN q' = 1..(Len(q) + 1) /\ DOMAIN q = 1..Len(q)
      /\ Len(q) \in Nat
      /\ q'[Len(q) + 1] = t /\ \A i \in 1..Len(q) : q'[i] = q[i]
  BY <1>2, <1>3
<1>5. \A i \in 1..Len(q) : q[i] # t
  BY <1>2, <1>4, Zenon DEF Range
<1>6. Typed' BY <1>1, <1>2, <1>4, Zenon DEF Typed
<1>7. OnePlace'
  <2>1. \A i, j \in DOMAIN q' : q'[i] = q'[j] => i = j
    <3> SUFFICES ASSUME NEW i \in 1..(Len(q) + 1), NEW j \in 1..(Len(q) + 1), q'[i] = q'[j]
                 PROVE  i = j
      BY <1>4, Zenon
    <3>1. CASE i \in 1..Len(q) /\ j \in 1..Len(q) BY <1>1, <1>4, <3>1 DEF OnePlace
    <3>2. CASE i = Len(q) + 1 /\ j \in 1..Len(q) BY <1>4, <1>5, <3>2, Zenon
    <3>3. CASE i \in 1..Len(q) /\ j = Len(q) + 1 BY <1>4, <1>5, <3>3, Zenon
    <3>4. CASE i = Len(q) + 1 /\ j = Len(q) + 1 BY <3>4, Zenon
    <3> QED BY <1>4, <3>1, <3>2, <3>3, <3>4
  <2>2. \A i \in DOMAIN q' : /\ request[q'[i]] # NULL /\ result[q'[i]] = NULL
                             /\ pendingRequest # q'[i]
    <3> SUFFICES ASSUME NEW i \in 1..(Len(q) + 1)
                 PROVE  /\ request[q'[i]] # NULL /\ result[q'[i]] = NULL
                        /\ pendingRequest # q'[i]
      BY <1>4, Zenon
    <3>1. CASE i \in 1..Len(q) BY <1>1, <1>4, <3>1 DEF OnePlace
    <3>2. CASE i = Len(q) + 1 BY <1>2, <1>4, <3>2, Zenon
    <3> QED BY <1>4, <3>1, <3>2
  <2> QED BY <1>1, <1>2, <2>1, <2>2, Zenon DEF OnePlace
<1>8. Acknowledge' BY <1>1, <1>2, Zenon DEF Acknowledge
<1> QED BY <1>6, <1>7, <1>8, Zenon DEF BusInv

\* getResult returns to the thread; its request is nowhere else any more.
LEMMA GetResultInv ==
  ASSUME BusInv, NEW t \in Threads, GetResult(t)
  PROVE  /\ BusInv' /\ request[t] # NULL /\ result[t] \in Words
         /\ request' = [request EXCEPT ![t] = NULL]
         /\ result' = [result EXCEPT ![t] = NULL] /\ pendingRequest # t
         /\ UNCHANGED << mem, rdata, pendingRequest, phase >>
<1>1. Typed /\ OnePlace /\ Acknowledge BY Zenon DEF BusInv
<1>2. /\ request[t] # NULL /\ result[t] # NULL
      /\ request' = [request EXCEPT ![t] = NULL] /\ result' = [result EXCEPT ![t] = NULL]
      /\ pc' = [pc EXCEPT ![t] = pc[t] + 1]
      /\ value' \in {value, [value EXCEPT ![t] = result[t]]}
      /\ UNCHANGED << mem, rdata, shadow_fcr, program, q, pendingRequest, state, sim, age,
                      phase >>
  BY Zenon DEF GetResult, uart
<1>3. result[t] \in Words BY <1>1, <1>2, Zenon DEF Typed
<1>4. /\ pendingRequest # t /\ \A i \in DOMAIN q : q[i] # t
  BY <1>1, <1>2, NullAssumption, Zenon DEF OnePlace
<1>5. /\ request'[t] = NULL /\ result'[t] = NULL
      /\ \A u \in Threads \ {t} : request'[u] = request[u] /\ result'[u] = result[u]
  BY <1>1, <1>2, Zenon DEF Typed
<1>6. Typed'
  <2>1. value' \in [Threads -> Words] BY <1>1, <1>2, <1>3, Zenon DEF Typed
  <2>2. request' \in [Threads -> Access_ \union {NULL}] BY <1>1, <1>2, Zenon DEF Typed
  <2>3. result' \in [Threads -> Words \union {NULL}] BY <1>1, <1>2, Zenon DEF Typed
  <2>4. pc' \in [Threads -> Nat \ {0}] BY <1>1, <1>2 DEF Typed
  <2> QED BY <1>1, <1>2, <2>1, <2>2, <2>3, <2>4, Zenon DEF Typed
<1>7. OnePlace'
  <2>1. \A i \in DOMAIN q : q[i] \in Threads \ {t} BY <1>1, <1>4 DEF Typed
  <2>2. \A i \in DOMAIN q : request'[q[i]] # NULL /\ result'[q[i]] = NULL
    BY <1>1, <1>5, <2>1, Zenon DEF OnePlace
  <2>3. pendingRequest # NULL => /\ request'[pendingRequest] # NULL
                                 /\ result'[pendingRequest] = NULL
    BY <1>1, <1>4, <1>5, Zenon DEF OnePlace, Typed
  <2>4. \A u \in Threads : request'[u] = NULL => result'[u] = NULL
    BY <1>1, <1>5, Zenon DEF OnePlace
  <2> QED BY <1>1, <1>2, <2>2, <2>3, <2>4, Zenon DEF OnePlace
<1>8. Acknowledge'
  <2>1. state \in {1, 2} => pendingRequest \in Threads \ {t}
    BY <1>1, <1>4, Zenon DEF OnePlace, Typed
  <2>2. state \in {1, 2} => request'[pendingRequest] = request[pendingRequest]
    BY <1>5, <2>1, Zenon
  <2> QED BY <1>1, <1>2, <2>2, Zenon DEF Acknowledge
<1> QED BY <1>2, <1>3, <1>4, <1>6, <1>7, <1>8, Zenon DEF BusInv

\* The steps of the threads that make no access, and the interrupt thread.
LEMMA OtherStepsInv ==
  ASSUME BusInv,
         \/ \E t \in Threads : Synchronise(t) \/ SleepAgain(t) \/ Timeout(t)
         \/ PollInterrupt \/ CallHandler \/ UNCHANGED vars
  PROVE  /\ BusInv'
         /\ UNCHANGED << mem, rdata, request, result, pendingRequest, phase >>
<1>1. pc \in [Threads -> Nat \ {0}] BY Zenon DEF BusInv, Typed
<1>2. UNCHANGED << mem, rdata, shadow_fcr, request, result, value, program, q,
                   pendingRequest, state, sim, age, phase >>
  BY Zenon DEF Synchronise, SleepAgain, Timeout, PollInterrupt, CallHandler, vars, uart, driver
<1>3. pc' \in [Threads -> Nat \ {0}]
  <2>1. ASSUME NEW t \in Threads, Synchronise(t) \/ Timeout(t)
        PROVE  pc' \in [Threads -> Nat \ {0}]
    <3>1. pc' = [pc EXCEPT ![t] = pc[t] + 1] BY <2>1, Zenon DEF Synchronise, Timeout
    <3> QED BY <1>1, <3>1
  <2>2. ASSUME NEW t \in Threads, SleepAgain(t) PROVE pc' \in [Threads -> Nat \ {0}]
    <3>1. pc[t] > 2 /\ pc' \in {[pc EXCEPT ![t] = pc[t] + 1], [pc EXCEPT ![t] = pc[t] - 2]}
      BY <2>2, Zenon DEF SleepAgain
    <3>2. pc[t] - 2 \in Nat \ {0} BY <1>1, <3>1
    <3> QED BY <1>1, <3>1, <3>2
  <2>3. CASE PollInterrupt \/ UNCHANGED vars
    BY <1>1, <2>3, Zenon DEF PollInterrupt, vars, driver
  <2>4. CASE CallHandler
    <3>1. pc' = [t \in Threads |-> IF bound /\ Asleep(t) THEN pc[t] + 1 ELSE pc[t]]
      BY <2>4, Zenon DEF CallHandler
    <3>2. \A t \in Threads : pc'[t] \in {pc[t], pc[t] + 1} BY <3>1, Zenon
    <3>3. \A t \in Threads : pc'[t] \in Nat \ {0} BY <1>1, <3>2
    <3> QED BY <3>1, <3>3, Zenon
  <2> QED BY <2>1, <2>2, <2>3, <2>4, Zenon
<1> QED BY <1>2, <1>3, BesideTheBus, Zenon

\* An idle master takes a request when no acknowledge of an access before can
\* reach it any more, but for one the UART drops in this cycle.
LEMMA ControlInv ==
  ASSUME BusInv, controlOutputs
  PROVE  /\ BusInv' /\ UNCHANGED << mem, rdata, request, result, phase >>
         /\ pendingRequest' # pendingRequest => phase # "answered" /\ pendingRequest = NULL
<1>1. Typed /\ OnePlace /\ Acknowledge BY Zenon DEF BusInv
<1>2. /\ sim = "control" /\ sim' = "eval"
      /\ UNCHANGED << mem, rdata, shadow_fcr, request, result, value, program, pc, age,
                      phase >>
  BY Zenon DEF controlOutputs, uart, driver
<1>3. CASE ~reset /\ state = 0 /\ q # << >>
  <2>1. /\ pendingRequest' = Head(q) /\ q' = Tail(q) /\ state' \in {1, 2}
    BY <1>3, Zenon DEF controlOutputs
  <2>2. /\ q \in Seq(Threads) /\ Head(q) \in Threads /\ Head(q) = q[1]
        /\ Tail(q) \in Seq(Threads) /\ 1 \in DOMAIN q
        /\ Len(Tail(q)) = Len(q) - 1
        /\ \A i \in 1..(Len(q) - 1) : Tail(q)[i] = q[i + 1]
        /\ DOMAIN Tail(q) = 1..(Len(q) - 1) /\ DOMAIN q = 1..Len(q) /\ Len(q) \in Nat
    BY <1>1, <1>3 DEF Typed
  <2>3. pendingRequest = NULL /\ phase # "answered" BY <1>1, <1>3 DEF OnePlace, Acknowledge
  <2>4. Typed' BY <1>1, <1>2, <2>1, <2>2 DEF Typed
  <2>5. OnePlace'
    <3>1. \A i, j \in DOMAIN Tail(q) : Tail(q)[i] = Tail(q)[j] => i = j
      <4> SUFFICES ASSUME NEW i \in 1..(Len(q) - 1), NEW j \in 1..(Len(q) - 1),
                          Tail(q)[i] = Tail(q)[j]
                   PROVE  i = j
        BY <2>2, Zenon
      <4>1. q[i + 1] = q[j + 1] /\ i + 1 \in DOMAIN q /\ j + 1 \in DOMAIN q BY <2>2
      <4>2. i + 1 = j + 1 BY <1>1, <4>1, Zenon DEF OnePlace
      <4> QED BY <4>2
    <3>2. \A i \in DOMAIN Tail(q) : /\ request[Tail(q)[i]] # NULL
                                    /\ result[Tail(q)[i]] = NULL /\ Head(q) # Tail(q)[i]
      <4> SUFFICES ASSUME NEW i \in 1..(Len(q) - 1)
                   PROVE  /\ request[Tail(q)[i]] # NULL
                          /\ result[Tail(q)[i]] = NULL /\ Head(q) # Tail(q)[i]
        BY <2>2, Zenon
      <4>1. i + 1 \in DOMAIN q /\ i + 1 # 1 /\ Tail(q)[i] = q[i + 1] BY <2>2
      <4>2. q[1] # q[i + 1] BY <1>1, <2>2, <4>1, Zenon DEF OnePlace
      <4> QED BY <1>1, <2>2, <4>1, <4>2, Zenon DEF OnePlace
    <3>3. /\ Head(q) # NULL /\ request[Head(q)] # NULL /\ result[Head(q)] = NULL
      BY <1>1, <2>2, NullAssumption, Zenon DEF OnePlace
    <3> QED BY <1>1, <1>2, <2>1, <3>1, <3>2, <3>3, Zenon DEF OnePlace
  <2>6. Acknowledge' BY <1>1, <1>2, <1>3, <2>1, <2>3 DEF Acknowledge
  <2> QED BY <1>2, <2>3, <2>4, <2>5, <2>6, Zenon DEF BusInv
<1>4. CASE ~ (~reset /\ state = 0 /\ q # << >>)
  <2>1. UNCHANGED << q, pendingRequest, state >> BY <1>4, Zenon DEF controlOutputs
  <2>2. Typed' /\ OnePlace' BY <1>1, <1>2, <2>1, Zenon DEF Typed, OnePlace
  <2>3. Acknowledge' BY <1>1, <1>2, <2>1, Zenon DEF Acknowledge
  <2> QED BY <1>2, <2>1, <2>2, <2>3, Zenon DEF BusInv
<1> QED BY <1>3, <1>4, Zenon

\* The register file stays one, whatever is accessed.
LEMMA FileTyped ==
  ASSUME NEW m \in [Regs -> Words], NEW a \in Access_
  PROVE  /\ Effect(m, a) \in [Regs -> Words] /\ Value(m, a) \in Words
         /\ a.write => Value(m, a) = {}
<1>1. a.reg \in Regs /\ a.data \in Words BY Zenon DEF Access_, Words
<1>2. Target(m, a.reg) \in Regs
  <2>1. {"RBR", "DLL", "IER", "DLM"} \subseteq Regs BY Zenon DEF Regs
  <2> QED BY <1>1, <2>1, Zenon DEF Target
<1>3. {} \in Words BY Zenon DEF Words
<1> QED BY <1>1, <1>2, <1>3, Zenon DEF Effect, Value

\* The UART at a clock edge: it answers an access once.
Answers ==
  /\ cyc /\ phase = "idle" /\ phase' = "answered" /\ age' = 0
  /\ rdata' = Value(mem, request[pendingRequest])
  /\ mem' = Effect(mem, request[pendingRequest])

\* The clock edge: an answer, or the acknowledge of an access that is over.
LEMMA EvalInv ==
  ASSUME BusInv, eval
  PROVE  /\ BusInv' /\ UNCHANGED << request, result, pendingRequest >>
         /\ \/ Answers /\ pendingRequest # NULL
            \/ /\ UNCHANGED << mem, rdata >> /\ phase' # "answered"
               /\ phase = "answered" => pendingRequest = NULL
<1>1. Typed /\ OnePlace /\ Acknowledge BY Zenon DEF BusInv
<1>2. /\ sim = "eval" /\ sim' = "handle"
      /\ UNCHANGED << shadow_fcr, request, result, value, program, pc, q, pendingRequest,
                      state >>
  BY Zenon DEF eval, driver
<1>3. OnePlace' BY <1>1, <1>2, Zenon DEF OnePlace
<1>4. phase = "answered" => state = 3 /\ pendingRequest = NULL
  BY <1>1, <1>2 DEF Acknowledge, OnePlace
<1>5. CASE Answers
  <2>1. pendingRequest \in Threads /\ pendingRequest # NULL
    BY <1>1, <1>5, Zenon DEF Answers, cyc, OnePlace, Typed
  <2>2. request[pendingRequest] \in Access_ BY <1>1, <2>1, Zenon DEF OnePlace, Typed
  <2>3. /\ mem' \in [Regs -> Words] /\ rdata' \in Words
        /\ request[pendingRequest].write => rdata' = {}
    BY <1>1, <1>5, <2>2, FileTyped, Zenon DEF Answers, Typed
  <2>4. Typed' BY <1>1, <1>2, <1>5, <2>3, Zenon DEF Typed, Answers
  <2>5. Acknowledge' BY <1>2, <1>5, <2>3, Zenon DEF Acknowledge, Answers, cyc
  <2> QED BY <1>2, <1>3, <1>5, <2>1, <2>4, <2>5, Zenon DEF BusInv
<1>6. CASE phase = "idle" /\ phase' = "idle" /\ age' \in {age, age + 1} /\ UNCHANGED << mem, rdata >>
  <2>1. Typed' BY <1>1, <1>2, <1>6 DEF Typed
  <2>2. Acknowledge' BY <1>6, Zenon DEF Acknowledge
  <2> QED BY <1>2, <1>3, <1>6, <2>1, <2>2, Zenon DEF BusInv
<1>7. CASE /\ phase # "idle" /\ age < AckLag /\ phase' = "lag" /\ age' = age + 1
           /\ UNCHANGED << mem, rdata >>
  <2>1. Typed' BY <1>1, <1>2, <1>7 DEF Typed
  <2>2. age < 2 BY <1>1, <1>7, DelayAssumption DEF Typed
  <2>3. Acknowledge'
    <3>1. CASE phase = "answered"
      BY <1>1, <1>2, <1>4, <1>7, <3>1 DEF Acknowledge
    <3>2. CASE phase = "lag"
      <4>1. state = 4 /\ age = 1 BY <1>1, <1>2, <2>2, <3>2 DEF Acknowledge
      <4> QED BY <1>2, <1>7, <4>1 DEF Acknowledge
    <3> QED BY <1>1, <1>7, <3>1, <3>2, Zenon DEF Typed
  <2> QED BY <1>2, <1>3, <1>4, <1>7, <2>1, <2>3, Zenon DEF BusInv
<1>8. CASE phase # "idle" /\ phase' = "idle" /\ age' = 0 /\ UNCHANGED << mem, rdata >>
  <2>1. Typed' BY <1>1, <1>2, <1>8, Zenon DEF Typed
  <2>2. Acknowledge' BY <1>8, Zenon DEF Acknowledge
  <2> QED BY <1>2, <1>3, <1>4, <1>8, <2>1, <2>2, Zenon DEF BusInv
<1>9. \/ Answers
      \/ phase = "idle" /\ phase' = "idle" /\ age' \in {age, age + 1} /\ UNCHANGED << mem, rdata >>
      \/ /\ phase # "idle" /\ age < AckLag /\ phase' = "lag" /\ age' = age + 1
         /\ UNCHANGED << mem, rdata >>
      \/ phase # "idle" /\ phase' = "idle" /\ age' = 0 /\ UNCHANGED << mem, rdata >>
  BY Zenon DEF eval, Answers
<1> QED BY <1>5, <1>6, <1>7, <1>8, <1>9, Zenon

\* handleInputs: an acknowledge that the master sees belongs to its request.
LEMMA HandleInv ==
  ASSUME BusInv, handleInputs
  PROVE  /\ BusInv' /\ UNCHANGED << mem, rdata, phase, request >>
         /\ \/ UNCHANGED << result, pendingRequest >>
            \/ /\ pendingRequest \in Threads /\ pendingRequest' = NULL /\ phase = "answered"
               /\ request[pendingRequest] # NULL /\ result[pendingRequest] = NULL
               /\ result' = [result EXCEPT ![pendingRequest] = rdata]
<1>1. Typed /\ OnePlace /\ Acknowledge BY Zenon DEF BusInv
<1>2. /\ sim = "handle" /\ sim' = "control" /\ state' = nextState(wb_ack)
      /\ UNCHANGED << mem, rdata, phase, age, shadow_fcr, program, pc, value, request, q >>
  BY Zenon DEF handleInputs, uart
<1>3. CASE cyc /\ wb_ack
  <2>1. phase = "answered" /\ age = 0 /\ state \in {1, 2}
    BY <1>1, <1>2, <1>3 DEF cyc, wb_ack, Acknowledge, Typed
  <2>2. pendingRequest # NULL /\ pendingRequest \in Threads
    BY <1>1, <2>1, Zenon DEF OnePlace, Typed
  <2>3. state' = 3 BY <1>2, <1>3, <2>1 DEF nextState
  <2>4. request[pendingRequest].write => rdata = {} BY <1>1, <2>1, Zenon DEF Acknowledge
  <2>5. pendingRequest' = NULL /\ result' = [result EXCEPT ![pendingRequest] = rdata]
    BY <1>3, <2>4, Zenon DEF handleInputs
  <2>6. Typed'
    <3>1. result' \in [Threads -> Words \union {NULL}] BY <1>1, <2>2, <2>5, Zenon DEF Typed
    <3> QED BY <1>1, <1>2, <2>3, <2>5, <3>1 DEF Typed
  <2>7. request[pendingRequest] # NULL /\ result[pendingRequest] = NULL
    BY <1>1, <2>2, Zenon DEF OnePlace
  <2>8. OnePlace'
    <3>1. \A u \in Threads \ {pendingRequest} : result'[u] = result[u]
      BY <1>1, <2>5, Zenon DEF Typed
    <3>2. \A i \in DOMAIN q : q[i] \in Threads \ {pendingRequest}
      BY <1>1 DEF OnePlace, Typed
    <3>3. \A i \in DOMAIN q : result'[q[i]] = NULL /\ NULL # q[i]
      BY <1>1, <3>1, <3>2, NullAssumption, Zenon DEF OnePlace
    <3>4. \A u \in Threads : request[u] = NULL => result'[u] = NULL
      BY <1>1, <2>7, <3>1, Zenon DEF OnePlace
    <3> QED BY <1>1, <1>2, <2>3, <2>5, <3>3, <3>4 DEF OnePlace
  <2>9. Acknowledge' BY <1>2, <2>1, <2>3 DEF Acknowledge
  <2> QED BY <1>2, <2>1, <2>2, <2>5, <2>6, <2>7, <2>8, <2>9, Zenon DEF BusInv
<1>4. CASE ~ (cyc /\ wb_ack)
  <2>1. UNCHANGED << result, pendingRequest >> BY <1>4, Zenon DEF handleInputs
  <2>2. /\ state \in {1, 2} => state' = state /\ phase = "idle"
        /\ state = 3 => state' = 4
        /\ state \in {0, 4} => state' = 0
    BY <1>2, <1>4 DEF nextState, cyc, wb_ack
  <2>3. state' \in 0..4 /\ (state' \in {1, 2} <=> state \in {1, 2})
    BY <1>1, <2>2 DEF Typed
  <2>4. Typed' BY <1>1, <1>2, <2>1, <2>3, Zenon DEF Typed
  <2>5. OnePlace' BY <1>1, <1>2, <2>1, <2>3, Zenon DEF OnePlace
  <2>6. Acknowledge'
    <3>1. phase # "answered" BY <1>1, <1>2, <2>2, Zenon DEF Acknowledge
    <3>2. phase = "lag" => (state = 3 /\ age = 1) \/ (state = 4 /\ age = 2)
      BY <1>1, <1>2, Zenon DEF Acknowledge
    <3> QED BY <1>2, <2>2, <3>1, <3>2, Zenon DEF Acknowledge
  <2> QED BY <1>2, <2>1, <2>4, <2>5, <2>6, Zenon DEF BusInv
<1> QED BY <1>3, <1>4, Zenon

\* No access is under way when the simulation starts.
LEMMA InitInv == Init => BusInv
<1> SUFFICES ASSUME Init PROVE BusInv BY Zenon
<1>1. \A t \in Threads : program[t] \in Seq(Steps)
  BY ProgramAssumption, Zenon DEF Init
<1>2. program \in [Threads -> Seq(Steps)]
  <2>1. program \in [Threads -> UNION {Programs[t] : t \in Threads}] BY Zenon DEF Init
  <2> QED BY <1>1, <2>1, Zenon
<1>3. {} \in Words BY Zenon DEF Words
<1>4. Typed BY <1>2, <1>3 DEF Init, Typed
<1>5. OnePlace /\ Acknowledge BY NullAssumption DEF Init, OnePlace, Acknowledge
<1> QED BY <1>4, <1>5, Zenon DEF BusInv

\* Every step keeps the invariant.
LEMMA NextInv ==
  ASSUME BusInv, [Next]_vars
  PROVE  BusInv'
<1>1. ASSUME NEW t \in Threads, Driver(t) \/ Timeout(t) PROVE BusInv'
  BY <1>1, AccessInv, QueueInv, GetResultInv, OtherStepsInv, Zenon DEF Driver
<1>2. CASE simulationLoop
  BY <1>2, ControlInv, EvalInv, HandleInv, Zenon DEF simulationLoop
<1>3. CASE PollInterrupt \/ CallHandler \/ UNCHANGED vars
  BY <1>3, OtherStepsInv, Zenon
<1> QED BY <1>1, <1>2, <1>3, Zenon DEF Next

-----------------------------------------------------------------------------
(* The refinement.                                                         *)

\* What the abstract specification sees of a thread.
LEMMA Seen ==
  ASSUME NEW t \in Threads
  PROVE  /\ request[t] = NULL => AccessOf(t) = [idle |-> TRUE]
         /\ request[t] # NULL /\ result[t] # NULL => AccessOf(t) = [ret |-> result[t]]
         /\ request[t] # NULL /\ result[t] = NULL /\ pendingRequest = t /\ phase = "answered"
              => AccessOf(t) = [ret |-> rdata]
         /\ request[t] # NULL /\ result[t] = NULL
              /\ ~(pendingRequest = t /\ phase = "answered")
              => AccessOf(t) = [call |-> request[t]]
BY Zenon DEF AccessOf

\* The same after a step.
LEMMA SeenNext ==
  ASSUME NEW t \in Threads
  PROVE  /\ request'[t] = NULL => AccessOf(t)' = [idle |-> TRUE]
         /\ request'[t] # NULL /\ result'[t] # NULL => AccessOf(t)' = [ret |-> result'[t]]
         /\ request'[t] # NULL /\ result'[t] = NULL /\ pendingRequest' = t
              /\ phase' = "answered" => AccessOf(t)' = [ret |-> rdata']
         /\ request'[t] # NULL /\ result'[t] = NULL
              /\ ~(pendingRequest' = t /\ phase' = "answered")
              => AccessOf(t)' = [call |-> request'[t]]
BY Zenon DEF AccessOf

\* A step that no thread sees.
LEMMA Stutter ==
  ASSUME mem' = mem, \A t \in Threads : AccessOf(t)' = AccessOf(t)
  PROVE  UNCHANGED Bus!vars
BY Zenon DEF Bus!vars

\* A step that one thread sees.
LEMMA OneThread ==
  ASSUME NEW t \in Threads, NEW seen, AccessOf(t)' = seen,
         \A u \in Threads \ {t} : AccessOf(u)' = AccessOf(u)
  PROVE  [u \in Threads |-> AccessOf(u)]' = [[u \in Threads |-> AccessOf(u)] EXCEPT ![t] = seen]
BY Zenon

\* Every step is a step of the abstract bus, or is not seen: a call when the
\* request is made up, the access itself when the UART answers, the return
\* when the promise is kept.
LEMMA StepRefines ==
  ASSUME BusInv, BusInv', [Next]_vars
  PROVE  [Bus!Next]_(Bus!vars)
<1> DEFINE access == [u \in Threads |-> AccessOf(u)]
<1>1. Typed /\ OnePlace /\ Acknowledge BY Zenon DEF BusInv
<1>2. ASSUME UNCHANGED << mem, rdata, request, result, pendingRequest, phase >>
      PROVE  UNCHANGED Bus!vars
  <2>1. \A t \in Threads : AccessOf(t)' = AccessOf(t) BY <1>2, Zenon DEF AccessOf
  <2> QED BY <1>2, <2>1, Stutter, Zenon
<1>3. ASSUME NEW t \in Threads, Access(t) PROVE Bus!Next
  <2>1. PICK a \in Access_ : request' = [request EXCEPT ![t] = a] BY <1>3, AccessInv, Zenon
  <2>2. /\ request[t] = NULL /\ result'[t] = NULL /\ pendingRequest' # t
        /\ UNCHANGED << mem, rdata, result, pendingRequest, phase >>
    BY <1>3, AccessInv, Zenon
  <2>3. request'[t] = a /\ a # NULL /\ \A u \in Threads \ {t} : request'[u] = request[u]
    BY <1>1, <2>1, NullAssumption, Zenon DEF Typed
  <2>4. AccessOf(t) = [idle |-> TRUE] /\ AccessOf(t)' = [call |-> a]
    BY <2>2, <2>3, Seen, SeenNext, Zenon
  <2>5. \A u \in Threads \ {t} : AccessOf(u)' = AccessOf(u)
    BY <2>2, <2>3, Zenon DEF AccessOf
  <2>6. access' = [access EXCEPT ![t] = [call |-> a]] BY <2>4, <2>5, OneThread, Zenon
  <2>7. access[t] = [idle |-> TRUE] /\ access'[t] = [call |-> a] BY <2>4, Zenon
  <2>8. [call |-> a] \in [call : Access_] BY Zenon
  <2>9. Bus!Call(t) BY <2>2, <2>6, <2>7, <2>8, Zenon DEF Bus!Call
  <2> QED BY <2>9, Zenon DEF Bus!Next
<1>4. ASSUME NEW t \in Threads, GetResult(t) PROVE Bus!Next
  <2>1. /\ request[t] # NULL /\ result[t] \in Words
        /\ request' = [request EXCEPT ![t] = NULL] /\ result' = [result EXCEPT ![t] = NULL]
        /\ UNCHANGED << mem, rdata, pendingRequest, phase >>
    BY <1>4, GetResultInv, Zenon
  <2>2. result[t] # NULL BY <2>1, NullAssumption, Zenon DEF Words
  <2>3. /\ request'[t] = NULL
        /\ \A u \in Threads \ {t} : request'[u] = request[u] /\ result'[u] = result[u]
    BY <1>1, <2>1, Zenon DEF Typed
  <2>4. AccessOf(t) = [ret |-> result[t]] /\ AccessOf(t)' = [idle |-> TRUE]
    BY <2>1, <2>2, <2>3, Seen, SeenNext, Zenon
  <2>5. \A u \in Threads \ {t} : AccessOf(u)' = AccessOf(u)
    BY <2>1, <2>3, Zenon DEF AccessOf
  <2>6. access' = [access EXCEPT ![t] = [idle |-> TRUE]] BY <2>4, <2>5, OneThread, Zenon
  <2>7. access[t] \in [ret : SUBSET Bits] BY <2>1, <2>4 DEF Words
  <2>8. Bus!Return(t) BY <2>1, <2>6, <2>7, Zenon DEF Bus!Return
  <2> QED BY <2>8, Zenon DEF Bus!Next
<1>5. ASSUME NEW t \in Threads, Queue(t) PROVE UNCHANGED Bus!vars
  BY <1>2, <1>5, Zenon DEF Queue, driver, uart
<1>6. CASE controlOutputs
  <2>1. /\ UNCHANGED << mem, rdata, request, result, phase >>
        /\ pendingRequest' # pendingRequest => phase # "answered"
    BY <1>6, ControlInv, Zenon
  <2>2. \A t \in Threads : AccessOf(t)' = AccessOf(t) BY <2>1, Zenon DEF AccessOf
  <2> QED BY <2>1, <2>2, Stutter, Zenon
<1>7. CASE eval
  <2>1. UNCHANGED << request, result, pendingRequest >> BY <1>7, EvalInv, Zenon
  <2>2. ASSUME Answers, pendingRequest # NULL PROVE Bus!Next
    <3>1. PICK t \in Threads : t = pendingRequest BY <1>1, <2>2, Zenon DEF Typed
    <3>2. request[t] # NULL /\ result[t] = NULL /\ request[t] \in Access_
      BY <1>1, <2>2, <3>1, Zenon DEF OnePlace, Typed
    <3>3. /\ phase = "idle" /\ phase' = "answered" /\ rdata' = Value(mem, request[t])
          /\ mem' = Effect(mem, request[t])
      BY <2>2, <3>1, Zenon DEF Answers
    <3>4. AccessOf(t) = [call |-> request[t]] BY <3>2, <3>3, Seen, Zenon
    <3>5. AccessOf(t)' = [ret |-> Value(mem, request[t])]
      BY <2>1, <3>1, <3>2, <3>3, SeenNext, Zenon
    <3>6. \A u \in Threads \ {t} : AccessOf(u)' = AccessOf(u)
      BY <2>1, <3>1, <3>3, Zenon DEF AccessOf
    <3>7. access' = [access EXCEPT ![t] = [ret |-> Value(mem, request[t])]]
      BY <3>5, <3>6, OneThread, Zenon
    <3>8. access[t] = [call |-> request[t]] BY <3>4, Zenon
    <3>9. access[t] \in [call : Access_] /\ access[t].call = request[t] BY <3>2, <3>8
    <3>10. Bus!Serve(t) BY <3>3, <3>7, <3>9, Zenon DEF Bus!Serve
    <3> QED BY <3>10, Zenon DEF Bus!Next
  <2>3. ASSUME UNCHANGED << mem, rdata >>, phase' # "answered",
               phase = "answered" => pendingRequest = NULL
        PROVE  UNCHANGED Bus!vars
    <3>1. \A t \in Threads : t # NULL BY NullAssumption, Zenon
    <3>2. \A t \in Threads : AccessOf(t)' = AccessOf(t) BY <2>1, <2>3, <3>1, Zenon DEF AccessOf
    <3> QED BY <2>3, <3>2, Stutter, Zenon
  <2> QED BY <1>7, <2>2, <2>3, EvalInv, Zenon
<1>8. CASE handleInputs
  <2>1. UNCHANGED << mem, rdata, phase, request >> BY <1>8, HandleInv, Zenon
  <2>2. CASE UNCHANGED << result, pendingRequest >> BY <1>2, <2>1, <2>2, Zenon
  <2>3. ASSUME /\ pendingRequest \in Threads /\ pendingRequest' = NULL
               /\ phase = "answered" /\ request[pendingRequest] # NULL
               /\ result[pendingRequest] = NULL
               /\ result' = [result EXCEPT ![pendingRequest] = rdata]
        PROVE  UNCHANGED Bus!vars
    <3>1. PICK t \in Threads : t = pendingRequest BY <2>3, Zenon
    <3>2. rdata # NULL BY <1>1, NullAssumption, Zenon DEF Typed, Words
    <3>3. result'[t] = rdata /\ \A u \in Threads \ {t} : result'[u] = result[u]
      BY <1>1, <2>3, <3>1, Zenon DEF Typed
    <3>4. AccessOf(t) = [ret |-> rdata] /\ AccessOf(t)' = [ret |-> rdata]
      <4>1. /\ request[t] # NULL /\ result[t] = NULL /\ pendingRequest = t
            /\ phase = "answered" /\ request'[t] # NULL /\ result'[t] # NULL
        BY <2>1, <2>3, <3>1, <3>2, <3>3, Zenon
      <4>2. AccessOf(t) = [ret |-> rdata] BY <4>1, Seen, Zenon
      <4>3. AccessOf(t)' = [ret |-> result'[t]] BY <4>1, SeenNext, Zenon
      <4> QED BY <3>3, <4>2, <4>3, Zenon
    <3>5. \A u \in Threads \ {t} : AccessOf(u)' = AccessOf(u)
      BY <2>1, <2>3, <3>1, <3>3, NullAssumption, Zenon DEF AccessOf
    <3>6. \A u \in Threads : AccessOf(u)' = AccessOf(u) BY <3>4, <3>5, Zenon
    <3> QED BY <2>1, <3>6, Stutter, Zenon
  <2> QED BY <1>8, <2>2, <2>3, HandleInv, Zenon
<1>9. CASE \/ \E t \in Threads : Synchronise(t) \/ SleepAgain(t) \/ Timeout(t)
           \/ PollInterrupt \/ CallHandler \/ UNCHANGED vars
  BY <1>2, <1>9, OtherStepsInv, Zenon
<1> QED BY <1>3, <1>4, <1>5, <1>6, <1>7, <1>8, <1>9, Zenon DEF Next, Driver, simulationLoop

\* For any number of threads, any programs and any delay of the UART, the
\* request queue, the Wishbone master and its two idle cycles carry out each
\* access of wbReadMemory and wbWriteMemory at one instant between its call
\* and its return, and return what that instant gave.
THEOREM AccessesAreAtomic == Spec => ImplementsBus
<1>1. BusInv /\ [Next]_vars => BusInv' BY NextInv, Zenon
<1>2. Init => Bus!Init
  <2> SUFFICES ASSUME Init PROVE Bus!Init BY Zenon
  <2>1. \A t \in Threads : AccessOf(t) = [idle |-> TRUE] BY Seen, Zenon DEF Init
  <2>2. mem \in [Regs -> SUBSET Bits] BY Zenon DEF Init
  <2> QED BY <2>1, <2>2, Zenon DEF Bus!Init
<1>3. BusInv /\ BusInv' /\ [Next]_vars => [Bus!Next]_(Bus!vars) BY StepRefines, Zenon
<1> QED BY <1>1, <1>2, <1>3, InitInv, PTL DEF Spec, ImplementsBus, Bus!Spec

-----------------------------------------------------------------------------
(* What the registers hold.                                                *)

AtStep(t) == pc[t] \in DOMAIN program[t]

\* The thread is at a step that touches LCR or what depends on it.
Holds(t) == AtStep(t) /\ Touches(Step(t))

\* The access of a thread is carried out; what it returns; the step of the
\* thread as the UART sees it.
Served(t) == request[t] # NULL /\ ~Unserved(t)
Return(t) == IF result[t] # NULL THEN result[t] ELSE rdata
After(t) == IF Served(t) THEN pc[t] + 1 ELSE pc[t]

\* Who has awaited the first events finds that they were posted, and who
\* posted them is past that.
Order ==
  /\ \A t \in Threads : \A k \in DOMAIN program[t] :
       k < pc[t] /\ program[t][k].do = "wait" => "post" \in signals
  /\ "post" \in signals =>
       \E t \in Threads : \E k \in DOMAIN program[t] : k < pc[t] /\ program[t][k].do = "post"

\* A request is what the step of its thread asks for.
Asked ==
  \A t \in Threads : request[t] # NULL =>
    /\ AtStep(t) /\ Step(t).do \in Accessing /\ request[t].reg = Step(t).reg
    /\ request[t].write = (Step(t).do # "read")
    /\ request[t].write => ("DLAB" \in request[t].data <=> "DLAB" \in Step(t).set)

\* The divisor latch is selected while the program of a thread has it so, and
\* the bit that selects it is nowhere else.
Selected ==
  /\ "DLAB" \in mem["LCR"] <=> \E t \in Threads : Latched(program[t], After(t))
  /\ \A r \in Regs \ {"LCR"} : "DLAB" \notin mem[r]
  /\ "DLAB" \notin shadow_fcr
  /\ \A t \in Threads : /\ "DLAB" \notin value[t]
                        /\ Served(t) => "DLAB" \notin Return(t)

\* From the read of IER on until the write is carried out, IER holds what was
\* read.
Current ==
  \A t \in Threads :
    /\ Served(t) /\ Step(t).do = "read" /\ Step(t).reg = "IER" => Return(t) = mem["IER"]
    /\ AtStep(t) /\ Step(t).do = "modify" /\ Step(t).reg = "IER" /\ ~Served(t)
         => value[t] = mem["IER"]

RegsInv == BusInv /\ Order /\ Asked /\ Selected /\ Current

\* What is known of the program of a thread.
LEMMA ProgramFacts ==
  ASSUME Typed, NEW t \in Threads
  PROVE  /\ program[t] \in Seq(Steps) /\ Len(program[t]) \in Nat
         /\ DOMAIN program[t] = 1..Len(program[t])
         /\ pc[t] \in Nat \ {0} /\ Orderly(program[t]) /\ program[t] \in Programs[t]
BY OrderAssumption DEF Typed

\* A step that writes LCR selects the latch or not; no other step does.
LEMMA LatchStep ==
  ASSUME NEW p \in Seq(Steps), NEW i \in DOMAIN p
  PROVE  /\ WritesLCR(p[i]) => (Latched(p, i + 1) <=> "DLAB" \in p[i].set)
         /\ ~WritesLCR(p[i]) => (Latched(p, i + 1) <=> Latched(p, i))
<1>1. DOMAIN p = 1..Len(p) /\ Len(p) \in Nat OBVIOUS
<1>2. \A j \in DOMAIN p : j < i + 1 <=> j < i \/ j = i BY <1>1
<1>3. ~(i < i) /\ \A k \in DOMAIN p : ~(i < k /\ k < i + 1) BY <1>1
<1>4. ASSUME WritesLCR(p[i]) PROVE Latched(p, i + 1) <=> "DLAB" \in p[i].set
  <2>1. ASSUME "DLAB" \in p[i].set PROVE Latched(p, i + 1)
    BY <1>2, <1>3, <1>4, <2>1, Zenon DEF Latched
  <2>2. ASSUME Latched(p, i + 1) PROVE "DLAB" \in p[i].set
    <3>1. PICK j \in DOMAIN p :
            /\ j < i + 1 /\ "DLAB" \in p[j].set
            /\ \A k \in DOMAIN p : j < k /\ k < i + 1 => ~WritesLCR(p[k])
      BY <2>2, Zenon DEF Latched
    <3>2. ~(j < i) BY <1>1, <1>4, <3>1
    <3> QED BY <1>2, <3>1, <3>2, Zenon
  <2> QED BY <2>1, <2>2, Zenon
<1>5. ASSUME ~WritesLCR(p[i]) PROVE Latched(p, i + 1) <=> Latched(p, i)
  <2>1. ASSUME Latched(p, i) PROVE Latched(p, i + 1)
    <3>1. PICK j \in DOMAIN p :
            /\ j < i /\ WritesLCR(p[j]) /\ "DLAB" \in p[j].set
            /\ \A k \in DOMAIN p : j < k /\ k < i => ~WritesLCR(p[k])
      BY <2>1, Zenon DEF Latched
    <3>2. \A k \in DOMAIN p : j < k /\ k < i + 1 => ~WritesLCR(p[k]) BY <1>2, <1>5, <3>1, Zenon
    <3> QED BY <1>2, <3>1, <3>2, Zenon DEF Latched
  <2>2. ASSUME Latched(p, i + 1) PROVE Latched(p, i)
    <3>1. PICK j \in DOMAIN p :
            /\ j < i + 1 /\ WritesLCR(p[j]) /\ "DLAB" \in p[j].set
            /\ \A k \in DOMAIN p : j < k /\ k < i + 1 => ~WritesLCR(p[k])
      BY <2>2, Zenon DEF Latched
    <3>2. j < i BY <1>2, <1>5, <3>1, Zenon
    <3>3. \A k \in DOMAIN p : j < k /\ k < i => ~WritesLCR(p[k]) BY <1>2, <3>1, Zenon
    <3> QED BY <3>1, <3>2, <3>3, Zenon DEF Latched
  <2> QED BY <2>1, <2>2, Zenon
<1> QED BY <1>4, <1>5, Zenon

\* Beyond its end a program leaves the latch as it was at the end.
LEMMA LatchEnd ==
  ASSUME NEW p \in Seq(Steps), Orderly(p), NEW i \in Nat, i > Len(p)
  PROVE  ~Latched(p, i)
<1>1. DOMAIN p = 1..Len(p) /\ Len(p) \in Nat OBVIOUS
<1>2. \A j \in DOMAIN p : j < i /\ j < Len(p) + 1 BY <1>1
<1>3. Latched(p, i) => Latched(p, Len(p) + 1) BY <1>2, Zenon DEF Latched
<1> QED BY <1>3, Zenon DEF Orderly

\* Two threads are never both at steps that touch LCR or what depends on it.
LEMMA OneHolder ==
  ASSUME Typed, Order, NEW t \in Threads, NEW u \in Threads, Holds(t), Holds(u)
  PROVE  t = u
<1>1. ASSUME NEW v \in Threads, Holds(v)
      PROVE  \/ Early(program[v], pc[v]) /\ Signals(v, "post")
             \/ Late(program[v], pc[v]) /\ Signals(v, "wait") /\ "post" \in signals
  <2>1. /\ Orderly(program[v]) /\ program[v] \in Programs[v] /\ pc[v] \in DOMAIN program[v]
        /\ Touches(program[v][pc[v]])
    BY <1>1, ProgramFacts, Zenon DEF Holds, AtStep, Step
  <2>2. CASE Early(program[v], pc[v]) BY <2>1, <2>2, Zenon DEF Early, Signals
  <2>3. CASE Late(program[v], pc[v]) BY <2>1, <2>3, Zenon DEF Late, Signals, Order
  <2> QED BY <2>1, <2>2, <2>3, Zenon DEF Orderly
<1>2. ASSUME NEW v \in Threads, Holds(v), Early(program[v], pc[v]), Signals(v, "post"),
             "post" \in signals
      PROVE  FALSE
  <2>1. PICK w \in Threads : \E k \in DOMAIN program[w] : k < pc[w] /\ program[w][k].do = "post"
    BY <1>2, Zenon DEF Order
  <2>2. Signals(w, "post") BY <2>1, ProgramFacts, Zenon DEF Signals
  <2>3. w = v BY <1>2, <2>2, OrderAssumption, Zenon
  <2>4. PICK k \in DOMAIN program[v] : k < pc[v] /\ program[v][k].do = "post" BY <2>1, <2>3, Zenon
  <2>5. k <= pc[v] BY <2>4, ProgramFacts
  <2> QED BY <1>2, <2>4, <2>5, Zenon DEF Early
<1>3. Signals(t, "post") /\ Signals(u, "post") => t = u BY OrderAssumption, Zenon
<1>4. Signals(t, "wait") /\ Signals(u, "wait") => t = u BY OrderAssumption, Zenon
<1> QED BY <1>1, <1>2, <1>3, <1>4, Zenon

\* A thread whose program has the latch selected is at such a step.
LEMMA LatchHolder ==
  ASSUME Typed, Asked, NEW t \in Threads, Latched(program[t], After(t))
  PROVE  Holds(t)
<1>1. /\ program[t] \in Seq(Steps) /\ Len(program[t]) \in Nat
      /\ DOMAIN program[t] = 1..Len(program[t])
      /\ pc[t] \in Nat \ {0} /\ Orderly(program[t])
  BY ProgramFacts, Zenon
<1>2. CASE ~Served(t)
  <2>1. Latched(program[t], pc[t]) BY <1>2, Zenon DEF After
  <2>2. pc[t] \in DOMAIN program[t] BY <1>1, <2>1, LatchEnd
  <2> QED BY <1>1, <2>1, <2>2, Zenon DEF Orderly, Holds, AtStep, Step
<1>3. CASE Served(t)
  <2>1. Latched(program[t], pc[t] + 1) BY <1>3, Zenon DEF After
  <2>2. /\ pc[t] \in DOMAIN program[t] /\ program[t][pc[t]].do \in Accessing
    BY <1>3, Zenon DEF Served, Asked, AtStep, Step
  <2>3. CASE WritesLCR(program[t][pc[t]])
    BY <2>2, <2>3, Zenon DEF WritesLCR, Holds, AtStep, Step, Touches
  <2>4. CASE ~WritesLCR(program[t][pc[t]])
    <3>1. Latched(program[t], pc[t]) BY <1>1, <2>1, <2>2, <2>4, LatchStep, Zenon
    <3> QED BY <1>1, <2>2, <3>1, Zenon DEF Orderly, Holds, AtStep, Step
  <2> QED BY <2>3, <2>4, Zenon
<1> QED BY <1>2, <1>3, Zenon

\* The UART decodes the register that a request names.
LEMMA RequestHits ==
  ASSUME RegsInv, NEW t \in Threads, Unserved(t)
  PROVE  /\ Target(mem, request[t].reg) = request[t].reg
         /\ "DLAB" \in mem["LCR"] /\ Holds(t) => Latched(program[t], pc[t])
<1>1. Typed /\ Order /\ Asked /\ Selected BY Zenon DEF RegsInv, BusInv
<1>2. /\ pc[t] \in DOMAIN program[t] /\ Step(t).do \in Accessing
      /\ request[t].reg = Step(t).reg /\ Step(t) = program[t][pc[t]]
  BY <1>1, Zenon DEF Unserved, Asked, AtStep, Step
<1>3. After(t) = pc[t] BY Zenon DEF After, Served
<1>4. Orderly(program[t]) BY <1>1, ProgramFacts, Zenon
<1>5. "DLAB" \in mem["LCR"] /\ Holds(t) => Latched(program[t], pc[t])
  BY <1>1, <1>3, LatchHolder, OneHolder, Zenon DEF Selected
<1>6. Latched(program[t], pc[t]) => "DLAB" \in mem["LCR"] BY <1>1, <1>3, Zenon DEF Selected
<1>7. CASE Step(t).reg \in {"RBR", "IER"}
  <2>1. Holds(t) BY <1>2, <1>7, Zenon DEF Holds, AtStep, Touches
  <2>2. ~Latched(program[t], pc[t]) BY <1>2, <1>4, <1>7, Zenon DEF Orderly
  <2> QED BY <1>2, <1>5, <1>7, <2>1, <2>2, Zenon DEF Target
<1>8. CASE Step(t).reg \in {"DLL", "DLM"}
  <2>1. Latched(program[t], pc[t]) BY <1>2, <1>4, <1>8, Zenon DEF Orderly
  <2> QED BY <1>2, <1>5, <1>6, <1>8, <2>1, Zenon DEF Target
<1>9. CASE Step(t).reg \notin {"RBR", "IER", "DLL", "DLM"} BY <1>2, <1>5, <1>9, Zenon DEF Target
<1> QED BY <1>7, <1>8, <1>9, Zenon

\* A step that neither the threads nor the registers take part in.
LEMMA QuietInv ==
  ASSUME RegsInv, BusInv',
         UNCHANGED << mem, shadow_fcr, value, program, pc, request, signals >>,
         \A t \in Threads : /\ Served(t)' <=> Served(t)
                            /\ Served(t) => Return(t)' = Return(t)
  PROVE  RegsInv'
<1>1. Order /\ Asked /\ Selected /\ Current BY Zenon DEF RegsInv
<1>2. \A t \in Threads : After(t)' = After(t) BY Zenon DEF After
<1>3. Order' BY <1>1, Zenon DEF Order
<1>4. Asked' BY <1>1, Zenon DEF Asked, AtStep, Step
<1>5. Selected' BY <1>1, <1>2, Zenon DEF Selected
<1>6. Current' BY <1>1, Zenon DEF Current, AtStep, Step
<1> QED BY <1>3, <1>4, <1>5, <1>6, Zenon DEF RegsInv

\* What keeps the order of posting and awaiting.
LEMMA OrderStep ==
  ASSUME Order, program' = program, signals \subseteq signals',
         \A u \in Threads : \A k \in DOMAIN program[u] :
           /\ k < pc'[u] /\ ~(k < pc[u]) /\ program[u][k].do = "wait" => "post" \in signals'
           /\ k < pc[u] /\ program[u][k].do = "post" => k < pc'[u],
         "post" \in signals' /\ "post" \notin signals =>
           \E u \in Threads : \E k \in DOMAIN program[u] :
             k < pc'[u] /\ program[u][k].do = "post"
  PROVE  Order'
<1>1. \A t \in Threads : \A k \in DOMAIN program[t] :
        k < pc'[t] /\ program[t][k].do = "wait" => "post" \in signals'
  BY Zenon DEF Order
<1>2. "post" \in signals' =>
        \E t \in Threads : \E k \in DOMAIN program[t] :
          k < pc'[t] /\ program[t][k].do = "post"
  BY Zenon DEF Order
<1> QED BY <1>1, <1>2, Zenon DEF Order

\* What a request is made up from.
LEMMA AccessRegs ==
  ASSUME RegsInv, NEW t \in Threads, Access(t)
  PROVE  RegsInv'
<1>1. Typed /\ OnePlace /\ Order /\ Asked /\ Selected /\ Current BY Zenon DEF RegsInv, BusInv
<1>2. BusInv' /\ request[t] = NULL /\ result[t] = NULL /\ pendingRequest # t
  <2>1. BusInv' /\ request[t] = NULL /\ result'[t] = NULL /\ pendingRequest' # t
        /\ result' = result /\ pendingRequest' = pendingRequest
    BY AccessInv, Zenon DEF RegsInv
  <2> QED BY <2>1, Zenon
<1>3. /\ Running(t) /\ Step(t).do \in Accessing
      /\ UNCHANGED << mem, rdata, value, result, program, pc, pendingRequest, phase, signals >>
      /\ shadow_fcr' = IF Step(t).do = "trigger" THEN Written(t) ELSE shadow_fcr
      /\ request' = [request EXCEPT ![t] = [write |-> Step(t).do # "read",
                                           reg |-> Step(t).reg, data |-> Written(t)]]
  BY Zenon DEF Access, uart
<1>4. /\ program[t] \in Seq(Steps) /\ Len(program[t]) \in Nat
      /\ DOMAIN program[t] = 1..Len(program[t])
      /\ pc[t] \in Nat \ {0} /\ Orderly(program[t])
  BY <1>1, ProgramFacts, Zenon
<1>5. AtStep(t) BY <1>3, <1>4 DEF AtStep, Running
<1>6. /\ request'[t] = [write |-> Step(t).do # "read", reg |-> Step(t).reg,
                        data |-> Written(t)]
      /\ \A u \in Threads \ {t} : request'[u] = request[u]
  BY <1>1, <1>3, Zenon DEF Typed
<1>7. Step(t).do \in {"flush", "trigger"} => "DLAB" \notin Step(t).set
  BY <1>4, <1>5, Zenon DEF Orderly, AtStep, Step
<1>8. "DLAB" \in Written(t) <=> "DLAB" \in Step(t).set
  <2>1. "DLAB" \notin value[t] /\ "DLAB" \notin shadow_fcr BY <1>1, Zenon DEF Selected
  <2>2. CASE Step(t).do = "modify"
    <3>1. Written(t) = (value[t] \ Step(t).clear) \union Step(t).set BY <2>2, Zenon DEF Written
    <3> QED BY <2>1, <3>1, Zenon
  <2>3. CASE Step(t).do \in {"flush", "trigger"}
    <3>1. Written(t) = shadow_fcr \union Step(t).set BY <2>3, Zenon DEF Written
    <3> QED BY <2>1, <3>1, Zenon
  <2>4. CASE Step(t).do \notin {"modify", "flush", "trigger"}
    <3>1. Written(t) = Step(t).set BY <2>4, Zenon DEF Written
    <3> QED BY <3>1, Zenon
  <2> QED BY <2>2, <2>3, <2>4, Zenon
<1>9. \A u \in Threads : /\ Served(u)' <=> Served(u)
                         /\ Served(u) => Return(u)' = Return(u)
  <2>1. ~Served(t) /\ ~Served(t)' BY <1>2, <1>3, Zenon DEF Served, Unserved
  <2>2. \A u \in Threads \ {t} : Served(u)' <=> Served(u)
    BY <1>3, <1>6, Zenon DEF Served, Unserved
  <2>3. \A u \in Threads : Return(u)' = Return(u) BY <1>3, Zenon DEF Return
  <2> QED BY <2>1, <2>2, <2>3, Zenon
<1>10. Order' BY <1>1, <1>3, Zenon DEF Order
<1>11. Asked'
  <2>1. \A u \in Threads : Step(u)' = Step(u) /\ (AtStep(u)' <=> AtStep(u))
    BY <1>3, Zenon DEF Step, AtStep
  <2>2. /\ request'[t].reg = Step(t).reg /\ request'[t].write = (Step(t).do # "read")
        /\ request'[t].data = Written(t)
    BY <1>6
  <2> QED BY <1>1, <1>3, <1>5, <1>6, <1>8, <2>1, <2>2 DEF Asked
<1>12. Selected'
  <2>1. "DLAB" \notin shadow_fcr' BY <1>1, <1>3, <1>7, <1>8, Zenon DEF Selected
  <2>2. \A u \in Threads : After(u)' = After(u) BY <1>3, <1>9, Zenon DEF After
  <2> QED BY <1>1, <1>3, <1>9, <2>1, <2>2, Zenon DEF Selected
<1>13. Current' BY <1>1, <1>3, <1>9, Zenon DEF Current, AtStep, Step
<1> QED BY <1>2, <1>10, <1>11, <1>12, <1>13, Zenon DEF RegsInv

\* The value that getResult returns is the one the thread goes on with.
LEMMA GetResultRegs ==
  ASSUME RegsInv, NEW t \in Threads, GetResult(t)
  PROVE  RegsInv'
<1>1. Typed /\ OnePlace /\ Order /\ Asked /\ Selected /\ Current BY Zenon DEF RegsInv, BusInv
<1>2. BusInv' BY GetResultInv, Zenon DEF RegsInv
<1>3. /\ request[t] # NULL /\ result[t] # NULL
      /\ value' = IF request[t].write THEN value ELSE [value EXCEPT ![t] = result[t]]
      /\ request' = [request EXCEPT ![t] = NULL]
      /\ result' = [result EXCEPT ![t] = NULL]
      /\ pc' = [pc EXCEPT ![t] = pc[t] + 1]
      /\ UNCHANGED << mem, rdata, shadow_fcr, program, pendingRequest, phase, signals >>
  BY Zenon DEF GetResult, uart
<1>4. /\ program[t] \in Seq(Steps) /\ Len(program[t]) \in Nat
      /\ DOMAIN program[t] = 1..Len(program[t])
      /\ pc[t] \in Nat \ {0} /\ Orderly(program[t])
  BY <1>1, ProgramFacts, Zenon
<1>5. /\ pc'[t] = pc[t] + 1 /\ request'[t] = NULL
      /\ \A u \in Threads \ {t} : /\ pc'[u] = pc[u] /\ request'[u] = request[u]
                                  /\ result'[u] = result[u] /\ value'[u] = value[u]
  BY <1>1, <1>3, Zenon DEF Typed
<1>6. /\ AtStep(t) /\ Step(t).do \in Accessing
      /\ request[t].write <=> Step(t).do # "read"
  BY <1>1, <1>3, Zenon DEF Asked
<1>7. Served(t) /\ Return(t) = result[t] /\ ~Served(t)'
  BY <1>3, <1>5, Zenon DEF Served, Unserved, Return
<1>8. \A u \in Threads \ {t} : /\ Served(u)' <=> Served(u)
                               /\ Return(u)' = Return(u)
  BY <1>3, <1>5, Zenon DEF Served, Unserved, Return
<1>9. \A u \in Threads : After(u)' = After(u) BY <1>5, <1>7, <1>8, Zenon DEF After
<1>10. Order'
  <2>1. \A k \in DOMAIN program[t] : k < pc[t] + 1 /\ ~(k < pc[t]) => k = pc[t]
    BY <1>4
  <2>2. program[t][pc[t]].do # "wait" BY <1>6, Zenon DEF Step, Accessing
  <2>3. \A k \in DOMAIN program[t] : k < pc[t] => k < pc[t] + 1 BY <1>4
  <2> QED BY <1>1, <1>3, <1>5, <2>1, <2>2, <2>3, OrderStep, Zenon
<1>11. Asked' BY <1>1, <1>3, <1>5 DEF Asked, AtStep, Step
<1>12. Selected'
  <2>1. "DLAB" \notin value'[t]
    <3>1. "DLAB" \notin value[t] /\ "DLAB" \notin result[t] BY <1>1, <1>7, Zenon DEF Selected
    <3>2. value'[t] \in {value[t], result[t]} BY <1>1, <1>3, Zenon DEF Typed
    <3> QED BY <3>1, <3>2, Zenon
  <2>2. \A u \in Threads : /\ "DLAB" \notin value'[u]
                           /\ Served(u)' => "DLAB" \notin Return(u)'
    BY <1>1, <1>5, <1>7, <1>8, <2>1, Zenon DEF Selected
  <2> QED BY <1>1, <1>3, <1>9, <2>2, Zenon DEF Selected
<1>13. Current'
  <2>1. ASSUME AtStep(t)', Step(t)'.do = "modify", Step(t)'.reg = "IER"
        PROVE  value'[t] = mem["IER"]
    <3>1. pc[t] + 1 \in DOMAIN program[t] /\ program[t][pc[t] + 1].do = "modify"
          /\ program[t][pc[t] + 1].reg = "IER"
      BY <1>3, <1>5, <2>1, Zenon DEF AtStep, Step
    <3>2. (pc[t] + 1) - 1 = pc[t] BY <1>4
    <3>3. program[t][pc[t]].do = "read" /\ program[t][pc[t]].reg = "IER"
      BY <1>4, <3>1, <3>2 DEF Orderly
    <3>4. result[t] = mem["IER"] BY <1>1, <1>7, <3>3, Zenon DEF Current, Step
    <3>5. value'[t] = result[t] BY <1>1, <1>3, <1>6, <3>3, Zenon DEF Step, Typed
    <3> QED BY <3>4, <3>5, Zenon
  <2>2. \A u \in Threads \ {t} : Step(u)' = Step(u) /\ (AtStep(u)' <=> AtStep(u))
    BY <1>3, <1>5, Zenon DEF Step, AtStep
  <2> QED BY <1>1, <1>3, <1>5, <1>7, <1>8, <2>1, <2>2 DEF Current
<1> QED BY <1>2, <1>10, <1>11, <1>12, <1>13, Zenon DEF RegsInv

\* A thread goes on from a step that accesses no register, or beyond the end
\* of its program, or back to where it sleeps.
Advances(u) ==
  \/ pc'[u] = pc[u]
  \/ pc'[u] = pc[u] + 1 /\ Running(u) /\ Step(u).do \notin Accessing
  \/ pc'[u] = pc[u] + 1 /\ pc[u] > Len(program[u])
  \/ /\ pc[u] > Len(program[u]) /\ pc'[u] \in DOMAIN program[u]
     /\ program[u][pc'[u]].do = "sleep"

\* Steps of the threads that make no access.
LEMMA AdvanceInv ==
  ASSUME RegsInv, BusInv', Order',
         UNCHANGED << mem, rdata, shadow_fcr, request, result, value, program,
                      pendingRequest, phase >>,
         \A u \in Threads : Advances(u)
  PROVE  RegsInv'
<1>1. Typed /\ Asked /\ Selected /\ Current BY Zenon DEF RegsInv, BusInv
<1>2. \A u \in Threads : /\ Served(u)' <=> Served(u)
                         /\ Return(u)' = Return(u)
  BY Zenon DEF Served, Unserved, Return
<1>3. ASSUME NEW u \in Threads, pc'[u] # pc[u]
      PROVE  /\ request[u] = NULL
             /\ Latched(program[u], pc'[u]) <=> Latched(program[u], pc[u])
             /\ AtStep(u)' => ~(Step(u)'.do = "modify" /\ Step(u)'.reg = "IER")
  <2>1. /\ program[u] \in Seq(Steps) /\ Len(program[u]) \in Nat
        /\ DOMAIN program[u] = 1..Len(program[u])
        /\ pc[u] \in Nat \ {0} /\ Orderly(program[u])
    BY <1>1, ProgramFacts, Zenon
  <2>2. pc[u] > Len(program[u]) => request[u] = NULL BY <1>1, <2>1 DEF Asked, AtStep
  <2>3. CASE pc'[u] = pc[u] + 1 /\ Running(u) /\ Step(u).do \notin Accessing
    <3>1. request[u] = NULL /\ pc[u] \in DOMAIN program[u]
          /\ program[u][pc[u]].do \notin Accessing
      BY <2>1, <2>3 DEF Running, Step
    <3>2. ~WritesLCR(program[u][pc[u]]) BY <3>1, Zenon DEF WritesLCR, Accessing
    <3>3. Latched(program[u], pc'[u]) <=> Latched(program[u], pc[u])
      BY <2>1, <2>3, <3>1, <3>2, LatchStep, Zenon
    <3>4. (pc[u] + 1) - 1 = pc[u] BY <2>1
    <3>5. ASSUME AtStep(u)', Step(u)'.do = "modify", Step(u)'.reg = "IER" PROVE FALSE
      <4>1. pc[u] + 1 \in DOMAIN program[u] /\ program[u][pc[u] + 1].do = "modify"
            /\ program[u][pc[u] + 1].reg = "IER"
        BY <2>3, <3>5, Zenon DEF AtStep, Step
      <4>2. program[u][pc[u]].do = "read" BY <2>1, <3>4, <4>1 DEF Orderly
      <4> QED BY <3>1, <4>2, Zenon DEF Accessing
    <3> QED BY <3>1, <3>3, <3>5, Zenon
  <2>4. CASE pc'[u] = pc[u] + 1 /\ pc[u] > Len(program[u])
    <3>1. pc'[u] \in Nat /\ pc'[u] > Len(program[u]) /\ pc'[u] \notin DOMAIN program[u]
      BY <2>1, <2>4
    <3>2. ~Latched(program[u], pc'[u]) /\ ~Latched(program[u], pc[u])
      BY <2>1, <2>4, <3>1, LatchEnd, Zenon
    <3> QED BY <2>2, <2>4, <3>1, <3>2, Zenon DEF AtStep
  <2>5. CASE /\ pc[u] > Len(program[u]) /\ pc'[u] \in DOMAIN program[u]
             /\ program[u][pc'[u]].do = "sleep"
    <3>1. ~Latched(program[u], pc[u]) BY <2>1, <2>5, LatchEnd, Zenon
    <3>2. ~Touches(program[u][pc'[u]]) BY <2>5, Zenon DEF Touches, Accessing
    <3>3. ~Latched(program[u], pc'[u]) BY <2>1, <2>5, <3>2, Zenon DEF Orderly
    <3> QED BY <2>2, <2>5, <3>1, <3>3, Zenon DEF Step
  <2> QED BY <1>3, <2>3, <2>4, <2>5, Zenon DEF Advances
<1>4. Asked' BY <1>1, <1>3, Zenon DEF Asked, AtStep, Step
<1>5. Selected'
  <2>1. \A u \in Threads : Latched(program[u], After(u)') <=> Latched(program[u], After(u))
    BY <1>2, <1>3, Zenon DEF After, Served
  <2> QED BY <1>1, <1>2, <2>1, Zenon DEF Selected
<1>6. Current'
  <2>1. ASSUME NEW u \in Threads, pc'[u] = pc[u]
        PROVE  Step(u)' = Step(u) /\ (AtStep(u)' <=> AtStep(u))
    BY <2>1, Zenon DEF Step, AtStep
  <2>2. ASSUME NEW u \in Threads, pc'[u] # pc[u] PROVE ~Served(u)
    BY <1>3, <2>2, Zenon DEF Served
  <2> QED BY <1>1, <1>2, <1>3, <2>1, <2>2, Zenon DEF Current
<1> QED BY <1>4, <1>5, <1>6, Zenon DEF RegsInv

\* The steps of the threads that make no access, and the interrupt thread.
LEMMA OtherStepsRegs ==
  ASSUME RegsInv,
         \/ \E t \in Threads : Synchronise(t) \/ SleepAgain(t) \/ Timeout(t)
         \/ PollInterrupt \/ CallHandler \/ UNCHANGED vars
  PROVE  RegsInv'
<1>1. Typed /\ Order BY Zenon DEF RegsInv, BusInv
<1>2. UNCHANGED << mem, rdata, shadow_fcr, request, result, value, program,
                   pendingRequest, phase >>
  BY Zenon DEF Synchronise, SleepAgain, Timeout, PollInterrupt, CallHandler, vars, uart, driver
<1>3. BusInv' BY OtherStepsInv, Zenon DEF RegsInv
<1>4. \A t \in Threads :
        /\ Len(program[t]) \in Nat /\ DOMAIN program[t] = 1..Len(program[t])
        /\ pc[t] \in Nat \ {0} /\ Orderly(program[t])
        /\ \A k \in DOMAIN program[t] : k < pc[t] + 1 <=> k < pc[t] \/ k = pc[t]
  BY <1>1, ProgramFacts
<1>5. SUFFICES Order' /\ \A u \in Threads : Advances(u) BY <1>2, <1>3, AdvanceInv, Zenon
<1>6. CASE PollInterrupt \/ UNCHANGED vars
  <2>1. UNCHANGED << pc, signals >> BY <1>6, Zenon DEF PollInterrupt, vars, driver
  <2> QED BY <1>1, <1>2, <2>1, Zenon DEF Order, Advances
<1>7. ASSUME NEW t \in Threads, Synchronise(t) PROVE Order' /\ \A u \in Threads : Advances(u)
  <2>1. /\ Running(t) /\ Step(t).do \notin Accessing
        /\ Step(t).do = "wait" => "post" \in signals
        /\ signals' = signals \union {Step(t).do}
        /\ pc' = [pc EXCEPT ![t] = pc[t] + 1]
    BY <1>7, Zenon DEF Synchronise, Ready
  <2>2. pc'[t] = pc[t] + 1 /\ \A u \in Threads \ {t} : pc'[u] = pc[u]
    BY <1>1, <2>1, Zenon DEF Typed
  <2>3. pc[t] \in DOMAIN program[t] BY <1>4, <2>1 DEF Running
  <2>4. \A u \in Threads : Advances(u) BY <1>2, <2>1, <2>2, Zenon DEF Advances
  <2>5. "post" \in signals' /\ "post" \notin signals =>
          \E u \in Threads : \E k \in DOMAIN program[u] :
            k < pc'[u] /\ program[u][k].do = "post"
    BY <1>4, <2>1, <2>2, <2>3, Zenon DEF Step
  <2>6. \A u \in Threads : \A k \in DOMAIN program[u] :
          /\ k < pc'[u] /\ ~(k < pc[u]) /\ program[u][k].do = "wait" => "post" \in signals'
          /\ k < pc[u] /\ program[u][k].do = "post" => k < pc'[u]
    BY <1>4, <2>1, <2>2, Zenon DEF Step
  <2>7. Order' BY <1>1, <1>2, <2>1, <2>5, <2>6, OrderStep, Zenon
  <2> QED BY <2>4, <2>7, Zenon
<1>8. ASSUME NEW t \in Threads, SleepAgain(t) PROVE Order' /\ \A u \in Threads : Advances(u)
  <2>1. /\ pc[t] = Len(program[t]) + 1 /\ pc[t] > 2 /\ program[t][pc[t] - 2].do = "sleep"
        /\ pc' = [pc EXCEPT ![t] = IF "shutdown" \in signals THEN pc[t] + 1 ELSE pc[t] - 2]
        /\ signals' \in {signals, signals \union {"ended"}}
    BY <1>8, Zenon DEF SleepAgain
  <2>2. pc'[t] \in {pc[t] + 1, pc[t] - 2} /\ \A u \in Threads \ {t} : pc'[u] = pc[u]
    BY <1>1, <2>1, Zenon DEF Typed
  <2>3. pc[t] - 2 \in DOMAIN program[t] /\ pc[t] > Len(program[t]) BY <1>4, <2>1
  <2>4. \A u \in Threads : Advances(u) BY <1>2, <2>1, <2>2, <2>3, Zenon DEF Advances
  <2>5. \A k \in DOMAIN program[t] : program[t][k].do # "post"
    BY <1>4, <2>1, <2>3 DEF Orderly
  <2>6. \A k \in DOMAIN program[t] : k < pc'[t] => k < pc[t] BY <1>4, <2>1, <2>2
  <2>7. "post" \in signals' => "post" \in signals BY <2>1
  <2>8. Order' BY <1>1, <1>2, <2>1, <2>2, <2>5, <2>6, <2>7, OrderStep, Zenon
  <2> QED BY <2>4, <2>8, Zenon
<1>9. ASSUME signals' = signals,
             \A u \in Threads : \/ pc'[u] = pc[u]
                                \/ pc'[u] = pc[u] + 1 /\ Asleep(u)
      PROVE  Order' /\ \A u \in Threads : Advances(u)
  <2>1. \A u \in Threads : Asleep(u) => /\ Running(u) /\ Step(u).do \notin Accessing
                                        /\ program[u][pc[u]].do # "wait"
    BY Zenon DEF Asleep, Accessing, Step
  <2>2. \A u \in Threads : Advances(u) BY <1>2, <1>9, <2>1, Zenon DEF Advances
  <2>3. \A u \in Threads : \A k \in DOMAIN program[u] :
          /\ k < pc'[u] /\ ~(k < pc[u]) => program[u][k].do # "wait"
          /\ k < pc[u] => k < pc'[u]
    BY <1>4, <1>9, <2>1, Zenon
  <2>4. Order' BY <1>1, <1>2, <1>9, <2>3, OrderStep, Zenon
  <2> QED BY <2>2, <2>4, Zenon
<1>10. ASSUME NEW t \in Threads, Timeout(t) PROVE Order' /\ \A u \in Threads : Advances(u)
  <2>1. Asleep(t) /\ pc' = [pc EXCEPT ![t] = pc[t] + 1] /\ signals' = signals
    BY <1>10, Zenon DEF Timeout
  <2>2. pc'[t] = pc[t] + 1 /\ \A u \in Threads \ {t} : pc'[u] = pc[u]
    BY <1>1, <2>1, Zenon DEF Typed
  <2> QED BY <1>9, <2>1, <2>2, Zenon
<1>11. CASE CallHandler
  <2>1. /\ pc' = [t \in Threads |-> IF bound /\ Asleep(t) THEN pc[t] + 1 ELSE pc[t]]
        /\ signals' = signals
    BY <1>11, Zenon DEF CallHandler
  <2>2. \A u \in Threads : pc'[u] = pc[u] \/ (pc'[u] = pc[u] + 1 /\ Asleep(u)) BY <2>1, Zenon
  <2> QED BY <1>9, <2>1, <2>2, Zenon
<1> QED BY <1>6, <1>7, <1>8, <1>10, <1>11, Zenon

\* The UART answers: the one step that changes a register.
LEMMA AnswerRegs ==
  ASSUME RegsInv, BusInv', Answers, NEW t \in Threads, pendingRequest = t,
         UNCHANGED << shadow_fcr, program, pc, value, request, result, signals,
                      pendingRequest >>
  PROVE  RegsInv'
<1>1. Typed /\ OnePlace /\ Order /\ Asked /\ Selected /\ Current BY Zenon DEF RegsInv, BusInv
<1>2. /\ request[t] # NULL /\ result[t] = NULL /\ t # NULL
      /\ request[t] \in Access_ /\ request[t].reg \in Regs /\ request[t].data \in Words
  BY <1>1, NullAssumption, Zenon DEF OnePlace, Typed, Access_, Words
<1>3. /\ phase = "idle" /\ phase' = "answered" /\ rdata' = Value(mem, request[t])
      /\ mem' = Effect(mem, request[t])
  BY Zenon DEF Answers
<1>4. Unserved(t) /\ ~Served(t) /\ Served(t)' BY <1>2, <1>3, Zenon DEF Unserved, Served
<1>5. \A u \in Threads \ {t} : /\ Served(u)' <=> Served(u)
                               /\ Served(u) => Return(u)' = Return(u)
  BY <1>3, Zenon DEF Served, Unserved, Return
<1>6. After(t) = pc[t] /\ After(t)' = pc[t] + 1
      /\ \A u \in Threads \ {t} : After(u)' = After(u)
  BY <1>4, <1>5, Zenon DEF After
<1>7. /\ program[t] \in Seq(Steps) /\ Orderly(program[t])
      /\ AtStep(t) /\ Step(t).do \in Accessing /\ request[t].reg = Step(t).reg
      /\ request[t].write <=> Step(t).do # "read"
      /\ request[t].write => ("DLAB" \in request[t].data <=> "DLAB" \in Step(t).set)
      /\ pc[t] \in DOMAIN program[t] /\ Step(t) = program[t][pc[t]]
  BY <1>1, <1>2, ProgramFacts, Zenon DEF Asked, AtStep, Step
<1>8. /\ mem \in [Regs -> Words] /\ "LCR" \in Regs /\ "IER" \in Regs
  BY <1>1, Zenon DEF Typed, Regs
<1>9. /\ request[t].write => mem' = [mem EXCEPT ![Step(t).reg] = request[t].data]
      /\ ~request[t].write => mem' = mem /\ Return(t)' = mem[Step(t).reg]
  <2>1. Target(mem, request[t].reg) = Step(t).reg BY <1>4, <1>7, RequestHits, Zenon
  <2>2. Return(t)' = rdata' BY <1>2, Zenon DEF Return
  <2> QED BY <1>3, <2>1, <2>2, Zenon DEF Effect, Value
<1>10. \A r \in Regs : mem'[r] # mem[r] =>
         request[t].write /\ r = Step(t).reg /\ mem'[r] = request[t].data
  BY <1>8, <1>9, Zenon
<1>11. Order' BY <1>1, Zenon DEF Order
<1>12. Asked' BY <1>1, Zenon DEF Asked, AtStep, Step
<1>13. WritesLCR(Step(t)) <=> request[t].write /\ Step(t).reg = "LCR"
  BY <1>7 DEF WritesLCR, Accessing, Orderly
<1>14. "DLAB" \in mem'["LCR"] <=> \E u \in Threads : Latched(program[u], After(u)')
  <2>1. CASE WritesLCR(Step(t))
    <3>1. Holds(t) BY <1>7, <1>13, <2>1, Zenon DEF Holds, Touches
    <3>2. \A u \in Threads \ {t} : ~Latched(program[u], After(u))
      BY <1>1, <3>1, LatchHolder, OneHolder, Zenon
    <3>3. Latched(program[t], After(t)') <=> "DLAB" \in request[t].data
      BY <1>6, <1>7, <1>13, <2>1, LatchStep, Zenon
    <3>4. mem'["LCR"] = request[t].data BY <1>8, <1>9, <1>13, <2>1, Zenon
    <3> QED BY <1>6, <3>2, <3>3, <3>4, Zenon
  <2>2. CASE ~WritesLCR(Step(t))
    <3>1. Latched(program[t], After(t)') <=> Latched(program[t], After(t))
      BY <1>6, <1>7, <2>2, LatchStep, Zenon
    <3>2. mem'["LCR"] = mem["LCR"] BY <1>8, <1>10, <1>13, <2>2, Zenon
    <3> QED BY <1>1, <1>6, <3>1, <3>2, Zenon DEF Selected
  <2> QED BY <2>1, <2>2, Zenon
<1>15. ASSUME NEW r \in Regs \ {"LCR"} PROVE "DLAB" \notin mem'[r]
  <2>1. CASE mem'[r] = mem[r] BY <1>1, <2>1, Zenon DEF Selected
  <2>2. CASE mem'[r] # mem[r]
    <3>1. request[t].write /\ r = Step(t).reg /\ mem'[r] = request[t].data BY <1>10, <2>2, Zenon
    <3>2. "DLAB" \notin Step(t).set BY <1>7, <1>15, <3>1 DEF Orderly
    <3> QED BY <1>7, <3>1, <3>2, Zenon
  <2> QED BY <2>1, <2>2, Zenon
<1>16. "DLAB" \notin Return(t)'
  <2>1. CASE request[t].write
    <3>1. Return(t)' = {} BY <1>2, <1>3, <2>1, Zenon DEF Return, Value
    <3> QED BY <3>1, Zenon
  <2>2. CASE ~request[t].write /\ Step(t).reg # "LCR"
    BY <1>1, <1>2, <1>7, <1>9, <2>2, Zenon DEF Selected
  <2>3. CASE ~request[t].write /\ Step(t).reg = "LCR"
    <3>1. ~Latched(program[t], pc[t]) BY <1>7, <2>3 DEF Orderly
    <3>2. Holds(t) BY <1>7, <2>3, Zenon DEF Holds, Touches
    <3>3. "DLAB" \notin mem["LCR"] BY <1>4, <3>1, <3>2, RequestHits, Zenon
    <3> QED BY <1>9, <2>3, <3>3, Zenon
  <2> QED BY <2>1, <2>2, <2>3, Zenon
<1>17. Selected'
  <2>1. \A u \in Threads : Served(u)' => "DLAB" \notin Return(u)'
    BY <1>1, <1>5, <1>16, Zenon DEF Selected
  <2> QED BY <1>1, <1>14, <1>15, <2>1, Zenon DEF Selected
<1>18. Current'
  <2>1. \A u \in Threads : Step(u)' = Step(u) /\ (AtStep(u)' <=> AtStep(u))
    BY Zenon DEF Step, AtStep
  <2>2. ASSUME NEW u \in Threads \ {t}, AtStep(u), Step(u).do \in {"read", "modify"},
               Step(u).reg = "IER"
        PROVE  mem'["IER"] = mem["IER"]
    <3>1. Holds(u) BY <2>2, Zenon DEF Holds, Touches, Accessing
    <3>2. ~Holds(t) BY <1>1, <3>1, OneHolder, Zenon
    <3>3. Step(t).reg # "IER" BY <1>7, <3>2, Zenon DEF Holds, Touches
    <3> QED BY <1>8, <1>10, <3>3, Zenon
  <2>3. ASSUME Step(t).do = "read", Step(t).reg = "IER" PROVE Return(t)' = mem'["IER"]
    BY <1>7, <1>9, <2>3, Zenon
  <2>4. ASSUME NEW u \in Threads \ {t}, Served(u), Step(u).do = "read", Step(u).reg = "IER"
        PROVE  Return(u)' = mem'["IER"]
    <3>1. AtStep(u) BY <1>1, <2>4, Zenon DEF Asked, Served
    <3> QED BY <1>1, <1>5, <2>2, <2>4, <3>1, Zenon DEF Current
  <2>5. ASSUME NEW u \in Threads \ {t}, AtStep(u), Step(u).do = "modify",
               Step(u).reg = "IER", ~Served(u)
        PROVE  value[u] = mem'["IER"]
    BY <1>1, <2>2, <2>5, Zenon DEF Current
  <2> QED BY <1>4, <1>5, <2>1, <2>3, <2>4, <2>5, Zenon DEF Current
<1> QED BY <1>11, <1>12, <1>17, <1>18, Zenon DEF RegsInv

\* The simulation thread.
LEMMA SimulationRegs ==
  ASSUME RegsInv, simulationLoop
  PROVE  RegsInv'
<1>1. BusInv /\ Typed /\ OnePlace BY Zenon DEF RegsInv, BusInv
<1>2. \A t \in Threads : t # NULL BY NullAssumption, Zenon
<1>3. CASE controlOutputs
  <2>1. /\ BusInv' /\ UNCHANGED << mem, rdata, request, result, phase >>
        /\ pendingRequest' # pendingRequest => phase # "answered"
    BY <1>1, <1>3, ControlInv, Zenon
  <2>2. UNCHANGED << shadow_fcr, value, program, pc, signals >>
    BY <1>3, Zenon DEF controlOutputs, driver
  <2>3. \A t \in Threads : /\ Served(t)' <=> Served(t)
                           /\ Served(t) => Return(t)' = Return(t)
    BY <2>1, Zenon DEF Served, Unserved, Return
  <2> QED BY <2>1, <2>2, <2>3, QuietInv, Zenon
<1>4. CASE eval
  <2>1. /\ BusInv' /\ UNCHANGED << request, result, pendingRequest >>
        /\ \/ Answers /\ pendingRequest # NULL
           \/ /\ UNCHANGED << mem, rdata >> /\ phase' # "answered"
              /\ phase = "answered" => pendingRequest = NULL
    BY <1>1, <1>4, EvalInv, Zenon
  <2>2. UNCHANGED << shadow_fcr, value, program, pc, signals >> BY <1>4, Zenon DEF eval, driver
  <2>3. CASE Answers /\ pendingRequest # NULL
    <3>1. PICK t \in Threads : pendingRequest = t BY <1>1, <2>3, Zenon DEF Typed
    <3> QED BY <2>1, <2>2, <2>3, <3>1, AnswerRegs, Zenon
  <2>4. CASE /\ UNCHANGED << mem, rdata >> /\ phase' # "answered"
             /\ phase = "answered" => pendingRequest = NULL
    <3>1. \A t \in Threads : /\ Served(t)' <=> Served(t)
                             /\ Served(t) => Return(t)' = Return(t)
      BY <1>2, <2>1, <2>4, Zenon DEF Served, Unserved, Return
    <3> QED BY <2>1, <2>2, <2>4, <3>1, QuietInv, Zenon
  <2> QED BY <2>1, <2>3, <2>4, Zenon
<1>5. CASE handleInputs
  <2>1. /\ BusInv' /\ UNCHANGED << mem, rdata, phase, request >>
        /\ \/ UNCHANGED << result, pendingRequest >>
           \/ /\ pendingRequest \in Threads /\ pendingRequest' = NULL /\ phase = "answered"
              /\ request[pendingRequest] # NULL /\ result[pendingRequest] = NULL
              /\ result' = [result EXCEPT ![pendingRequest] = rdata]
    BY <1>1, <1>5, HandleInv, Zenon
  <2>2. UNCHANGED << shadow_fcr, value, program, pc, signals >> BY <1>5, Zenon DEF handleInputs
  <2>3. ASSUME NEW t \in Threads
        PROVE  /\ Served(t)' <=> Served(t)
               /\ Served(t) => Return(t)' = Return(t)
    <3>1. CASE UNCHANGED << result, pendingRequest >>
      BY <2>1, <3>1, Zenon DEF Served, Unserved, Return
    <3>2. CASE /\ pendingRequest = t /\ pendingRequest' = NULL /\ phase = "answered"
               /\ request[t] # NULL /\ result[t] = NULL
               /\ result' = [result EXCEPT ![t] = rdata]
      <4>1. result'[t] = rdata /\ rdata # NULL
        BY <1>1, <3>2, NullAssumption, Zenon DEF Typed, Words
      <4> QED BY <2>1, <3>2, <4>1, Zenon DEF Served, Unserved, Return
    <3>3. CASE /\ pendingRequest # t /\ pendingRequest' = NULL
               /\ result' = [result EXCEPT ![pendingRequest] = rdata]
      <4>1. result'[t] = result[t] BY <1>1, <3>3, Zenon DEF Typed
      <4> QED BY <1>2, <2>1, <3>3, <4>1, Zenon DEF Served, Unserved, Return
    <3> QED BY <2>1, <3>1, <3>2, <3>3, Zenon
  <2> QED BY <2>1, <2>2, <2>3, QuietInv, Zenon
<1> QED BY <1>3, <1>4, <1>5, Zenon DEF simulationLoop

\* Every step keeps the registers as the invariant says.
LEMMA NextRegs ==
  ASSUME RegsInv, [Next]_vars
  PROVE  RegsInv'
<1>1. ASSUME NEW t \in Threads, Queue(t) PROVE RegsInv'
  <2>1. BusInv' BY <1>1, QueueInv, Zenon DEF RegsInv
  <2>2. UNCHANGED << mem, rdata, shadow_fcr, value, program, pc, request, result, signals,
                     pendingRequest, phase >>
    BY <1>1, Zenon DEF Queue, driver, uart
  <2>3. \A u \in Threads : /\ Served(u)' <=> Served(u)
                           /\ Served(u) => Return(u)' = Return(u)
    BY <2>2, Zenon DEF Served, Unserved, Return
  <2> QED BY <2>1, <2>2, <2>3, QuietInv, Zenon
<1>2. ASSUME NEW t \in Threads, Driver(t) \/ Timeout(t) PROVE RegsInv'
  BY <1>1, <1>2, AccessRegs, GetResultRegs, OtherStepsRegs, Zenon DEF Driver
<1> QED BY <1>2, SimulationRegs, OtherStepsRegs, Zenon DEF Next

\* The registers are cleared when the simulation starts.
LEMMA InitRegs == Init => RegsInv
<1> SUFFICES ASSUME Init PROVE RegsInv BY Zenon
<1>1. BusInv /\ Typed BY InitInv, Zenon DEF BusInv
<1>2. \A t \in Threads : /\ pc[t] = 1 /\ request[t] = NULL /\ ~Served(t) /\ value[t] = {}
  BY Zenon DEF Init, Served
<1>3. signals = {} /\ shadow_fcr = {} /\ mem = [r \in Regs |-> {}] /\ "LCR" \in Regs
      /\ "IER" \in Regs
  BY Zenon DEF Init, Regs
<1>4. \A t \in Threads : DOMAIN program[t] = 1..Len(program[t]) /\ Len(program[t]) \in Nat
  BY <1>1, ProgramFacts, Zenon
<1>5. \A t \in Threads : ~Latched(program[t], After(t))
  <2>1. \A t \in Threads : \A j \in DOMAIN program[t] : ~(j < 1) BY <1>4
  <2> QED BY <1>2, <2>1, Zenon DEF Latched, After
<1>6. Order BY <1>2, <1>3, <1>4 DEF Order
<1>7. Asked BY <1>2, Zenon DEF Asked
<1>8. Selected BY <1>2, <1>3, <1>5, Zenon DEF Selected
<1>9. Current BY <1>2, <1>3, Zenon DEF Current
<1> QED BY <1>1, <1>6, <1>7, <1>8, <1>9, Zenon DEF RegsInv

\* The types that TypeOK names and the proofs above do without.
Lines ==
  /\ age <= AckDelay + AckLag /\ irq \in BOOLEAN /\ reset \in BOOLEAN
  /\ irqReq \in BOOLEAN /\ irqThread \in {"poll", "call"} /\ bound \in BOOLEAN

\* Every step keeps them.
LEMMA LinesInv ==
  ASSUME BusInv, Lines, [Next]_vars
  PROVE  Lines'
<1>1. age \in Nat /\ AckDelay \in Nat /\ AckLag \in Nat
  BY DelayAssumption DEF BusInv, Typed
<1>2. ASSUME NEW t \in Threads, Driver(t) \/ Timeout(t) PROVE Lines'
  <2>1. CASE Access(t) BY <2>1, Zenon DEF Access, Lines, uart, interrupt
  <2>2. CASE Queue(t) BY <2>2, Zenon DEF Queue, Lines, uart, driver, interrupt
  <2>3. CASE GetResult(t) BY <2>3, Zenon DEF GetResult, Lines, uart, interrupt
  <2>4. CASE Synchronise(t)
    <3>1. /\ bound' = (bound \/ Binds(Step(t).do))
          /\ UNCHANGED << age, irq, reset, irqReq, irqThread >>
      BY <2>4, Zenon DEF Synchronise, uart, interrupt
    <3> QED BY <3>1, Zenon DEF Lines
  <2>5. CASE SleepAgain(t) BY <2>5, Zenon DEF SleepAgain, Lines, uart, interrupt
  <2>6. CASE Timeout(t) BY <2>6, Zenon DEF Timeout, Lines, uart, interrupt
  <2> QED BY <1>2, <2>1, <2>2, <2>3, <2>4, <2>5, <2>6, Zenon DEF Driver
<1>3. CASE controlOutputs BY <1>3, Zenon DEF controlOutputs, Lines, uart, driver, interrupt
<1>4. CASE eval
  <2>1. UNCHANGED << bound, reset, irqReq, irqThread >> BY <1>4, Zenon DEF eval, driver, interrupt
  <2>2. /\ age' = 0 \/ age' = age \/ (age < AckDelay /\ age' = age + 1)
           \/ (age < AckLag /\ age' = age + 1)
    BY <1>4, Zenon DEF eval
  <2>3. age' <= AckDelay + AckLag BY <1>1, <2>2 DEF Lines
  <2>4. irq' \in BOOLEAN BY <1>4, Zenon DEF eval, Lines
  <2> QED BY <2>1, <2>3, <2>4, Zenon DEF Lines
<1>5. CASE handleInputs
  <2>1. /\ reset' = FALSE /\ irqReq' = (irqReq \/ irq)
        /\ UNCHANGED << age, irq, irqThread, bound >>
    BY <1>5, Zenon DEF handleInputs, uart
  <2> QED BY <2>1, Zenon DEF Lines
<1>6. CASE PollInterrupt BY <1>6, Zenon DEF PollInterrupt, Lines, uart, driver
<1>7. CASE CallHandler BY <1>7, Zenon DEF CallHandler, Lines, uart
<1>8. CASE UNCHANGED vars BY <1>8, Zenon DEF vars, Lines, uart, driver, interrupt
<1> QED BY <1>2, <1>3, <1>4, <1>5, <1>6, <1>7, <1>8, Zenon DEF Next, simulationLoop

\* The invariant says what RegistersConsistent asks for.
LEMMA RegsImply ==
  ASSUME RegsInv, Lines
  PROVE  RegistersConsistent
<1>1. Typed /\ OnePlace /\ Asked /\ Current BY Zenon DEF RegsInv, BusInv
<1>2. TypeOK
  <2>1. age \in 0..(AckDelay + AckLag)
    BY <1>1, DelayAssumption DEF Typed, Lines
  <2>2. IsInjective(q) BY <1>1, Zenon DEF OnePlace, IsInjective
  <2>3. \A t \in Threads : request[t] # NULL => request[t] \in Access_
    BY <1>1, Zenon DEF Typed
  <2>4. \A t \in Threads :
          /\ request[t] # NULL => request[t].reg \in Regs /\ request[t].data \in SUBSET Bits
          /\ result[t] # NULL => result[t] \in SUBSET Bits
          /\ value[t] \in SUBSET Bits
    BY <1>1, <2>3, Zenon DEF Typed, Access_, Words
  <2> QED BY <1>1, <2>1, <2>2, <2>4, Zenon DEF TypeOK, Typed, Lines, Words
<1>3. AccessHitsItsRegister BY RequestHits, Zenon DEF AccessHitsItsRegister
<1>4. NoLostUpdate
  <2>1. \A t \in Threads : pc[t] <= Len(program[t]) => AtStep(t)
    BY <1>1, ProgramFacts DEF AtStep
  <2>2. \A t \in Threads : request[t] = NULL \/ Unserved(t) => ~Served(t) BY Zenon DEF Served
  <2> QED BY <1>1, <2>1, <2>2, Zenon DEF NoLostUpdate, Current
<1> QED BY <1>2, <1>3, <1>4, Zenon DEF RegistersConsistent

\* For any number of threads, any answer delay and any programs that order
\* their accesses as those of dmx512_suart.c do, no access of pc16cx50.c meets
\* a divisor latch that another thread selected, and pc16x50_reg_set_bits and
\* pc16x50_reg_clear_bits, which take no lock, lose no update of IER.
THEOREM RegistersKept == Spec => []RegistersConsistent
<1>1. Init => RegsInv /\ Lines
  <2>1. 0 <= AckDelay + AckLag BY DelayAssumption
  <2>2. Init => Lines BY <2>1, Zenon DEF Init, Lines
  <2> QED BY <2>2, InitRegs, Zenon
<1>2. RegsInv /\ Lines /\ [Next]_vars => RegsInv' /\ Lines'
  BY NextRegs, LinesInv, Zenon DEF RegsInv
<1>3. RegsInv /\ Lines => RegistersConsistent BY RegsImply, Zenon
<1> QED BY <1>1, <1>2, <1>3, PTL DEF Spec

=============================================================================
