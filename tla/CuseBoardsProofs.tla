-------------------------- MODULE CuseBoardsProofs --------------------------
(***************************************************************************)
(* The receiver of the llgip core, for any number of ports, any frame and  *)
(* fifo size and any threshold, and the break of the serial port.          *)
(*                                                                         *)
(* A receiver looks at one word at a time, so the invariant says what the  *)
(* fields of a port tell about the words read since the last break:        *)
(* payload_size counts them until the frame is handed on, and the lock on  *)
(* the size goes with the run of equal frames counted from the words.      *)
(***************************************************************************)
EXTENDS CuseBoards, SequenceTheorems, TLAPS

Tally == [zero : BOOLEAN, n : Nat, handed : Nat, size : Nat]

\* The types that TypeOK does not state.
MoreTypes ==
  /\ rxfifo \in [Ports -> Seq(Words)]
  /\ locked \in [Ports -> BOOLEAN]
  /\ heard \in [Ports -> Tally] /\ done \in [Ports -> Tally]
  /\ run \in [Ports -> [size : Nat, n : Nat]]

\* Where the receiver is in a frame: nothing is collected outside state 2, and
\* there payload_size is what was heard, up to the size of the buffer.
Collecting(p) ==
  /\ state[p] = 1 => heard[p].zero = FALSE /\ heard[p].n = 0 /\ heard[p].handed = 0
  /\ state[p] = 2 => /\ heard[p].zero /\ heard[p].handed = 0
                     /\ payload_size[p] > 0 /\ payload_size[p] = Whole(heard[p])
  /\ state[p] # 2 => /\ payload_size[p] = 0
                     /\ heard[p].handed = IF heard[p].zero THEN 1 ELSE 0

\* A frame handed on before its end: as long as the lock is held it had the
\* learned size and no octet has followed.
HandedEarly(p) ==
  heard[p].zero /\ state[p] # 2 =>
    /\ heard[p].size <= Whole(heard[p])
    /\ locked[p] => heard[p].size = Whole(heard[p]) /\ heard[p].size = learnedsize[p]
    /\ ~locked[p] => heard[p].size <= Whole(heard[p]) /\ repetion_count[p] = 0

\* What the lock, and the count that leads to it, say of the frames before.
Learning(p) ==
  /\ locked[p] => /\ lastsize[p] = learnedsize[p] /\ run[p].size = learnedsize[p]
                  /\ run[p].n > Threshold
  /\ ~locked[p] => /\ repetion_count[p] <= Threshold
                   /\ repetion_count[p] > 0 => /\ run[p].size = lastsize[p]
                                               /\ run[p].n >= repetion_count[p]

\* The last whole frame was handed on once.
Delivered(p) ==
  /\ done[p].handed = IF done[p].zero THEN 1 ELSE 0
  /\ done[p].zero => /\ done[p].size <= Whole(done[p])
                     /\ locked[p] => done[p].size = Whole(done[p])

PortInv(p) == Collecting(p) /\ HandedEarly(p) /\ Learning(p) /\ Delivered(p)

Inv == TypeOK /\ MoreTypes /\ \A p \in Ports : PortInv(p)

-----------------------------------------------------------------------------
\* The fields of port p, and nothing else of the receiver, may have changed.
OnlyPort(p) ==
  \A q \in Ports \ {p} :
    /\ state'[q] = state[q] /\ payload_size'[q] = payload_size[q]
    /\ locked'[q] = locked[q] /\ learnedsize'[q] = learnedsize[q]
    /\ lastsize'[q] = lastsize[q] /\ repetion_count'[q] = repetion_count[q]
    /\ heard'[q] = heard[q] /\ done'[q] = done[q] /\ run'[q] = run[q]

\* Ports do not share a field.
LEMMA OtherPorts ==
  ASSUME NEW p \in Ports, OnlyPort(p), \A q \in Ports : PortInv(q), PortInv(p)'
  PROVE  \A q \in Ports : PortInv(q)'
<1> TAKE q \in Ports
<1>1. CASE q = p BY <1>1, Zenon
<1>2. CASE q # p
  <2>1. PortInv(q) BY Zenon
  <2>2. /\ state'[q] = state[q] /\ payload_size'[q] = payload_size[q]
        /\ locked'[q] = locked[q] /\ learnedsize'[q] = learnedsize[q]
        /\ lastsize'[q] = lastsize[q] /\ repetion_count'[q] = repetion_count[q]
        /\ heard'[q] = heard[q] /\ done'[q] = done[q] /\ run'[q] = run[q]
    BY <1>2, Zenon DEF OnlyPort
  <2> QED BY <2>1, <2>2 DEF PortInv, Collecting, HandedEarly, Learning, Delivered, Whole
<1> QED BY <1>1, <1>2, Zenon

\* A step that does not read a word leaves the receiver alone.
LEMMA NothingRead ==
  ASSUME Inv, UNCHANGED << board, port, ghost >>,
         rxfifo' \in [Ports -> Seq(Words)],
         \A p \in Ports : Len(rxfifo'[p]) <= RxFifo
  PROVE  Inv'
<1>1. UNCHANGED << board, state, payload_size, locked, learnedsize, lastsize,
                   repetion_count, heard, done, run >>
  BY Zenon DEF port, learning, ghost
<1>2. TypeOK' BY <1>1, Zenon DEF Inv, TypeOK
<1>3. MoreTypes' BY <1>1, Zenon DEF Inv, MoreTypes
<1>4. \A p \in Ports : PortInv(p)'
  BY <1>1 DEF Inv, PortInv, Collecting, HandedEarly, Learning, Delivered, Whole
<1> QED BY <1>2, <1>3, <1>4, Zenon DEF Inv

\* A word arrives in the fifo of a port.
LEMMA HearInv ==
  ASSUME Inv, NEW p \in Ports, NEW w \in Words, Hear(p, w)
  PROVE  Inv'
<1>1. rxfifo \in [Ports -> Seq(Words)] /\ \A q \in Ports : Len(rxfifo[q]) <= RxFifo
  BY Zenon DEF Inv, MoreTypes, TypeOK
<1>2. CASE Len(rxfifo[p]) < RxFifo
  <2>1. rxfifo' = [rxfifo EXCEPT ![p] = Append(rxfifo[p], w)] BY <1>2, Zenon DEF Hear
  <2>2. Append(rxfifo[p], w) \in Seq(Words) /\ Len(Append(rxfifo[p], w)) = Len(rxfifo[p]) + 1
    BY <1>1
  <2>3. Len(rxfifo[p]) + 1 <= RxFifo BY <1>1, <1>2, FifoAssumption
  <2>4. rxfifo' \in [Ports -> Seq(Words)] /\ \A q \in Ports : Len(rxfifo'[q]) <= RxFifo
    BY <1>1, <2>1, <2>2, <2>3, Zenon
  <2> QED BY <2>4, NothingRead, Zenon DEF Hear
<1>3. CASE ~ (Len(rxfifo[p]) < RxFifo)
  BY <1>1, <1>3, NothingRead, Zenon DEF Hear
<1> QED BY <1>2, <1>3, Zenon

\* What the invariant needs to know of the words read from port p: the parts
\* of the port, typed, and what holds of them.
LEMMA PortFacts ==
  ASSUME Inv, NEW p \in Ports
  PROVE  /\ state[p] \in 0..2 /\ payload_size[p] \in 0..FrameMax
         /\ learnedsize[p] \in 0..FrameMax /\ lastsize[p] \in 0..FrameMax
         /\ repetion_count[p] \in 0..(Threshold + 1) /\ locked[p] \in BOOLEAN
         /\ heard[p] \in Tally /\ done[p] \in Tally
         /\ run[p] \in [size : Nat, n : Nat]
         /\ PortInv(p)
BY Zenon DEF Inv, TypeOK, MoreTypes

-----------------------------------------------------------------------------
(* The words of a frame.  Each lemma is about the port the word came from. *)

\* The fields of a port after a word have their types.
PortTypes ==
  /\ state \in [Ports -> 0..2] /\ payload_size \in [Ports -> 0..FrameMax]
  /\ learnedsize \in [Ports -> 0..FrameMax] /\ lastsize \in [Ports -> 0..FrameMax]
  /\ repetion_count \in [Ports -> 0..(Threshold + 1)] /\ locked \in [Ports -> BOOLEAN]
  /\ heard \in [Ports -> Tally] /\ done \in [Ports -> Tally]
  /\ run \in [Ports -> [size : Nat, n : Nat]]

\* They have them before it.
LEMMA InvTypes == Inv => PortTypes
BY Zenon DEF Inv, TypeOK, MoreTypes, PortTypes

\* Giving up the lock is safe at any time: nothing is expected any more.
LEMMA LoseLockFields ==
  ASSUME Inv, NEW p \in Ports, LoseLock(p)
  PROVE  /\ ~ locked'[p] /\ repetion_count'[p] = 0
         /\ learnedsize' \in [Ports -> 0..FrameMax] /\ lastsize' \in [Ports -> 0..FrameMax]
         /\ repetion_count' \in [Ports -> 0..(Threshold + 1)]
         /\ locked' \in [Ports -> BOOLEAN]
         /\ \A q \in Ports \ {p} :
              /\ locked'[q] = locked[q] /\ learnedsize'[q] = learnedsize[q]
              /\ lastsize'[q] = lastsize[q] /\ repetion_count'[q] = repetion_count[q]
BY InvTypes, FrameAssumption, ThresholdAssumption DEF LoseLock, PortTypes

\* The ghost that counts equal frames, at a break.
LEMMA RunFields ==
  ASSUME Inv, NEW p \in Ports, CountRun(p, "break")
  PROVE  /\ run' \in [Ports -> [size : Nat, n : Nat]]
         /\ \A q \in Ports \ {p} : run'[q] = run[q]
         /\ heard[p].zero => /\ run'[p].size = Whole(heard[p]) /\ run'[p].n >= 1
                             /\ run[p].size = Whole(heard[p]) => run'[p].n = run[p].n + 1
         /\ ~ heard[p].zero => run'[p] = run[p]
<1>1. /\ run \in [Ports -> [size : Nat, n : Nat]] /\ heard[p] \in Tally
  BY InvTypes, Zenon DEF PortTypes
<1>2. Whole(heard[p]) \in Nat BY <1>1, FrameAssumption, Zenon DEF Whole, Tally
<1>3. run[p].size \in Nat /\ run[p].n \in Nat BY <1>1, Zenon
<1> DEFINE next == [size |-> Whole(heard[p]),
                    n |-> IF run[p].size = Whole(heard[p]) THEN run[p].n + 1 ELSE 1]
<1>4. CASE heard[p].zero
  <2>1. run' = [run EXCEPT ![p] = next] BY <1>4, Zenon DEF CountRun, Whole
  <2>2. next \in [size : Nat, n : Nat] BY <1>2, <1>3
  <2>3. next.size = Whole(heard[p]) /\ next.n >= 1
        /\ (run[p].size = Whole(heard[p]) => next.n = run[p].n + 1)
    BY <1>3
  <2> HIDE DEF next
  <2> QED BY <1>1, <1>4, <2>1, <2>2, <2>3, Zenon
<1>5. CASE ~ heard[p].zero
  BY <1>1, <1>5, Zenon DEF CountRun
<1> QED BY <1>4, <1>5, Zenon

\* A frame whose size is learned: the lock comes with enough equal frames.
LEMMA LearnFields ==
  ASSUME Inv, NEW p \in Ports, LearnSize(p), CountRun(p, "break"),
         ~ locked[p], payload_size[p] > 0
  PROVE  /\ Learning(p)'
         /\ learnedsize' \in [Ports -> 0..FrameMax] /\ lastsize' \in [Ports -> 0..FrameMax]
         /\ repetion_count' \in [Ports -> 0..(Threshold + 1)]
         /\ locked' \in [Ports -> BOOLEAN]
         /\ \A q \in Ports \ {p} :
              /\ locked'[q] = locked[q] /\ learnedsize'[q] = learnedsize[q]
              /\ lastsize'[q] = lastsize[q] /\ repetion_count'[q] = repetion_count[q]
<1> DEFINE size == payload_size[p]
           count == IF size = lastsize[p] THEN repetion_count[p] + 1 ELSE 0
<1>1. PortTypes /\ PortInv(p) BY InvTypes, PortFacts, Zenon
<1>2. /\ repetion_count' = [repetion_count EXCEPT ![p] = count]
      /\ locked' = [locked EXCEPT ![p] = count > Threshold]
      /\ learnedsize' = [learnedsize EXCEPT
                           ![p] = IF count > Threshold THEN lastsize[p] ELSE learnedsize[p]]
      /\ lastsize' = [lastsize EXCEPT ![p] = size]
  BY Zenon DEF LearnSize
<1>3. /\ size \in 0..FrameMax /\ lastsize[p] \in 0..FrameMax
      /\ learnedsize[p] \in 0..FrameMax /\ repetion_count[p] \in 0..Threshold
  BY <1>1, ThresholdAssumption DEF PortTypes, PortInv, Learning
<1>4. count \in 0..(Threshold + 1) /\ (count > Threshold) \in BOOLEAN
  BY <1>3, ThresholdAssumption
<1>5. state[p] = 2 /\ heard[p].zero /\ size = Whole(heard[p])
  BY <1>1 DEF PortInv, Collecting
<1>6. /\ run'[p].size = size /\ run'[p].n >= 1
      /\ run[p].size = size => run'[p].n = run[p].n + 1
      /\ run[p].n \in Nat /\ run'[p].n \in Nat
  BY <1>1, <1>5, RunFields, Zenon DEF PortTypes
<1>7. run'[p].n >= count /\ (count > 0 => size = lastsize[p])
  <2>1. CASE size = lastsize[p] /\ repetion_count[p] > 0
    <3>1. run[p].size = size /\ run[p].n >= repetion_count[p]
      BY <1>1, <2>1, Zenon DEF PortInv, Learning
    <3> QED BY <1>3, <1>6, <2>1, <3>1, ThresholdAssumption
  <2>2. CASE ~ (size = lastsize[p] /\ repetion_count[p] > 0)
    BY <1>3, <1>6, <2>2, ThresholdAssumption
  <2> QED BY <2>1, <2>2, Zenon
<1>8. /\ locked'[p] = (count > Threshold) /\ lastsize'[p] = size
      /\ repetion_count'[p] = count
      /\ learnedsize'[p] = IF count > Threshold THEN lastsize[p] ELSE learnedsize[p]
  BY <1>1, <1>2, Zenon DEF PortTypes
<1> HIDE DEF count, size
<1>9. Learning(p)'
  <2>1. CASE count > Threshold
    <3>1. locked'[p] /\ learnedsize'[p] = lastsize[p] BY <1>8, <2>1, Zenon
    <3>2. count > 0 BY <1>4, <2>1, ThresholdAssumption
    <3>3. lastsize'[p] = learnedsize'[p] /\ run'[p].size = learnedsize'[p]
      BY <1>6, <1>7, <1>8, <3>1, <3>2, Zenon
    <3>4. run'[p].n > Threshold BY <1>4, <1>6, <1>7, <2>1, ThresholdAssumption
    <3> QED BY <3>1, <3>3, <3>4, Zenon DEF Learning
  <2>2. CASE ~ (count > Threshold)
    <3>1. ~ locked'[p] BY <1>8, <2>2, Zenon
    <3>2. repetion_count'[p] <= Threshold BY <1>4, <1>8, <2>2, ThresholdAssumption
    <3> QED BY <1>6, <1>7, <1>8, <3>1, <3>2, Zenon DEF Learning
  <2> QED BY <2>1, <2>2, Zenon
<1> QED BY <1>1, <1>2, <1>3, <1>4, <1>9, Zenon DEF PortTypes

\* CONFIG_LEARN_RXSIZE at a break, for a frame that has not been handed on or
\* for none.
LEMMA CheckSizeFields ==
  ASSUME Inv, NEW p \in Ports, CheckSize(p), CountRun(p, "break")
  PROVE  /\ Learning(p)'
         /\ payload_size[p] = 0 => locked'[p] = locked[p]
         /\ learnedsize' \in [Ports -> 0..FrameMax] /\ lastsize' \in [Ports -> 0..FrameMax]
         /\ repetion_count' \in [Ports -> 0..(Threshold + 1)]
         /\ locked' \in [Ports -> BOOLEAN]
         /\ \A q \in Ports \ {p} :
              /\ locked'[q] = locked[q] /\ learnedsize'[q] = learnedsize[q]
              /\ lastsize'[q] = lastsize[q] /\ repetion_count'[q] = repetion_count[q]
<1>1. PortTypes /\ PortInv(p) BY InvTypes, PortFacts, Zenon
<1>2. /\ run'[p].n \in Nat /\ run[p].n \in Nat /\ payload_size[p] \in Nat
      /\ run[p].size \in Nat /\ repetion_count[p] \in Nat
  BY <1>1, RunFields, ThresholdAssumption, FrameAssumption DEF PortTypes
<1>3. CASE payload_size[p] = 0
  <2>1. UNCHANGED << locked, learnedsize, lastsize, repetion_count >>
    BY <1>2, <1>3 DEF CheckSize, learning
  <2>2. state[p] # 2 BY <1>1, <1>3 DEF PortInv, Collecting
  <2>3. Learning(p)'
    <3>1. CASE ~ heard[p].zero
      <4>1. run'[p] = run[p] BY <3>1, RunFields, Zenon
      <4> QED BY <1>1, <2>1, <4>1, Zenon DEF PortInv, Learning
    <3>2. CASE heard[p].zero /\ locked[p]
      <4>1. run[p].size = Whole(heard[p]) /\ run[p].size = learnedsize[p]
        BY <1>1, <2>2, <3>2, Zenon DEF PortInv, Learning, HandedEarly
      <4>2. run'[p].n = run[p].n + 1 /\ run'[p].size = learnedsize[p]
        BY <3>2, <4>1, RunFields, Zenon
      <4> QED BY <1>1, <1>2, <2>1, <3>2, <4>2, ThresholdAssumption DEF PortInv, Learning
    <3>3. CASE heard[p].zero /\ ~ locked[p]
      <4>1. repetion_count[p] = 0 BY <1>1, <2>2, <3>3, Zenon DEF PortInv, HandedEarly
      <4> QED BY <2>1, <3>3, <4>1, ThresholdAssumption DEF Learning
    <3> QED BY <3>1, <3>2, <3>3, Zenon
  <2> QED BY <1>1, <2>1, <2>3, Zenon DEF PortTypes
<1>4. CASE payload_size[p] > 0 /\ ~ locked[p]
  <2>1. LearnSize(p) BY <1>2, <1>4 DEF CheckSize
  <2> QED BY <1>2, <1>4, <2>1, LearnFields
<1>5. CASE payload_size[p] > 0 /\ locked[p]
  <2>1. state[p] = 2 /\ heard[p].zero /\ payload_size[p] = Whole(heard[p])
    BY <1>1, <1>2, <1>5 DEF PortInv, Collecting
  <2>2. CASE payload_size[p] # lastsize[p]
    <3>1. LoseLock(p) BY <1>2, <1>5, <2>2 DEF CheckSize
    <3>2. Learning(p)' BY <3>1, LoseLockFields, ThresholdAssumption DEF Learning
    <3>3. payload_size[p] # 0 BY <1>2, <1>5
    <3>4. /\ learnedsize' \in [Ports -> 0..FrameMax] /\ lastsize' \in [Ports -> 0..FrameMax]
          /\ repetion_count' \in [Ports -> 0..(Threshold + 1)]
          /\ locked' \in [Ports -> BOOLEAN]
          /\ \A q \in Ports \ {p} :
               /\ locked'[q] = locked[q] /\ learnedsize'[q] = learnedsize[q]
               /\ lastsize'[q] = lastsize[q] /\ repetion_count'[q] = repetion_count[q]
      BY <3>1, LoseLockFields, Zenon
    <3> QED BY <3>2, <3>3, <3>4, Zenon
  <2>3. CASE payload_size[p] = lastsize[p]
    <3>1. UNCHANGED << locked, learnedsize, lastsize, repetion_count >>
      BY <1>2, <1>5, <2>3, Zenon DEF CheckSize, learning
    <3>2. run[p].size = Whole(heard[p]) /\ run[p].size = learnedsize[p]
      BY <1>1, <1>5, <2>1, <2>3, Zenon DEF PortInv, Learning
    <3>3. run'[p].n = run[p].n + 1 /\ run'[p].size = learnedsize[p]
      BY <2>1, <3>2, RunFields, Zenon
    <3>4. Learning(p)'
      BY <1>1, <1>2, <1>5, <3>1, <3>3, ThresholdAssumption DEF PortInv, Learning
    <3> QED BY <1>1, <3>1, <3>4, Zenon DEF PortTypes
  <2> QED BY <2>2, <2>3, Zenon
<1> QED BY <1>2, <1>3, <1>4, <1>5

\* Handing a frame on counts it and notes its size.
LEMMA HandedFields ==
  ASSUME NEW h \in Tally, NEW size \in Nat
  PROVE  /\ Handed(h, size) \in Tally
         /\ Handed(h, size).zero = h.zero /\ Handed(h, size).n = h.n
         /\ Handed(h, size).handed = h.handed + 1 /\ Handed(h, size).size = size
<1> DEFINE g == [h EXCEPT !.handed = h.handed + 1]
<1>1. g \in Tally BY DEF Tally
<1>2. [g EXCEPT !.size = size] \in Tally BY <1>1, Zenon DEF Tally
<1>3. Handed(h, size) \in Tally BY <1>2, Zenon DEF Handed
<1>4. /\ Handed(h, size).zero = h.zero /\ Handed(h, size).n = h.n
      /\ Handed(h, size).handed = h.handed + 1 /\ Handed(h, size).size = size
  BY Zenon DEF Handed, Tally
<1> QED BY <1>3, <1>4, Zenon

\* A break: the frame before it is handed on unless it has been.
LEMMA BreakPort ==
  ASSUME Inv, NEW p \in Ports, ReadBreak(p), CountRun(p, "break")
  PROVE  PortTypes' /\ PortInv(p)' /\ OnlyPort(p)
<1> DEFINE last == IF payload_size[p] > 0 THEN Handed(heard[p], payload_size[p])
                   ELSE heard[p]
<1>1. PortTypes /\ PortInv(p) BY InvTypes, PortFacts, Zenon
<1>2. /\ heard' = [heard EXCEPT ![p] = Silent] /\ done' = [done EXCEPT ![p] = last]
      /\ state' = [state EXCEPT ![p] = 1]
      /\ payload_size' = [payload_size EXCEPT ![p] = 0]
      /\ CheckSize(p)
  BY Zenon DEF ReadBreak
<1>3. heard[p] \in Tally /\ payload_size[p] \in 0..FrameMax /\ FrameMax \in Nat
  BY <1>1, FrameAssumption, Zenon DEF PortTypes
<1>4. last \in Tally /\ Silent \in Tally
  <2>1. Handed(heard[p], payload_size[p]) \in Tally BY <1>3, HandedFields
  <2> QED BY <1>3, <2>1, Zenon DEF Tally, Silent
<1>5. /\ last.zero = heard[p].zero /\ last.n = heard[p].n
      /\ payload_size[p] > 0 => last.handed = heard[p].handed + 1
                               /\ last.size = payload_size[p]
      /\ payload_size[p] = 0 => last.handed = heard[p].handed
                               /\ last.size = heard[p].size
  <2>1. CASE payload_size[p] > 0
    <3>1. last = Handed(heard[p], payload_size[p]) BY <2>1, Zenon
    <3>2. payload_size[p] \in Nat /\ payload_size[p] # 0 BY <1>3, <2>1
    <3> QED BY <1>3, <3>1, <3>2, HandedFields, Zenon
  <2>2. CASE ~ (payload_size[p] > 0)
    <3>1. last = heard[p] BY <2>2, Zenon
    <3> QED BY <2>2, <3>1, Zenon
  <2> QED BY <2>1, <2>2, Zenon
<1> HIDE DEF last
<1>6. heard'[p] = Silent /\ done'[p] = last /\ state'[p] = 1 /\ payload_size'[p] = 0
  BY <1>1, <1>2, Zenon DEF PortTypes
<1>7. Learning(p)' BY <1>2, CheckSizeFields, Zenon
<1>8. Collecting(p)' /\ HandedEarly(p)'
  BY <1>6 DEF Silent, Collecting, HandedEarly
<1>9. Delivered(p)'
  <2>1. Whole(last) = Whole(heard[p]) BY <1>5, Zenon DEF Whole
  <2>2. CASE payload_size[p] > 0
    <3>1. heard[p].zero /\ heard[p].handed = 0 /\ payload_size[p] = Whole(heard[p])
      BY <1>1, <2>2 DEF PortInv, Collecting
    <3>2. last.zero /\ last.handed = 1 /\ last.size = Whole(last)
      BY <1>5, <2>1, <2>2, <3>1
    <3>3. last.size \in Nat BY <1>4, Zenon DEF Tally
    <3> QED BY <1>6, <3>2, <3>3 DEF Delivered, Whole
  <2>3. CASE payload_size[p] = 0
    <3>1. state[p] # 2 BY <1>1, <2>3 DEF PortInv, Collecting
    <3>2. last.handed = IF last.zero THEN 1 ELSE 0
      BY <1>1, <1>5, <2>3, <3>1, Zenon DEF PortInv, Collecting
    <3>3. last.zero => /\ last.size <= Whole(last)
                       /\ locked[p] => last.size = Whole(last)
      BY <1>1, <1>5, <2>1, <2>3, <3>1, Zenon DEF PortInv, HandedEarly
    <3>4. locked'[p] = locked[p] BY <1>2, <2>3, CheckSizeFields, Zenon
    <3> QED BY <1>6, <3>2, <3>3, <3>4, Zenon DEF Delivered, Whole
  <2> QED BY <1>3, <2>2, <2>3
<1>10. PortTypes'
  BY <1>1, <1>2, <1>3, <1>4, CheckSizeFields, RunFields DEF PortTypes
<1>11. OnlyPort(p)
  BY <1>1, <1>2, CheckSizeFields, RunFields DEF OnlyPort, PortTypes
<1> QED BY <1>7, <1>8, <1>9, <1>10, <1>11, Zenon DEF PortInv

\* The octet after a break opens a frame, or the receiver waits for the next.
LEMMA StartcodePort ==
  ASSUME Inv, NEW p \in Ports, NEW w \in Words, w # "break",
         ReadStartcode(p, w), CountRun(p, w)
  PROVE  PortTypes' /\ PortInv(p)' /\ OnlyPort(p)
<1>1. PortTypes /\ PortInv(p) BY InvTypes, PortFacts, Zenon
<1>2. UNCHANGED << locked, learnedsize, lastsize, repetion_count, done, run >>
  BY Zenon DEF ReadStartcode, learning, CountRun
<1>3. PICK zero \in BOOLEAN :
        /\ heard' = [heard EXCEPT ![p].zero = zero, ![p].n = 1]
        /\ payload_size' = [payload_size EXCEPT ![p] = IF zero THEN 1 ELSE payload_size[p]]
        /\ state' = [state EXCEPT ![p] = IF zero THEN 2 ELSE 0]
  BY Zenon DEF ReadStartcode
<1>4. /\ heard[p] \in Tally /\ heard[p].handed = 0 /\ payload_size[p] = 0
      /\ FrameMax \in Nat /\ FrameMax >= 2
  BY <1>1, FrameAssumption, Zenon DEF PortTypes, PortInv, Collecting, ReadStartcode
<1> DEFINE g == [heard[p] EXCEPT !.zero = zero]
           h == [g EXCEPT !.n = 1]
           m == [heard EXCEPT ![p] = g]
<1>13. g \in Tally BY <1>4, Zenon DEF Tally
<1>5. h \in Tally BY <1>13, Zenon DEF Tally
<1>14. m[p] = g BY <1>1, Zenon DEF PortTypes
<1>15. heard' = [m EXCEPT ![p] = [m[p] EXCEPT !.n = 1]] BY <1>3, Zenon
<1>6. heard' = [heard EXCEPT ![p] = h] BY <1>1, <1>14, <1>15, Zenon DEF PortTypes
<1>7. h.zero = zero /\ h.n = 1 /\ h.handed = 0 BY <1>4, <1>13, Zenon DEF Tally
<1> HIDE DEF g, h, m
<1>8. heard'[p] = h BY <1>1, <1>6, Zenon DEF PortTypes
<1>9. Learning(p)' /\ Delivered(p)'
  BY <1>1, <1>2, Zenon DEF PortInv, Learning, Delivered, Whole
<1>10. Collecting(p)' /\ HandedEarly(p)'
  <2>1. CASE zero
    <3>1. payload_size'[p] = 1 /\ state'[p] = 2 BY <1>1, <1>3, <2>1, Zenon DEF PortTypes
    <3>2. Whole(h) = 1 BY <1>4, <1>7 DEF Whole
    <3>3. h.zero BY <1>7, <2>1, Zenon
    <3> QED BY <1>7, <1>8, <3>1, <3>2, <3>3 DEF Collecting, HandedEarly, Whole
  <2>2. CASE ~ zero
    <3>1. payload_size'[p] = 0 /\ state'[p] = 0
      BY <1>1, <1>3, <1>4, <2>2, Zenon DEF PortTypes
    <3>2. ~ h.zero BY <1>7, <2>2, Zenon
    <3> QED BY <1>7, <1>8, <3>1, <3>2 DEF Collecting, HandedEarly
  <2> QED BY <2>1, <2>2, Zenon
<1>11. PortTypes'
  <2>1. /\ (IF zero THEN 2 ELSE 0) \in 0..2
        /\ (IF zero THEN 1 ELSE payload_size[p]) \in 0..FrameMax
    BY <1>4
  <2>2. state' \in [Ports -> 0..2] /\ payload_size' \in [Ports -> 0..FrameMax]
    BY <1>1, <1>3, <2>1, Zenon DEF PortTypes
  <2>3. heard' \in [Ports -> Tally] BY <1>1, <1>5, <1>6, Zenon DEF PortTypes
  <2> QED BY <1>1, <1>2, <2>2, <2>3, Zenon DEF PortTypes
<1>12. OnlyPort(p)
  BY <1>1, <1>2, <1>3, <1>6, Zenon DEF OnlyPort, PortTypes
<1> QED BY <1>9, <1>10, <1>11, <1>12, Zenon DEF PortInv

\* One more octet of a frame that is being collected.
LEMMA SlotPort ==
  ASSUME Inv, NEW p \in Ports, NEW w \in Words, w # "break",
         ReadSlot(p), CountRun(p, w)
  PROVE  PortTypes' /\ PortInv(p)' /\ OnlyPort(p)
<1> DEFINE size == payload_size[p] + 1
           complete == locked[p] /\ size = learnedsize[p]
           more == [heard[p] EXCEPT !.n = heard[p].n + 1]
<1>1. PortTypes /\ PortInv(p) BY InvTypes, PortFacts, Zenon
<1>2. UNCHANGED << locked, learnedsize, lastsize, repetion_count, done, run >>
  BY Zenon DEF ReadSlot, learning, CountRun
<1>3. /\ heard[p] \in Tally /\ heard[p].zero /\ heard[p].handed = 0
      /\ payload_size[p] = Whole(heard[p]) /\ payload_size[p] > 0
      /\ payload_size[p] \in 0..FrameMax /\ FrameMax \in Nat /\ state[p] = 2
  BY <1>1, FrameAssumption, Zenon DEF PortTypes, PortInv, Collecting, ReadSlot
<1>4. /\ more \in Tally /\ more.zero /\ more.handed = 0
      /\ more.n = heard[p].n + 1 /\ heard[p].n \in Nat
  BY <1>3 DEF Tally
<1>5. Learning(p)' /\ Delivered(p)'
  BY <1>1, <1>2, Zenon DEF PortInv, Learning, Delivered, Whole
<1>9. ASSUME payload_size[p] < FrameMax
      PROVE  /\ heard' = [heard EXCEPT ![p] = IF complete THEN Handed(more, size) ELSE more]
             /\ payload_size' = [payload_size EXCEPT ![p] = IF complete THEN 0 ELSE size]
             /\ state' = [state EXCEPT ![p] = IF complete THEN 0 ELSE 2]
  BY <1>9, Zenon DEF ReadSlot
<1> HIDE DEF complete
<1>6. CASE payload_size[p] < FrameMax /\ complete
  <2>1. /\ heard' = [heard EXCEPT ![p] = Handed(more, size)]
        /\ payload_size' = [payload_size EXCEPT ![p] = 0]
        /\ state' = [state EXCEPT ![p] = 0]
    BY <1>6, <1>9, Zenon
  <2>2. heard[p].n = payload_size[p] BY <1>3, <1>4, <1>6 DEF Whole
  <2> DEFINE h == Handed(more, size)
  <2>3. /\ h \in Tally /\ h.zero /\ h.n = size /\ h.handed = 1 /\ h.size = size
    <3>1. size \in Nat /\ more.n = size BY <1>3, <1>4, <2>2
    <3> HIDE DEF more, size
    <3>2. /\ Handed(more, size) \in Tally
          /\ Handed(more, size).zero = more.zero /\ Handed(more, size).n = more.n
          /\ Handed(more, size).handed = more.handed + 1
          /\ Handed(more, size).size = size
      BY <1>4, <3>1, HandedFields, Zenon
    <3> QED BY <1>4, <3>1, <3>2
  <2>4. Whole(h) = size BY <1>3, <1>6, <2>3 DEF Whole
  <2>5. locked[p] /\ size = learnedsize[p] BY <1>6, Zenon DEF complete
  <2>10. size \in Nat BY <1>3
  <2> HIDE DEF h, size
  <2>6. heard'[p] = h /\ payload_size'[p] = 0 /\ state'[p] = 0
    BY <1>1, <2>1, Zenon DEF PortTypes, h
  <2>7. Collecting(p)' /\ HandedEarly(p)'
    BY <1>2, <2>3, <2>4, <2>5, <2>6, <2>10 DEF Collecting, HandedEarly, Whole
  <2>8. PortTypes' BY <1>1, <1>2, <1>3, <2>1, <2>3 DEF PortTypes, h
  <2>9. OnlyPort(p) BY <1>1, <1>2, <2>1, Zenon DEF OnlyPort, PortTypes
  <2> QED BY <1>5, <2>7, <2>8, <2>9, Zenon DEF PortInv
<1>7. CASE payload_size[p] < FrameMax /\ ~ complete
  <2>1. /\ heard' = [heard EXCEPT ![p] = more]
        /\ payload_size' = [payload_size EXCEPT ![p] = size]
        /\ state' = [state EXCEPT ![p] = 2]
    BY <1>7, <1>9, Zenon
  <2>2. heard[p].n = payload_size[p] BY <1>3, <1>4, <1>7 DEF Whole
  <2>3. Whole(more) = size BY <1>3, <1>4, <1>7, <2>2 DEF Whole
  <2>4. size > 0 /\ size \in 0..FrameMax BY <1>3, <1>7
  <2> HIDE DEF more, size
  <2>6. heard'[p] = more /\ payload_size'[p] = size /\ state'[p] = 2
    BY <1>1, <2>1, Zenon DEF PortTypes
  <2>7. Collecting(p)' /\ HandedEarly(p)'
    BY <1>2, <1>4, <2>3, <2>4, <2>6 DEF Collecting, HandedEarly, Whole
  <2>8. PortTypes' BY <1>1, <1>2, <1>3, <1>4, <2>1, <2>4, Zenon DEF PortTypes
  <2>9. OnlyPort(p) BY <1>1, <1>2, <2>1, Zenon DEF OnlyPort, PortTypes
  <2> QED BY <1>5, <2>7, <2>8, <2>9, Zenon DEF PortInv
<1>8. CASE ~ (payload_size[p] < FrameMax)
  <2>1. /\ heard' = [heard EXCEPT ![p] = more] /\ UNCHANGED << payload_size, state >>
    BY <1>8, Zenon DEF ReadSlot
  <2>2. heard[p].n >= FrameMax BY <1>3, <1>4, <1>8 DEF Whole
  <2>3. Whole(more) = payload_size[p] BY <1>3, <1>4, <1>8, <2>2 DEF Whole
  <2> HIDE DEF more
  <2>6. heard'[p] = more BY <1>1, <2>1, Zenon DEF PortTypes
  <2>7. Collecting(p)' /\ HandedEarly(p)'
    <3>1. state'[p] = 2 /\ payload_size'[p] = payload_size[p] BY <1>3, <2>1, Zenon
    <3>2. payload_size'[p] = Whole(heard[p])' BY <2>3, <2>6, <3>1, Zenon DEF Whole
    <3>3. heard'[p].zero /\ heard'[p].handed = 0 BY <1>4, <2>6, Zenon
    <3>4. HandedEarly(p)' BY <3>1, Zenon DEF HandedEarly
    <3>5. Collecting(p)' BY <1>3, <3>1, <3>2, <3>3 DEF Collecting
    <3> QED BY <3>4, <3>5, Zenon
  <2>8. PortTypes' BY <1>1, <1>2, <1>4, <2>1, Zenon DEF PortTypes
  <2>9. OnlyPort(p) BY <1>1, <1>2, <2>1, Zenon DEF OnlyPort, PortTypes
  <2> QED BY <1>5, <2>7, <2>8, <2>9, Zenon DEF PortInv
<1> QED BY <1>6, <1>7, <1>8, Zenon

\* An octet outside a frame; after a frame that was cut it costs the lock.
LEMMA SkipPort ==
  ASSUME Inv, NEW p \in Ports, NEW w \in Words, w # "break",
         SkipSlot(p), CountRun(p, w)
  PROVE  PortTypes' /\ PortInv(p)' /\ OnlyPort(p)
<1> DEFINE more == [heard[p] EXCEPT !.n = heard[p].n + 1]
<1>1. PortTypes /\ PortInv(p) BY InvTypes, PortFacts, Zenon
<1>2. /\ UNCHANGED << state, payload_size, done, run >> /\ state[p] = 0
      /\ heard' = [heard EXCEPT ![p] = more]
  BY Zenon DEF SkipSlot, CountRun
<1>3. /\ more \in Tally /\ more.zero = heard[p].zero /\ more.handed = heard[p].handed
      /\ more.size = heard[p].size /\ more.n = heard[p].n + 1
      /\ heard[p].n \in Nat /\ heard[p].size \in Nat
  <2>1. heard[p] \in Tally BY <1>1, Zenon DEF PortTypes
  <2> QED BY <2>1 DEF Tally
<1> HIDE DEF more
<1>4. heard'[p] = more /\ heard' \in [Ports -> Tally] BY <1>1, <1>2, <1>3, Zenon DEF PortTypes
<1>5. Collecting(p)'
  <2>1. payload_size[p] = 0 /\ heard[p].handed = IF heard[p].zero THEN 1 ELSE 0
    BY <1>1, <1>2 DEF PortInv, Collecting
  <2>2. more.handed = IF more.zero THEN 1 ELSE 0 BY <1>3, <2>1, Zenon
  <2>3. state'[p] = 0 /\ payload_size'[p] = 0 BY <1>2, <2>1, Zenon
  <2> QED BY <1>4, <2>2, <2>3 DEF Collecting
<1>6. Whole(heard[p]) <= Whole(more) /\ Whole(heard[p]) \in Nat /\ Whole(more) \in Nat
  BY <1>3, FrameAssumption DEF Whole
<1>7. CASE locked[p]
  <2>1. LoseLock(p) BY <1>7, Zenon DEF SkipSlot
  <2>2. ~ locked'[p] /\ repetion_count'[p] = 0 BY <2>1, LoseLockFields, Zenon
  <2>3. heard[p].zero => more.size <= Whole(more)
    BY <1>1, <1>2, <1>3, <1>6 DEF PortInv, HandedEarly
  <2>4. HandedEarly(p)'
    BY <1>2, <1>3, <1>4, <2>2, <2>3, Zenon DEF HandedEarly, Whole
  <2>5. Learning(p)' BY <2>2, ThresholdAssumption DEF Learning
  <2>6. Delivered(p)' BY <1>1, <1>2, <2>2, Zenon DEF PortInv, Delivered, Whole
  <2>7. PortTypes' BY <1>1, <1>2, <1>4, <2>1, LoseLockFields, Zenon DEF PortTypes
  <2>8. OnlyPort(p) BY <1>1, <1>2, <2>1, LoseLockFields, Zenon DEF OnlyPort, PortTypes
  <2> QED BY <1>5, <2>4, <2>5, <2>6, <2>7, <2>8, Zenon DEF PortInv
<1>8. CASE ~ locked[p]
  <2>1. UNCHANGED << locked, learnedsize, lastsize, repetion_count >>
    BY <1>8, Zenon DEF SkipSlot, learning
  <2>3. heard[p].zero => more.size <= Whole(more) /\ repetion_count[p] = 0
    BY <1>1, <1>2, <1>3, <1>6, <1>8 DEF PortInv, HandedEarly
  <2>4. HandedEarly(p)'
    BY <1>2, <1>3, <1>4, <1>8, <2>1, <2>3, Zenon DEF HandedEarly, Whole
  <2>5. Learning(p)' /\ Delivered(p)'
    BY <1>1, <1>2, <2>1, Zenon DEF PortInv, Learning, Delivered, Whole
  <2>7. PortTypes' BY <1>1, <1>2, <1>4, <2>1, Zenon DEF PortTypes
  <2>8. OnlyPort(p) BY <1>1, <1>2, <2>1, Zenon DEF OnlyPort, PortTypes
  <2> QED BY <1>5, <2>4, <2>5, <2>7, <2>8, Zenon DEF PortInv
<1> QED BY <1>7, <1>8, Zenon

\* A turn of the loop reads one word of one port.
LEMMA CheckRxInv ==
  ASSUME Inv, llgdmx_check_rx_port
  PROVE  Inv'
<1>1. PICK p \in Ports : p = server.port /\ board' = board
  BY Zenon DEF llgdmx_check_rx_port
<1>2. rxfifo \in [Ports -> Seq(Words)] /\ \A q \in Ports : Len(rxfifo[q]) <= RxFifo
  BY Zenon DEF Inv, MoreTypes, TypeOK
<1>3. CASE p \notin server.irqstat \/ rxfifo[p] = << >>
  <2>1. UNCHANGED << rxfifo, port, ghost >> BY <1>1, <1>3, Zenon DEF llgdmx_check_rx_port
  <2> QED BY <1>1, <1>2, <2>1, NothingRead, Zenon
<1>4. CASE ~ (p \notin server.irqstat \/ rxfifo[p] = << >>)
  <2>7. PICK w : w = Head(rxfifo[p]) BY Zenon
  <2>1. /\ rxfifo' = [rxfifo EXCEPT ![p] = Tail(rxfifo[p])]
        /\ \/ w = "break" /\ ReadBreak(p)
           \/ w # "break" /\ ReadStartcode(p, w)
           \/ w # "break" /\ ReadSlot(p)
           \/ w # "break" /\ SkipSlot(p)
        /\ CountRun(p, w)
    BY <1>1, <1>4, <2>7, Zenon DEF llgdmx_check_rx_port
  <2>2. /\ w \in Words /\ Tail(rxfifo[p]) \in Seq(Words)
        /\ Len(Tail(rxfifo[p])) = Len(rxfifo[p]) - 1 /\ Len(rxfifo[p]) \in Nat
    BY <1>1, <1>2, <1>4, <2>7
  <2>3. /\ rxfifo' \in [Ports -> Seq(Words)]
        /\ \A q \in Ports : Len(rxfifo'[q]) <= RxFifo
    <3>1. Len(Tail(rxfifo[p])) <= RxFifo BY <1>1, <1>2, <2>2, FifoAssumption
    <3> QED BY <1>1, <1>2, <2>1, <2>2, <3>1, Zenon
  <2>4. PortTypes' /\ PortInv(p)' /\ OnlyPort(p)
    BY <1>1, <2>1, <2>2, BreakPort, StartcodePort, SlotPort, SkipPort, Zenon
  <2>5. \A q \in Ports : PortInv(q)' BY <1>1, <2>4, OtherPorts, Zenon DEF Inv
  <2>6. TypeOK' /\ MoreTypes'
    BY <1>1, <2>3, <2>4, Zenon DEF Inv, TypeOK, MoreTypes, PortTypes
  <2> QED BY <2>5, <2>6, Zenon DEF Inv
<1> QED BY <1>3, <1>4, Zenon

\* The other steps leave the receiver alone, words that arrive apart.
LEMMA NextInv ==
  ASSUME Inv, [Next]_vars
  PROVE  Inv'
<1>1. rxfifo \in [Ports -> Seq(Words)] /\ \A q \in Ports : Len(rxfifo[q]) <= RxFifo
  BY Zenon DEF Inv, MoreTypes, TypeOK
<1>2. ASSUME NEW p \in Ports, WireBreak(p) \/ WireOctet(p) PROVE Inv'
  <2>1. Hear(p, "break") \/ Hear(p, "zero") \/ Hear(p, "other") \/ Hear(p, "slot")
    BY <1>2, Zenon DEF WireBreak, WireOctet
  <2>2. {"break", "zero", "other", "slot"} \subseteq Words BY Zenon DEF Words
  <2>3. PICK w \in Words : Hear(p, w) BY <2>1, <2>2, Zenon
  <2> QED BY <2>3, HearInv, Zenon
<1>3. CASE llgdmx_check_rx_port BY <1>3, CheckRxInv, Zenon
<1>4. ASSUME NEW p \in Ports, Transmit(p) PROVE Inv'
  BY <1>1, <1>4, NothingRead, Zenon DEF Transmit
<1>5. ASSUME NEW f \in TxFrames, dmxllgip_sendFrame(f[1], f[2]) \/ pwmdmx_sendFrame(f[2])
      PROVE  Inv'
  BY <1>1, <1>5, NothingRead, Zenon DEF dmxllgip_sendFrame, pwmdmx_sendFrame, core
<1>6. CASE \/ handle_llgdmx_interrupt \/ EnableInterrupt \/ dmxllgip_ll_sendFrame
           \/ uartdmx_sendFrame \/ uartdmx_send_break \/ OctetLeaves \/ Poll
           \/ ReleaseLine
  <2>1. CASE handle_llgdmx_interrupt
    BY <1>1, <2>1, NothingRead, Zenon DEF handle_llgdmx_interrupt
  <2>2. CASE EnableInterrupt BY <1>1, <2>2, NothingRead, Zenon DEF EnableInterrupt
  <2>3. CASE dmxllgip_ll_sendFrame
    BY <1>1, <2>3, NothingRead, Zenon DEF dmxllgip_ll_sendFrame
  <2>4. CASE uartdmx_sendFrame BY <1>1, <2>4, NothingRead, Zenon DEF uartdmx_sendFrame, core
  <2>5. CASE uartdmx_send_break BY <1>1, <2>5, NothingRead, Zenon DEF uartdmx_send_break, core
  <2>6. CASE OctetLeaves BY <1>1, <2>6, NothingRead, Zenon DEF OctetLeaves, core
  <2>7. CASE Poll BY <1>1, <2>7, NothingRead, Zenon DEF Poll, core
  <2>8. CASE ReleaseLine BY <1>1, <2>8, NothingRead, Zenon DEF ReleaseLine, core
  <2> QED BY <1>6, <2>1, <2>2, <2>3, <2>4, <2>5, <2>6, <2>7, <2>8, Zenon
<1>7. CASE UNCHANGED vars
  BY <1>1, <1>7, NothingRead, Zenon DEF vars, core
<1> QED BY <1>2, <1>3, <1>4, <1>5, <1>6, <1>7, Zenon DEF Next

\* Nothing has been heard when the driver starts.
LEMMA InitInv == Init => Inv
<1> SUFFICES ASSUME Init PROVE Inv BY Zenon
<1>1. TypeOK /\ MoreTypes
  BY FrameAssumption, ThresholdAssumption, FifoAssumption
     DEF Init, TypeOK, MoreTypes, Silent, Tally
<1>2. ASSUME NEW p \in Ports PROVE PortInv(p)
  BY <1>2, FrameAssumption, ThresholdAssumption
     DEF Init, PortInv, Collecting, HandedEarly, Learning, Delivered, Silent, Whole
<1> QED BY <1>1, <1>2, Zenon DEF Inv

\* What the invariant says of the frames handed on.
LEMMA InvReceiver == Inv => ReceiverConsistent
<1> SUFFICES ASSUME Inv PROVE ReceiverConsistent BY Zenon
<1>1. TypeOK BY Zenon DEF Inv
<1>2. FrameHandedOnce
  <2> SUFFICES ASSUME NEW p \in Ports
               PROVE  /\ heard[p].handed <= 1
                      /\ done[p].handed = IF done[p].zero THEN 1 ELSE 0
    BY Zenon DEF FrameHandedOnce
  <2>1. Collecting(p) /\ Delivered(p) BY PortFacts, Zenon DEF PortInv
  <2>2. heard[p].handed = 0 \/ heard[p].handed = 1
    <3>1. CASE state[p] = 2 BY <2>1, <3>1, Zenon DEF Collecting
    <3>2. CASE state[p] # 2 BY <2>1, <3>2, Zenon DEF Collecting
    <3> QED BY <3>1, <3>2, Zenon
  <2>3. done[p].handed = IF done[p].zero THEN 1 ELSE 0 BY <2>1, Zenon DEF Delivered
  <2>4. heard[p].handed <= 1 BY <2>2
  <2> QED BY <2>3, <2>4, Zenon
<1>3. CutFrameLosesLock
  <2> SUFFICES ASSUME NEW p \in Ports, done[p].zero
               PROVE  \/ done[p].size = Whole(done[p])
                      \/ done[p].size < Whole(done[p]) /\ ~ locked[p]
    BY Zenon DEF CutFrameLosesLock
  <2>1. done[p].size \in Nat /\ done[p].n \in Nat BY PortFacts, Zenon DEF Tally
  <2>2. Whole(done[p]) \in Nat BY <2>1, FrameAssumption, Zenon DEF Whole
  <2>3. Delivered(p) BY PortFacts, Zenon DEF PortInv
  <2> QED BY <2>1, <2>2, <2>3 DEF Delivered
<1>4. LockNeedsEqualFrames
  BY Zenon DEF Inv, PortInv, Learning, LockNeedsEqualFrames
<1> QED BY <1>1, <1>2, <1>3, <1>4, Zenon DEF ReceiverConsistent

\* For any number of ports, any size of a frame and of the fifo and any
\* threshold, llgdmx_check_rx_port hands every frame with start code zero on
\* once, whole or at the price of the lock on the size, and it takes that lock
\* only after repetion_count_treshold + 1 frames of that size in a row.
THEOREM FramesHandedOnce == Spec => []ReceiverConsistent
<1>1. Inv /\ [Next]_vars => Inv' BY NextInv, Zenon
<1> QED BY <1>1, InitInv, InvReceiver, PTL DEF Spec

-----------------------------------------------------------------------------
(* The break of the serial port.                                           *)

\* A break octet leaves before uartdmx_waitUntilTransmitterEmpty gives up.
BreakFits == BreakPolls \in Nat /\ BreakPolls < TimeoutPolls

\* The line while the server makes a break: an octet is on its way only while
\* the server polls, at the break rate, and the driver stays on until then.
BreakInv ==
  /\ "pc" \in DOMAIN server
  /\ server.pc \in {"break", "poll"} => /\ line.rts
                                        /\ "polls" \in DOMAIN server /\ server.polls \in Nat
  /\ line.octet # "none" => server.pc = "poll" /\ line.octet = "break" /\ line.baud = "break"
  /\ line \in [rts : BOOLEAN, baud : {"dmx", "break"}, octet : {"none", "break"}]

\* uartdmx_send_break and uartdmx_waitUntilTransmitterEmpty keep it; the rest
\* of the server leaves the line alone or finds it idle.
LEMMA NextBreak ==
  ASSUME BreakFits, BreakInv, [Next]_vars
  PROVE  BreakInv'
<1> DEFINE Lines == [rts : BOOLEAN, baud : {"dmx", "break"}, octet : {"none", "break"}]
<1>1. ASSUME UNCHANGED << server, line >> PROVE BreakInv'
  BY <1>1, Zenon DEF BreakInv
<1>2. ASSUME line' = line, "pc" \in DOMAIN server', server'.pc \notin {"break", "poll"},
             server.pc # "poll"
      PROVE  BreakInv'
  BY <1>2, Zenon DEF BreakInv
<1>3. ASSUME NEW p \in Ports, WireBreak(p) \/ WireOctet(p) \/ Transmit(p) PROVE BreakInv'
  BY <1>1, <1>3, Zenon DEF WireBreak, WireOctet, Hear, Transmit
<1>4. ASSUME NEW f \in TxFrames, dmxllgip_sendFrame(f[1], f[2]) PROVE BreakInv'
  <2>1. server' = [pc |-> "txwait", port |-> f[1], size |-> f[2]] /\ line' = line
        /\ server.pc = "idle"
    BY <1>4, Zenon DEF dmxllgip_sendFrame
  <2>2. "pc" \in DOMAIN server' /\ server'.pc = "txwait" BY <2>1, Zenon
  <2> QED BY <1>2, <2>1, <2>2, Zenon
<1>5. ASSUME NEW f \in TxFrames, pwmdmx_sendFrame(f[2]) PROVE BreakInv'
  BY <1>1, <1>5, Zenon DEF pwmdmx_sendFrame
<1>6. CASE handle_llgdmx_interrupt
  <2>1. /\ server' = [pc |-> "rx", port |-> 0, size |-> 0,
                      irqstat |-> {p \in Ports : rxfifo[p] # << >>}]
        /\ line' = line /\ server.pc = "idle"
    BY <1>6, Zenon DEF handle_llgdmx_interrupt
  <2>2. "pc" \in DOMAIN server' /\ server'.pc = "rx" BY <2>1, Zenon
  <2> QED BY <1>2, <2>1, <2>2, Zenon
<1>7. CASE llgdmx_check_rx_port
  <2>1. /\ line' = line /\ server.pc = "rx"
        /\ server' = [server EXCEPT !.port = server.port + 1] \/ server' = server
    BY <1>7, Zenon DEF llgdmx_check_rx_port
  <2>2. "pc" \in DOMAIN server' /\ server'.pc = "rx" BY <2>1, Zenon DEF BreakInv
  <2> QED BY <1>2, <2>1, <2>2, Zenon
<1>8. CASE EnableInterrupt \/ dmxllgip_ll_sendFrame
  <2>1. server' = Idle /\ line' = line /\ server.pc # "poll"
    BY <1>8, Zenon DEF EnableInterrupt, dmxllgip_ll_sendFrame
  <2>2. "pc" \in DOMAIN server' /\ server'.pc = "idle" BY <2>1, Zenon DEF Idle
  <2> QED BY <1>2, <2>1, <2>2, Zenon
<1>9. CASE uartdmx_sendFrame
  <2>1. server.pc = "idle" /\ line' = [line EXCEPT !.rts = TRUE]
    BY <1>9, Zenon DEF uartdmx_sendFrame
  <2>2. PICK pc \in {"rts", "break"} :
          server' = [pc |-> pc, port |-> 0, size |-> 0, polls |-> 0]
    BY <1>9, Zenon DEF uartdmx_sendFrame
  <2>3. /\ "pc" \in DOMAIN server' /\ "polls" \in DOMAIN server' /\ server'.polls = 0
    BY <2>2, Zenon
  <2>4. line.octet = "none" BY <2>1, Zenon DEF BreakInv
  <2>5. line \in Lines BY Zenon DEF BreakInv
  <2>6. line' \in Lines /\ line'.rts /\ line'.octet = "none" BY <2>1, <2>4, <2>5, Zenon
  <2> QED BY <2>3, <2>6 DEF BreakInv
<1>10. CASE uartdmx_send_break
  <2>1. /\ server.pc = "break" /\ server' = [server EXCEPT !.pc = "poll"]
        /\ line' = [line EXCEPT !.baud = "break", !.octet = "break"]
    BY <1>10, Zenon DEF uartdmx_send_break
  <2>2. line \in Lines /\ line.rts /\ "pc" \in DOMAIN server /\ "polls" \in DOMAIN server
        /\ server.polls \in Nat
    BY <2>1, Zenon DEF BreakInv
  <2>3. /\ "pc" \in DOMAIN server' /\ "polls" \in DOMAIN server'
        /\ server'.pc = "poll" /\ server'.polls \in Nat
    BY <2>1, <2>2, Zenon
  <2> DEFINE low == [line EXCEPT !.baud = "break"]
  <2>4. low \in Lines /\ low.rts /\ low.baud = "break" BY <2>2, Zenon
  <2>5. line' = [low EXCEPT !.octet = "break"] BY <2>1, Zenon
  <2> HIDE DEF low
  <2>6. line' \in Lines /\ line'.rts /\ line'.baud = "break" /\ line'.octet = "break"
    BY <2>4, <2>5, Zenon
  <2> QED BY <2>3, <2>6, Zenon DEF BreakInv
<1>11. CASE OctetLeaves
  <2>1. line' = [line EXCEPT !.octet = "none"] /\ server' = server
    BY <1>11, Zenon DEF OctetLeaves
  <2>2. line \in Lines BY Zenon DEF BreakInv
  <2>3. line' \in Lines /\ line'.rts = line.rts /\ line'.octet = "none" BY <2>1, <2>2, Zenon
  <2> QED BY <2>1, <2>3, Zenon DEF BreakInv
<1>12. CASE Poll
  <2>1. server.pc = "poll" BY <1>12, Zenon DEF Poll
  <2>2. /\ line \in Lines /\ line.rts /\ "pc" \in DOMAIN server
        /\ "polls" \in DOMAIN server /\ server.polls \in Nat
    BY <2>1, Zenon DEF BreakInv
  <2>3. line.octet # "none" => server.polls + 1 < TimeoutPolls
    BY <1>12, <2>2 DEF Poll, BreakFits, TimeoutPolls
  <2>4. CASE line.octet = "none"
    <3>1. line' = [line EXCEPT !.baud = "dmx"] /\ server' = [server EXCEPT !.pc = "rts"]
      BY <1>12, <2>4, Zenon DEF Poll
    <3>2. line' \in Lines /\ line'.octet = "none" BY <2>2, <2>4, <3>1, Zenon
    <3>3. "pc" \in DOMAIN server' /\ server'.pc = "rts" BY <2>2, <3>1, Zenon
    <3> QED BY <3>2, <3>3, Zenon DEF BreakInv
  <2>5. CASE line.octet # "none"
    <3>1. server' = [server EXCEPT !.polls = server.polls + 1] /\ line' = line
      BY <1>12, <2>2, <2>3, <2>5 DEF Poll, TimeoutPolls
    <3>2. /\ "pc" \in DOMAIN server' /\ "polls" \in DOMAIN server'
          /\ server'.pc = "poll" /\ server'.polls \in Nat
      BY <2>1, <2>2, <3>1
    <3> QED BY <2>2, <3>1, <3>2, Zenon DEF BreakInv
  <2> QED BY <2>4, <2>5, Zenon
<1>13. CASE ReleaseLine
  <2>1. server.pc = "rts" /\ line' = [line EXCEPT !.rts = FALSE] /\ server' = Idle
    BY <1>13, Zenon DEF ReleaseLine
  <2>2. line \in Lines /\ line.octet = "none" BY <2>1, Zenon DEF BreakInv
  <2>3. line' \in Lines /\ line'.octet = "none" BY <2>1, <2>2, Zenon
  <2>4. "pc" \in DOMAIN server' /\ server'.pc = "idle" BY <2>1, Zenon DEF Idle
  <2> QED BY <2>3, <2>4, Zenon DEF BreakInv
<1>14. CASE UNCHANGED vars BY <1>1, <1>14, Zenon DEF vars
<1> QED BY <1>3, <1>4, <1>5, <1>6, <1>7, <1>8, <1>9, <1>10, <1>11, <1>12, <1>13, <1>14, Zenon
        DEF Next

-----------------------------------------------------------------------------
(* The frames of the llgip core.                                           *)

\* A word that goes from the fifo to the line stays in its place.
LEMMA MoveWord ==
  ASSUME NEW s \in Seq(Words), NEW t \in Seq(Words), t # << >>
  PROVE  Append(s, Head(t)) \o Tail(t) = s \o t
<1>1. t = << Head(t) >> \o Tail(t) /\ Head(t) \in Words /\ Tail(t) \in Seq(Words)
  BY HeadTailProperties
<1> QED BY <1>1

\* The words of a frame fit into the fifo.
LEMMA FrameFits ==
  ASSUME NEW size \in 0..(FrameMax - 1)
  PROVE  /\ FrameWords(size) \in Seq(Words)
         /\ Len(FrameWords(size)) = size + 2
         /\ SubSeq(FrameWords(size), 1,
                   IF Len(FrameWords(size)) < TxFifo THEN Len(FrameWords(size)) ELSE TxFifo)
            = FrameWords(size)
<1> DEFINE slots == [i \in 1..size |-> "slot"]
           f == << "break", "zero" >> \o slots
<1>1. size \in Nat /\ FrameMax \in Nat /\ size + 2 <= FrameMax + 1 BY FrameAssumption
<1>2. slots \in Seq(Words) /\ Len(slots) = size BY <1>1 DEF Words
<1>3. << "break", "zero" >> \in Seq(Words) /\ Len(<< "break", "zero" >>) = 2 BY DEF Words
<1> HIDE DEF slots
<1>4. f \in Seq(Words) /\ Len(f) = size + 2 BY <1>1, <1>2, <1>3, ConcatProperties
<1>5. FrameWords(size) = f BY Zenon DEF FrameWords, slots
<1> HIDE DEF f
<1>6. (IF Len(f) < TxFifo THEN Len(f) ELSE TxFifo) = Len(f) BY <1>1, <1>4 DEF TxFifo
<1>7. SubSeq(f, 1, Len(f)) = f BY <1>4, SubSeqFull, Zenon
<1> QED BY <1>4, <1>5, <1>6, <1>7, Zenon

\* The fifos and what is asked of them, and the server while it waits.
SenderInv ==
  /\ txfifo \in [Ports -> Seq(Words)] /\ out \in [Ports -> Seq(Words)]
  /\ frames \in [Ports -> Seq(Words)]
  /\ "pc" \in DOMAIN server
  /\ server.pc = "txwait" => server.port \in Ports /\ server.size \in 0..(FrameMax - 1)
  /\ SentFramesWhole

\* A step that is not about the transmitters.
LEMMA SendersApart ==
  ASSUME SenderInv, UNCHANGED << txfifo, out, frames >>, "pc" \in DOMAIN server',
         \/ server' = server
         \/ server.pc # "txwait" /\ server'.pc # "txwait"
  PROVE  SenderInv'
<1>1. CASE server' = server BY <1>1, Zenon DEF SenderInv, SentFramesWhole, Waiting, FrameWords
<1>2. CASE server.pc # "txwait" /\ server'.pc # "txwait"
  <2>1. \A p \in Ports : Waiting(p) = << >> /\ Waiting(p)' = << >> BY <1>2, Zenon DEF Waiting
  <2>2. SentFramesWhole' BY <2>1, Zenon DEF SenderInv, SentFramesWhole
  <2> QED BY <1>2, <2>2, Zenon DEF SenderInv
<1> QED BY <1>1, <1>2, Zenon

\* dmxllgip_sendFrame: what the server waits with is what was asked for last.
LEMMA SendFrameWhole ==
  ASSUME SenderInv, NEW p \in Ports, NEW size \in 0..(FrameMax - 1),
         dmxllgip_sendFrame(p, size)
  PROVE  SenderInv'
<1>1. /\ server.pc = "idle" /\ server' = [pc |-> "txwait", port |-> p, size |-> size]
      /\ frames' = [frames EXCEPT ![p] = frames[p] \o FrameWords(size)]
      /\ txfifo' = txfifo /\ out' = out
  BY Zenon DEF dmxllgip_sendFrame, core
<1>2. FrameWords(size) \in Seq(Words) BY FrameFits, Zenon
<1>3. frames[p] \o FrameWords(size) \in Seq(Words) BY <1>2, ConcatProperties, Zenon DEF SenderInv
<1>4. frames' \in [Ports -> Seq(Words)] BY <1>1, <1>3, Zenon DEF SenderInv
<1>5. \A q \in Ports : Waiting(q) = << >> BY <1>1, Zenon DEF Waiting
<1>6. server'.pc = "txwait" /\ server'.port = p /\ server'.size = size
      /\ "pc" \in DOMAIN server'
  BY <1>1, Zenon
<1>7. \A q \in Ports : out[q] \o txfifo[q] = frames[q]
  <2> TAKE q \in Ports
  <2>1. out[q] \o txfifo[q] \in Seq(Words) BY ConcatProperties, Zenon DEF SenderInv
  <2>2. (out[q] \o txfifo[q]) \o << >> = frames[q] BY <1>5, Zenon DEF SenderInv, SentFramesWhole
  <2> QED BY <2>1, <2>2, ConcatEmptySeq, Zenon
<1>8. ASSUME NEW q \in Ports PROVE (out'[q] \o txfifo'[q]) \o Waiting(q)' = frames'[q]
  <2>1. CASE q = p
    <3>1. Waiting(q)' = FrameWords(size) BY <1>6, <2>1, Zenon DEF Waiting, FrameWords
    <3>2. frames'[q] = frames[q] \o FrameWords(size) BY <1>1, <2>1, Zenon DEF SenderInv
    <3> QED BY <1>1, <1>7, <3>1, <3>2, Zenon
  <2>2. CASE q # p
    <3>1. Waiting(q)' = << >> BY <1>6, <2>2, Zenon DEF Waiting
    <3>2. frames'[q] = frames[q] BY <1>1, <2>2, Zenon DEF SenderInv
    <3>3. frames[q] \o << >> = frames[q] BY ConcatEmptySeq, Zenon DEF SenderInv
    <3> QED BY <1>1, <1>7, <3>1, <3>2, <3>3, Zenon
  <2> QED BY <2>1, <2>2, Zenon
<1>9. SentFramesWhole' BY <1>8, Zenon DEF SentFramesWhole
<1> QED BY <1>1, <1>4, <1>6, <1>9, Zenon DEF SenderInv

\* dmxllgip_ll_sendFrame: the empty fifo takes the whole frame.
LEMMA WriteFrameWhole ==
  ASSUME SenderInv, dmxllgip_ll_sendFrame
  PROVE  SenderInv'
<1> DEFINE p == server.port
           f == FrameWords(server.size)
<1>1. /\ server.pc = "txwait" /\ txfifo[p] = << >> /\ server' = Idle
      /\ txfifo' = [txfifo EXCEPT ![p] =
                       SubSeq(f, 1, IF Len(f) < TxFifo THEN Len(f) ELSE TxFifo)]
      /\ out' = out /\ frames' = frames
  BY Zenon DEF dmxllgip_ll_sendFrame, clients
<1>2. p \in Ports /\ server.size \in 0..(FrameMax - 1) BY <1>1, Zenon DEF SenderInv
<1>3. f \in Seq(Words) /\ txfifo' = [txfifo EXCEPT ![p] = f] BY <1>1, <1>2, FrameFits, Zenon
<1>4. txfifo' \in [Ports -> Seq(Words)] BY <1>2, <1>3, Zenon DEF SenderInv
<1>5. Waiting(p) = f /\ \A q \in Ports \ {p} : Waiting(q) = << >> BY <1>1, Zenon DEF Waiting
<1>6. "pc" \in DOMAIN server' /\ server'.pc = "idle" BY <1>1, Zenon DEF Idle
<1>7. \A q \in Ports : Waiting(q)' = << >> BY <1>6, Zenon DEF Waiting
<1> HIDE DEF f, p
<1>8. ASSUME NEW q \in Ports PROVE (out'[q] \o txfifo'[q]) \o Waiting(q)' = frames'[q]
  <2>0. out[q] \in Seq(Words) /\ txfifo[q] \in Seq(Words) BY Zenon DEF SenderInv
  <2>1. (out[q] \o txfifo[q]) \o Waiting(q) = frames[q] BY Zenon DEF SenderInv, SentFramesWhole
  <2>2. CASE q = p
    <3>1. out[q] \o << >> = out[q] BY <2>0, ConcatEmptySeq, Zenon
    <3>2. out[q] \o f = frames[q] BY <1>1, <1>5, <2>1, <2>2, <3>1, Zenon
    <3>3. txfifo'[q] = f BY <1>2, <1>3, <2>2, Zenon DEF SenderInv
    <3>4. (out[q] \o f) \o << >> = out[q] \o f
      BY <1>3, <2>0, ConcatProperties, ConcatEmptySeq, Zenon
    <3> QED BY <1>1, <1>7, <3>2, <3>3, <3>4, Zenon
  <2>3. CASE q # p
    <3>1. txfifo'[q] = txfifo[q] BY <1>3, <2>3, Zenon DEF SenderInv
    <3> QED BY <1>1, <1>5, <1>7, <2>1, <2>3, <3>1, Zenon
  <2> QED BY <2>2, <2>3, Zenon
<1>9. SentFramesWhole' BY <1>8, Zenon DEF SentFramesWhole
<1> QED BY <1>1, <1>4, <1>6, <1>9, Zenon DEF SenderInv

\* A word that leaves a transmitter was the next of its fifo.
LEMMA TransmitWhole ==
  ASSUME SenderInv, NEW p \in Ports, Transmit(p)
  PROVE  SenderInv'
<1>1. /\ txfifo[p] # << >> /\ server' = server /\ frames' = frames
      /\ out' = [out EXCEPT ![p] = Append(out[p], Head(txfifo[p]))]
      /\ txfifo' = [txfifo EXCEPT ![p] = Tail(txfifo[p])]
  BY Zenon DEF Transmit, clients
<1>2. out[p] \in Seq(Words) /\ txfifo[p] \in Seq(Words) BY Zenon DEF SenderInv
<1>3. Head(txfifo[p]) \in Words /\ Tail(txfifo[p]) \in Seq(Words)
  BY <1>1, <1>2, HeadTailProperties, Zenon
<1>4. Append(out[p], Head(txfifo[p])) \in Seq(Words) BY <1>2, <1>3, AppendProperties, Zenon
<1>5. out' \in [Ports -> Seq(Words)] /\ txfifo' \in [Ports -> Seq(Words)]
  BY <1>1, <1>3, <1>4, Zenon DEF SenderInv
<1>0. Append(out[p], Head(txfifo[p])) \o Tail(txfifo[p]) = out[p] \o txfifo[p]
  BY <1>1, <1>2, MoveWord, Zenon
<1>6. ASSUME NEW q \in Ports PROVE out'[q] \o txfifo'[q] = out[q] \o txfifo[q]
  <2>1. CASE q = p
    <3>1. out'[p] = Append(out[p], Head(txfifo[p])) /\ txfifo'[p] = Tail(txfifo[p])
      BY <1>1, Zenon DEF SenderInv
    <3> QED BY <1>0, <2>1, <3>1, Zenon
  <2>2. CASE q # p BY <1>1, <2>2, Zenon DEF SenderInv
  <2> QED BY <2>1, <2>2, Zenon
<1>7. \A q \in Ports : Waiting(q)' = Waiting(q) BY <1>1, Zenon DEF Waiting, FrameWords
<1>8. SentFramesWhole' BY <1>1, <1>6, <1>7, Zenon DEF SenderInv, SentFramesWhole
<1> QED BY <1>1, <1>5, <1>8, Zenon DEF SenderInv

\* Every step keeps what was sent together.
LEMMA NextSender == SenderInv /\ [Next]_vars => SenderInv'
<1> SUFFICES ASSUME SenderInv, [Next]_vars PROVE SenderInv'
  BY Zenon
<1>1. "pc" \in DOMAIN server BY Zenon DEF SenderInv
<1>2. ASSUME NEW p \in Ports, WireBreak(p) \/ WireOctet(p) PROVE SenderInv'
  BY <1>1, <1>2, SendersApart, Zenon DEF WireBreak, WireOctet, Hear, clients
<1>3. ASSUME NEW p \in Ports, Transmit(p) PROVE SenderInv' BY <1>3, TransmitWhole, Zenon
<1>4. ASSUME NEW f \in TxFrames, dmxllgip_sendFrame(f[1], f[2]) PROVE SenderInv'
  BY <1>4, SendFrameWhole, PayloadAssumption, Zenon
<1>5. ASSUME NEW f \in TxFrames, pwmdmx_sendFrame(f[2]) PROVE SenderInv'
  BY <1>1, <1>5, SendersApart, Zenon DEF pwmdmx_sendFrame, core
<1>6. CASE handle_llgdmx_interrupt
  <2>1. /\ server.pc = "idle" /\ UNCHANGED << txfifo, out, frames >>
        /\ server' = [pc |-> "rx", port |-> 0, size |-> 0,
                      irqstat |-> {p \in Ports : rxfifo[p] # << >>}]
    BY <1>6, Zenon DEF handle_llgdmx_interrupt, clients
  <2> QED BY <2>1, SendersApart, Zenon
<1>7. CASE llgdmx_check_rx_port
  <2>1. /\ server.pc = "rx" /\ UNCHANGED << txfifo, out, frames >>
        /\ server' = server \/ server' = [server EXCEPT !.port = server.port + 1]
    BY <1>7, Zenon DEF llgdmx_check_rx_port, clients
  <2>2. "pc" \in DOMAIN server' /\ server'.pc = "rx" BY <1>1, <2>1, Zenon
  <2> QED BY <2>1, <2>2, SendersApart, Zenon
<1>8. CASE EnableInterrupt
  BY <1>8, SendersApart, Zenon DEF EnableInterrupt, Idle, clients
<1>9. CASE dmxllgip_ll_sendFrame BY <1>9, WriteFrameWhole, Zenon
<1>10. CASE uartdmx_sendFrame
  <2>1. server.pc = "idle" /\ UNCHANGED << txfifo, out, frames >>
    BY <1>10, Zenon DEF uartdmx_sendFrame, core
  <2>2. PICK pc \in {"rts", "break"} :
          server' = [pc |-> pc, port |-> 0, size |-> 0, polls |-> 0]
    BY <1>10, Zenon DEF uartdmx_sendFrame
  <2> QED BY <2>1, <2>2, SendersApart, Zenon
<1>11. CASE uartdmx_send_break \/ Poll
  <2>1. /\ server.pc # "txwait" /\ UNCHANGED << txfifo, out, frames >>
        /\ \/ server' = [server EXCEPT !.pc = "poll"]
           \/ server' = [server EXCEPT !.pc = "rts"]
           \/ server' = [server EXCEPT !.polls = server.polls + 1]
    BY <1>11, Zenon DEF uartdmx_send_break, Poll, core, clients
  <2>2. "pc" \in DOMAIN server' /\ server'.pc # "txwait" BY <1>1, <2>1, Zenon
  <2> QED BY <2>1, <2>2, SendersApart, Zenon
<1>12. CASE OctetLeaves
  BY <1>1, <1>12, SendersApart, Zenon DEF OctetLeaves, core, clients
<1>13. CASE ReleaseLine
  BY <1>13, SendersApart, Zenon DEF ReleaseLine, Idle, core, clients
<1>14. CASE UNCHANGED vars
  BY <1>1, <1>14, SendersApart, Zenon DEF vars, core, clients
<1> QED BY <1>2, <1>3, <1>4, <1>5, <1>6, <1>7, <1>8, <1>9, <1>10, <1>11, <1>12, <1>13, <1>14, Zenon
        DEF Next

\* What left a transmitter of the llgip core and what is on its way are the
\* frames dmxllgip_sendFrame was given, whole and in order: the fifo is empty
\* when the server writes a frame and holds the longest one.
THEOREM FramesLeaveWhole == Spec => []SentFramesWhole
<1>1. Init => SenderInv
  <2> SUFFICES ASSUME Init PROVE SenderInv BY Zenon
  <2>1. /\ server = Idle /\ txfifo = [p \in Ports |-> << >>]
        /\ out = [p \in Ports |-> << >>] /\ frames = [p \in Ports |-> << >>]
    BY Zenon DEF Init
  <2>2. "pc" \in DOMAIN server /\ server.pc = "idle" BY <2>1, Zenon DEF Idle
  <2>3. << >> \in Seq(Words) OBVIOUS
  <2>4. \A p \in Ports : Waiting(p) = << >> BY <2>2, Zenon DEF Waiting
  <2>5. << >> \o << >> = << >> BY <2>3, ConcatEmptySeq, Zenon
  <2>6. SentFramesWhole BY <2>1, <2>4, <2>5, Zenon DEF SentFramesWhole
  <2> QED BY <2>1, <2>2, <2>3, <2>6, Zenon DEF SenderInv
<1>2. SenderInv /\ [Next]_vars => SenderInv' BY NextSender, Zenon
<1>3. SenderInv => SentFramesWhole BY Zenon DEF SenderInv
<1> QED BY <1>1, <1>2, <1>3, PTL DEF Spec

\* If a break octet is out in fewer polls than the time-out of
\* uartdmx_waitUntilTransmitterEmpty allows, the rate and the line driver do
\* not change under it.
THEOREM BreakLeavesWhole == ASSUME BreakFits PROVE Spec => []BreakAtBreakRate
<1>1. Init => BreakInv
  <2> SUFFICES ASSUME Init PROVE BreakInv BY Zenon
  <2>1. /\ server = Idle /\ line = [rts |-> FALSE, baud |-> "dmx", octet |-> "none"]
    BY Zenon DEF Init
  <2> QED BY <2>1, Zenon DEF BreakInv, Idle
<1>2. BreakInv /\ [Next]_vars => BreakInv' BY NextBreak, Zenon
<1>3. BreakInv => BreakAtBreakRate BY Zenon DEF BreakInv, BreakAtBreakRate
<1> QED BY <1>1, <1>2, <1>3, PTL DEF Spec

\* Both together: what the drivers put on the line.
THEOREM SendersAgree == ASSUME BreakFits PROVE Spec => []SendersConsistent
<1>1. Spec => []BreakAtBreakRate BY BreakLeavesWhole, Zenon
<1>2. SentFramesWhole /\ BreakAtBreakRate => SendersConsistent BY Zenon DEF SendersConsistent
<1> QED BY <1>1, <1>2, FramesLeaveWhole, PTL

=============================================================================
