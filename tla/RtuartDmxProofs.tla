-------------------------- MODULE RtuartDmxProofs --------------------------
(***************************************************************************)
(* The DMX512/RDM port on a uart, for any sizes of frames and fifos, any   *)
(* number of entries and of waiting timer threads, and any traffic.        *)
(*                                                                         *)
(* What the timer thread may do to the port is the hard part: while it     *)
(* runs between two steps of the main thread, only the timers, the states  *)
(* of a reception, the counts of the lock and the states of a transmission *)
(* can be relied on (Awaiting, ReceptionHasState, Counting, Ready).  When  *)
(* it does not, Alone holds as well, and with it every entry has one owner *)
(* and every octet is sent at its baud rate.                               *)
(***************************************************************************)
EXTENDS RtuartDmx, SequenceTheorems, WellFoundedInduction, TLAPS

FrameType == [frame : EntriesOrNone, what : Answers \union {"data", "reply"}, size : Nat]

\* The octets announced to dmx512rtuart_receiver_data_available are in the fifo.
Types ==
  /\ TypeOK
  /\ reading # NULL => reading <= Len(rxfifo)

\* The frames that wait for the main loop, and that they are different ones.
Listed == {received[i].frame : i \in DOMAIN received}
AllDifferent ==
  \A i, j \in DOMAIN received : received[i].frame = received[j].frame => i = j

\* The entries in use, given the frames that are sent, received and listed.
Owned(u, t, r, listed) ==
  /\ u = ({t, r} \union listed) \ {NULL}
  /\ t = r => t = NULL
  /\ {t, r} \intersect listed = {}

\* A wait for a reply has a timer, or a timer thread that will still find the
\* request.
Awaiting ==
  tx.frame # NULL /\ state \in ReplyStates =>
    \/ timer
    \/ due > 0
    \/ timeout # NULL /\ (~timeout.taken \/ timeout.frame # NULL)

\* The lock counts the last frames of its size.
Counting ==
  /\ lock.locked <=> lock.frames = RequiredCount
  /\ Len(sizes) <= RequiredCount /\ lock.frames <= Len(sizes)
  /\ \A k \in 0 .. lock.frames - 1 : sizes[Len(sizes) - k] = lock.slots

\* The uart asks for octets only while a frame is sent.
Ready == "TXREADY" \in notify => state \in {"TRANSMIT_BREAK", "TRANSMIT_DATA"}

\* While threads do not interleave: the timer thread is done before the main
\* thread goes on, the receiver has its frame, and what is sent goes out in
\* order.
Alone ==
  /\ timeout # NULL =>
       /\ state \in ReplyStates /\ reading = NULL /\ tx.frame # NULL /\ rx.frame = NULL
       /\ timeout.taken => timeout.frame = tx.frame
  /\ reading # NULL => rx.frame # NULL
  /\ state \in TxStates => tx.frame # NULL
  /\ "TXREADY" \in notify => state = "TRANSMIT_DATA"
  /\ baud = "break" => state = "TRANSMIT_BREAK"
  /\ Owned(used, tx.frame, rx.frame, Listed) /\ AllDifferent

Inv ==
  /\ Types
  /\ Awaiting
  /\ ReceptionHasState
  /\ Counting
  /\ Ready
  /\ ~Race => Alone

-----------------------------------------------------------------------------
(* Operators.                                                              *)

\* The sizes that the port is built with.
LEMMA Sizes ==
  /\ DmxSlots \in Nat /\ RdmSlots \in Nat /\ PosPdl \in Nat /\ DiscOctets \in Nat
  /\ RequiredCount \in Nat \ {0} /\ FifoSize \in Nat \ {0}
  /\ TxOctets \in Nat \ {0} /\ TxChunk \in Nat \ {0}
  /\ Trigger \in Nat /\ 3 <= Trigger /\ Trigger <= FifoSize
  BY PortAssumption

\* No entry is the null pointer.
LEMMA NoNullEntry == NULL \notin Entries
  BY PortAssumption, Zenon

\* A set of naturals has its least element as Min: the preamble of a discovery
\* reply (dmx512rtuart_find_preamble) has a length.
LEMMA MinNat ==
  ASSUME NEW S \in SUBSET Nat, S # {}
  PROVE  Min(S) \in S
<1>1. IsWellFoundedOn(OpToRel(<, Nat), Nat)
  BY NatLessThanWellFounded, Zenon
<1>2. \E x \in S : \A y \in S : ~(<< y, x >> \in OpToRel(<, Nat))
  BY <1>1, WFMin, Zenon
<1>3. \E x \in S : \A y \in S : ~(<< y, x >> \in {ss \in Nat \X Nat : ss[1] < ss[2]})
  BY <1>2, Zenon DEF OpToRel
<1>4. PICK x \in S : \A y \in S : ~(<< y, x >> \in {ss \in Nat \X Nat : ss[1] < ss[2]})
  BY <1>3, Zenon
<1>5. ASSUME NEW y \in S
      PROVE  x =< y
  <2>1. x \in Nat /\ y \in Nat
    BY Zenon
  <2>2. ~(y < x)
    <3>1. << y, x >> \in Nat \X Nat /\ << y, x >>[1] = y /\ << y, x >>[2] = x
      BY <2>1, Zenon
    <3> QED BY <1>4, <3>1, Zenon
  <2> QED BY <2>1, <2>2
<1> QED
  BY <1>5, Zenon DEF Min

\* The larger of zero and a number: where the window of sizes begins.
LEMMA MaxZero ==
  ASSUME NEW n \in Int
  PROVE  Max({0, n}) = IF n > 0 THEN n ELSE 0
<1>1. \E x \in {0, n} : \A y \in {0, n} : x >= y
  OBVIOUS
<1>2. /\ Max({0, n}) \in {0, n}
      /\ \A y \in {0, n} : Max({0, n}) >= y
  BY <1>1, Zenon DEF Max
<1> QED
  BY <1>2

\* dmx512rtuart_transmitter_has_space writes no more than what remains.
LEMMA MinOfTwo ==
  ASSUME NEW a \in Nat, NEW b \in Nat
  PROVE  Min({a, b}) \in Nat /\ Min({a, b}) <= a
<1>1. Min({a, b}) \in {a, b}
  BY MinNat, Zenon
<1>2. \E x \in {a, b} : \A y \in {a, b} : x =< y
  OBVIOUS
<1>3. \A y \in {a, b} : Min({a, b}) =< y
  BY <1>2, Zenon DEF Min
<1> QED
  BY <1>1, <1>3, Zenon

\* The octets before the first that is not FE are some of the octets.
LEMMA PreambleInside ==
  ASSUME NEW octets \in Seq(Octets)
  PROVE  PreambleLength(octets) \in 0 .. Len(octets)
<1> DEFINE S == {i \in 0 .. Len(octets) : i < Len(octets) => octets[i + 1] # FE}
<1>1. Len(octets) \in Nat
  OBVIOUS
<1>2. S \in SUBSET Nat
  BY <1>1
<1>3. Len(octets) \in S
  BY <1>1
<1>4. Min(S) \in S
  <2> HIDE DEF S
  <2> QED BY <1>2, <1>3, MinNat, Zenon
<1>5. PreambleLength(octets) = Min(S)
  BY Zenon DEF PreambleLength
<1> QED
  BY <1>4, <1>5, Zenon

\* A break that is read as an octet reads as zero (rtuart_read_chars).
LEMMA CharsAreOctets ==
  ASSUME NEW n \in Nat, rxfifo \in LineType, n <= Len(rxfifo)
  PROVE  Chars(n) \in Seq(Octets) /\ Len(Chars(n)) = n
<1>1. ASSUME NEW i \in 1 .. n
      PROVE  (IF rxfifo[i] = Break THEN 0 ELSE rxfifo[i]) \in Octets
  <2>1. rxfifo[i] \in Octets \union {Break}
    <3>1. i \in 1 .. Len(rxfifo)
      BY DEF LineType
    <3> QED BY <3>1 DEF LineType
  <2> QED BY <2>1 DEF Octets
<1>2. Chars(n) \in [1 .. n -> Octets]
  BY <1>1, Zenon DEF Chars
<1> QED
  BY <1>2, IsASeq, LenProperties

\* What is left in the fifo after some octets have been read.
LEMMA DropTyped ==
  ASSUME NEW n \in Nat, rxfifo \in LineType, n <= Len(rxfifo)
  PROVE  Drop(n) \in LineType /\ Len(Drop(n)) <= Len(rxfifo)
  BY DEF Drop, LineType

\* The size that the length octet of an RDM frame announces.
LEMMA LengthOctet == \A x \in 0 .. 255 : x + 2 - 1 \in Nat
  OBVIOUS

\* dmx512_check_received_data changes what is known of the frame, not the frame.
LEMMA CheckKeepsFrame ==
  ASSUME NEW r \in RxType, NEW buf \in Seq(Octets), NEW start \in Nat,
         lock \in LockType
  PROVE  /\ CheckReceived(r, buf, start) \in RxType
         /\ CheckReceived(r, buf, start).frame = r.frame
         /\ CheckReceived(r, buf, start).buf = buf
<1>1. \A i \in Nat : Octet(buf, i) \in Octets
  <2> SUFFICES ASSUME NEW i \in Nat PROVE Octet(buf, i) \in Octets
    BY Zenon
  <2>1. CASE i < Len(buf)
    <3>1. i + 1 \in 1 .. Len(buf)
      BY <2>1
    <3> QED BY <2>1, <3>1 DEF Octet
  <2>2. CASE ~(i < Len(buf))
    BY <2>2 DEF Octet, Fill, Octets
  <2> QED BY <2>1, <2>2, Zenon
<1> DEFINE rdm == IF r.disc THEN r.rdm ELSE IsRdm(r, buf, start)
           disc == r.disc \/ /\ IsRdm(r, buf, start)
                             /\ IsBetween(PosPdl, start, buf)
                             /\ Octet(buf, PosPdl) = 12
           expected ==
             CASE LengthKnown(r, buf, start) -> Octet(buf, 2) + 2 - 1
               [] ~r.disc /\ ~r.rdm /\ start = 0 /\ Octet(buf, 0) = 0 ->
                    IF lock.locked THEN lock.slots ELSE DmxSlots
               [] OTHER -> r.expected
<1>2. rdm \in BOOLEAN
  <2>1. r.rdm \in BOOLEAN
    BY Zenon DEF RxType
  <2>2. IsRdm(r, buf, start) \in BOOLEAN
    BY Zenon DEF IsRdm
  <2> QED BY <2>1, <2>2, Zenon
<1>3. disc \in BOOLEAN
  <2>1. r.disc \in BOOLEAN
    BY Zenon DEF RxType
  <2> QED BY <2>1, Zenon
<1>4. expected \in Nat
  <2>1. Octet(buf, 2) + 2 - 1 \in Nat
    <3>1. Octet(buf, 2) \in 0 .. 255
      BY <1>1, Zenon DEF Octets
    <3> QED BY <3>1, LengthOctet, Zenon
  <2>2. lock.slots \in Nat /\ DmxSlots \in Nat /\ r.expected \in Nat
    BY Sizes, Zenon DEF LockType, RxType
  <2> QED BY <2>1, <2>2, Zenon
<1>5. CheckReceived(r, buf, start) =
        [r EXCEPT !.buf = buf, !.rdm = rdm, !.disc = disc, !.expected = expected]
  BY Zenon DEF CheckReceived
<1> HIDE DEF rdm, disc, expected
<1> DEFINE g1 == [r EXCEPT !.buf = buf]
           g2 == [g1 EXCEPT !.rdm = rdm]
           g3 == [g2 EXCEPT !.disc = disc]
           g4 == [g3 EXCEPT !.expected = expected]
<1>6. g1 \in RxType /\ g1.frame = r.frame /\ g1.buf = buf
  BY Zenon DEF RxType
<1>7. g2 \in RxType /\ g2.frame = r.frame /\ g2.buf = buf
  <2> HIDE DEF g1
  <2> QED BY <1>2, <1>6, Zenon DEF RxType
<1>8. g3 \in RxType /\ g3.frame = r.frame /\ g3.buf = buf
  <2> HIDE DEF g2
  <2> QED BY <1>3, <1>7, Zenon DEF RxType
<1>9. g4 \in RxType /\ g4.frame = r.frame /\ g4.buf = buf
  <2> HIDE DEF g3
  <2> QED BY <1>4, <1>8, Zenon DEF RxType
<1>10. CheckReceived(r, buf, start) = g4
  BY <1>5
<1> QED
  BY <1>9, <1>10, Zenon

-----------------------------------------------------------------------------
(* The lock on the slot count.                                             *)

\* The remainder in 16 bits.
LEMMA Bits16 == \A n \in Nat : (n - 1) % 65536 \in Nat
  OBVIOUS

\* The payload size of a frame is a number of 16 bits.
LEMMA PayloadNat ==
  ASSUME NEW r \in RxType
  PROVE  PayloadSize(r) \in Nat
<1> DEFINE n == Len(r.buf)
<1>1. n \in Nat
  BY DEF RxType
<1> HIDE DEF n
<1>2. (n - 1) % 65536 \in Nat
  BY <1>1, Bits16
<1>3. PayloadSize(r) = (n - 1) % 65536
  BY DEF PayloadSize, n
<1> QED
  BY <1>2, <1>3

\* The sizes that are remembered after one more.
Remember(s, n) ==
  SubSeq(Append(s, n), 1 + Max({0, Len(Append(s, n)) - RequiredCount}), Len(Append(s, n)))

\* While there are less than required_count of them, they are all remembered.
LEMMA WindowGrows ==
  ASSUME NEW s \in Seq(Nat), NEW n \in Nat, Len(s) < RequiredCount
  PROVE  Remember(s, n) = Append(s, n)
<1> DEFINE a == Append(s, n)
           d == Len(a) - RequiredCount
<1>1. a \in Seq(Nat) /\ Len(a) = Len(s) + 1
  BY AppendProperties, Zenon
<1> HIDE DEF a
<1>2. d \in Int /\ ~(d > 0)
  <2>1. Len(s) \in Nat
    OBVIOUS
  <2> QED BY <1>1, <2>1, Sizes
<1>3. Remember(s, n) = SubSeq(a, 1 + Max({0, d}), Len(a))
  BY Zenon DEF Remember, a
<1> HIDE DEF d
<1>4. 1 + Max({0, d}) = 1
  <2>1. Max({0, d}) = 0
    BY <1>2, MaxZero, Zenon
  <2> QED BY <2>1
<1>5. SubSeq(a, 1, Len(a)) = a
  BY <1>1, SubSeqFull, Zenon
<1>6. Remember(s, n) = a
  BY <1>3, <1>4, <1>5, Zenon
<1> QED
  BY <1>6, Zenon DEF a

\* From then on the oldest is forgotten.
LEMMA WindowMoves ==
  ASSUME NEW s \in Seq(Nat), NEW n \in Nat, Len(s) = RequiredCount
  PROVE  /\ Remember(s, n) \in Seq(Nat)
         /\ Len(Remember(s, n)) = RequiredCount
         /\ \A i \in 1 .. RequiredCount : Remember(s, n)[i] = Append(s, n)[i + 1]
<1> DEFINE a == Append(s, n)
           d == Len(a) - RequiredCount
<1>1. a \in Seq(Nat) /\ Len(a) = RequiredCount + 1
  BY AppendProperties, Zenon
<1> HIDE DEF a
<1>2. d \in Int /\ d = 1
  BY <1>1, Sizes
<1>3. Remember(s, n) = SubSeq(a, 1 + Max({0, d}), Len(a))
  BY Zenon DEF Remember, a
<1> HIDE DEF d
<1>4. 1 + Max({0, d}) = 2
  <2>1. Max({0, d}) = 1
    BY <1>2, MaxZero
  <2> QED BY <2>1
<1>5. Remember(s, n) = SubSeq(a, 2, RequiredCount + 1)
  BY <1>1, <1>3, <1>4, Zenon
<1>6. \A i \in 2 .. RequiredCount + 1 : a[i] \in Nat
  <2>1. \A i \in 1 .. Len(a) : a[i] \in Nat
    BY <1>1, ElementOfSeq, Zenon
  <2>2. \A i \in 2 .. RequiredCount + 1 : i \in 1 .. Len(a)
    BY <1>1, Sizes
  <2> QED BY <2>1, <2>2, Zenon
<1>7. /\ SubSeq(a, 2, RequiredCount + 1) \in Seq(Nat)
      /\ Len(SubSeq(a, 2, RequiredCount + 1)) = RequiredCount
      /\ \A i \in 1 .. RequiredCount : SubSeq(a, 2, RequiredCount + 1)[i] = a[i + 1]
  BY <1>1, <1>6, Sizes
<1> QED
  BY <1>5, <1>7, Zenon DEF a

\* The remembered sizes, counted from the newest.
LEMMA Window ==
  ASSUME NEW s \in Seq(Nat), NEW n \in Nat, Len(s) <= RequiredCount, NEW w,
         w = Remember(s, n)
  PROVE  /\ w \in Seq(Nat)
         /\ Len(w) = IF Len(s) < RequiredCount THEN Len(s) + 1 ELSE RequiredCount
         /\ w[Len(w)] = n
         /\ \A k \in 1 .. Len(w) - 1 : w[Len(w) - k] = s[Len(s) - (k - 1)]
<1> DEFINE a == Append(s, n)
           l == Len(s)
<1>1. /\ a \in Seq(Nat) /\ Len(a) = l + 1 /\ a[l + 1] = n
      /\ \A i \in 1 .. l : a[i] = s[i]
  BY AppendProperties
<1>2. l \in Nat /\ l <= RequiredCount /\ RequiredCount \in Nat
  BY Sizes
<1>3. l < RequiredCount => w = a
  BY WindowGrows, Zenon
<1>4. l = RequiredCount =>
        w \in Seq(Nat) /\ Len(w) = l /\ \A i \in 1 .. l : w[i] = a[i + 1]
  BY WindowMoves, Zenon
<1> HIDE DEF a
<1> SUFFICES /\ w \in Seq(Nat)
             /\ Len(w) = IF l < RequiredCount THEN l + 1 ELSE RequiredCount
             /\ w[Len(w)] = n
             /\ \A k \in 1 .. Len(w) - 1 : w[Len(w) - k] = s[l - (k - 1)]
  BY Zenon
<1> HIDE DEF l
<1>5. CASE l < RequiredCount
  <2>1. w \in Seq(Nat) /\ Len(w) = l + 1 /\ w[Len(w)] = n
    BY <1>1, <1>3, <1>5, Zenon
  <2>2. ASSUME NEW k \in 1 .. Len(w) - 1
        PROVE  w[Len(w) - k] = s[l - (k - 1)]
    <3>1. (l + 1) - k \in 1 .. l /\ l - (k - 1) = (l + 1) - k
      BY <2>1, <1>2
    <3>2. w[(l + 1) - k] = s[(l + 1) - k]
      BY <3>1, <1>1, <1>3, <1>5, Zenon
    <3>3. w[Len(w) - k] = w[(l + 1) - k]
      <4>1. Len(w) = l + 1
        BY <2>1, Zenon
      <4> QED BY <4>1, Zenon
    <3> QED BY <3>1, <3>2, <3>3, Zenon
  <2> QED BY <2>1, <2>2, <1>5, Zenon
<1>6. CASE l = RequiredCount
  <2>1. /\ w \in Seq(Nat) /\ Len(w) = l
        /\ \A i \in 1 .. l : w[i] = a[i + 1]
    BY <1>4, <1>6, Zenon
  <2>2. w[Len(w)] = n
    <3>1. l \in 1 .. l
      BY <1>2, <1>6, Sizes
    <3>2. w[l] = a[l + 1]
      BY <2>1, <3>1, Zenon
    <3> QED BY <2>1, <3>2, <1>1, Zenon
  <2>3. ASSUME NEW k \in 1 .. Len(w) - 1
        PROVE  w[Len(w) - k] = s[l - (k - 1)]
    <3>1. l - k \in 1 .. l /\ (l - k) + 1 \in 1 .. l /\ l - (k - 1) = (l - k) + 1
      BY <2>1, <1>2
    <3>2. w[l - k] = a[(l - k) + 1]
      BY <3>1, <2>1, Zenon
    <3>3. a[(l - k) + 1] = s[(l - k) + 1]
      BY <3>1, <1>1, Zenon
    <3> QED BY <3>1, <3>2, <3>3, <2>1, Zenon
  <2>4. Len(w) = IF l < RequiredCount THEN l + 1 ELSE RequiredCount
    BY <2>1, <1>2, <1>6
  <2> QED BY <2>1, <2>2, <2>3, <2>4, Zenon
<1> QED
  BY <1>2, <1>5, <1>6

\* A frame that is not the newest was counted before.
LEMMA Earlier ==
  ASSUME NEW f \in Nat, NEW m \in Nat, f + 1 <= m, NEW k \in 0 .. (f + 1) - 1, k # 0
  PROVE  k \in 1 .. m - 1 /\ k - 1 \in 0 .. f - 1
  OBVIOUS

\* dmx512rtuart_checkout_rx_frame counts a frame of the size it is waiting for,
\* locks at the required count and starts again at any other size.
LEMMA CheckoutCounts ==
  ASSUME lock \in LockType, sizes \in Seq(Nat), Counting,
         NEW r \in RxType, Checkout(r)
  PROVE  lock' \in LockType /\ sizes' \in Seq(Nat) /\ Counting'
<1>1. CASE ~(r.frame # NULL /\ Startcode(r) = 0)
  <2>1. lock' = lock /\ sizes' = sizes
    BY <1>1, Zenon DEF Checkout
  <2> QED BY <2>1, Zenon DEF Counting
<1>2. CASE r.frame # NULL /\ Startcode(r) = 0
  <2> DEFINE n == PayloadSize(r)
  <2>1. n \in Nat
    BY PayloadNat, Zenon
  <2>2. lock' = Relock(n)
    BY <1>2, Zenon DEF Checkout
  <2>3. sizes' = Remember(sizes, n)
    BY <1>2, Zenon DEF Checkout, Remember
  <2> HIDE DEF n
  <2>4. RequiredCount \in Nat \ {0} /\ Len(sizes) \in Nat
    BY Sizes
  <2>5. lock.locked \in BOOLEAN /\ lock.frames \in 0 .. RequiredCount /\ lock.slots \in Nat
    BY Zenon DEF LockType
  <2>6. /\ lock.locked <=> lock.frames = RequiredCount
        /\ Len(sizes) <= RequiredCount /\ lock.frames <= Len(sizes)
        /\ \A k \in 0 .. lock.frames - 1 : sizes[Len(sizes) - k] = lock.slots
    BY Zenon DEF Counting
  <2>7. /\ sizes' \in Seq(Nat)
        /\ Len(sizes') = IF Len(sizes) < RequiredCount THEN Len(sizes) + 1 ELSE RequiredCount
        /\ sizes'[Len(sizes')] = n
        /\ \A k \in 1 .. Len(sizes') - 1 : sizes'[Len(sizes') - k] = sizes[Len(sizes) - (k - 1)]
    <3>1. Len(sizes) <= RequiredCount BY <2>6, Zenon
    <3>2. \A w : w = Remember(sizes, n) =>
            /\ w \in Seq(Nat)
            /\ Len(w) = IF Len(sizes) < RequiredCount THEN Len(sizes) + 1 ELSE RequiredCount
            /\ w[Len(w)] = n
            /\ \A k \in 1 .. Len(w) - 1 : w[Len(w) - k] = sizes[Len(sizes) - (k - 1)]
      BY <2>1, <3>1, Window, Zenon
    <3> QED BY <2>3, <3>2, Zenon
  <2>8. CASE n # lock.slots
    <3>1. lock' = [locked |-> FALSE, frames |-> 0, slots |-> n]
      BY <2>2, <2>8, Zenon DEF Relock
    <3>2. lock' \in LockType
      BY <3>1, <2>1, <2>4 DEF LockType
    <3>3. lock'.locked = FALSE /\ lock'.frames = 0
      BY <3>1, Zenon
    <3>4. 0 .. 0 - 1 = {}
      OBVIOUS
    <3> QED BY <3>2, <3>3, <3>4, <2>4, <2>6, <2>7 DEF Counting
  <2>9. CASE n = lock.slots /\ lock.locked
    <3>1. lock' = lock
      BY <2>2, <2>9, Zenon DEF Relock
    <3>2. Len(sizes) = RequiredCount /\ Len(sizes') = RequiredCount
      BY <2>4, <2>6, <2>7, <2>9
    <3>3. ASSUME NEW k \in 0 .. lock.frames - 1
          PROVE  sizes'[Len(sizes') - k] = lock.slots
      <4>1. CASE k = 0
        BY <4>1, <2>7, <2>9, <3>2, <2>4
      <4>2. CASE k # 0
        <5>1. k \in 1 .. Len(sizes') - 1 /\ k - 1 \in 0 .. lock.frames - 1
          BY <4>2, <3>2, <2>4, <2>5
        <5> QED BY <5>1, <2>6, <2>7, Zenon
      <4> QED BY <4>1, <4>2, Zenon
    <3> QED BY <3>1, <3>2, <3>3, <2>4, <2>5, <2>6, <2>7, Zenon DEF Counting
  <2>10. CASE n = lock.slots /\ ~lock.locked
    <3>1. lock' = [locked |-> lock.frames + 1 = RequiredCount,
                   frames |-> lock.frames + 1, slots |-> n]
      BY <2>2, <2>10, Zenon DEF Relock
    <3>2. lock.frames + 1 \in 0 .. RequiredCount
      BY <2>4, <2>5, <2>6, <2>10
    <3>3. lock' \in LockType
      BY <3>1, <3>2, <2>1, Zenon DEF LockType
    <3>4. /\ lock'.locked <=> lock'.frames = RequiredCount
          /\ lock'.frames = lock.frames + 1 /\ lock'.slots = n
      BY <3>1, Zenon
    <3>5. Len(sizes') <= RequiredCount /\ lock.frames + 1 <= Len(sizes')
      BY <2>4, <2>5, <2>6, <2>7, <3>2
    <3>6. ASSUME NEW k \in 0 .. (lock.frames + 1) - 1
          PROVE  sizes'[Len(sizes') - k] = n
      <4>1. CASE k = 0
        BY <4>1, <2>7, <2>4
      <4>2. CASE k # 0
        <5>1. k \in 1 .. Len(sizes') - 1 /\ k - 1 \in 0 .. lock.frames - 1
          <6>1. lock.frames \in Nat /\ Len(sizes') \in Nat
            BY <2>4, <2>5, <2>7
          <6> QED BY <6>1, <4>2, <3>5, Earlier, Zenon
        <5>2. sizes'[Len(sizes') - k] = sizes[Len(sizes) - (k - 1)]
          BY <5>1, <2>7, Zenon
        <5>3. sizes[Len(sizes) - (k - 1)] = lock.slots
          BY <5>1, <2>6, Zenon
        <5> QED BY <5>2, <5>3, <2>10, Zenon
      <4> QED BY <4>1, <4>2, Zenon
    <3>7. lock'.frames <= Len(sizes')
      BY <3>4, <3>5, Zenon
    <3>8. \A k \in 0 .. lock'.frames - 1 : sizes'[Len(sizes') - k] = lock'.slots
      <4>1. 0 .. lock'.frames - 1 = 0 .. (lock.frames + 1) - 1
        BY <3>4, Zenon
      <4>2. \A k \in 0 .. (lock.frames + 1) - 1 : sizes'[Len(sizes') - k] = n
        BY <3>6, Zenon
      <4>3. \A k \in 0 .. lock'.frames - 1 : sizes'[Len(sizes') - k] = n
        BY <4>1, <4>2, Zenon
      <4> QED BY <4>3, <3>4, Zenon
    <3> QED BY <3>3, <3>4, <3>5, <3>7, <3>8, <2>7, Zenon DEF Counting
  <2> QED BY <2>8, <2>9, <2>10, Zenon
<1> QED
  BY <1>1, <1>2, Zenon

-----------------------------------------------------------------------------
(* Frame entries and notifications.                                        *)

\* dmx512_received_frame adds a frame that is there to the list, once.
LEMMA ReceiveLists ==
  ASSUME received \in Seq(HandedType), NEW f \in FrameType, Receive(f)
  PROVE  /\ received' \in Seq(HandedType)
         /\ f.frame # NULL => Len(received') = Len(received) + 1
         /\ Listed' = Listed \union ({f.frame} \ {NULL})
         /\ AllDifferent /\ f.frame \notin Listed => AllDifferent'
<1>1. CASE f.frame = NULL
  <2>1. received' = received
    BY <1>1, Zenon DEF Receive
  <2> QED BY <1>1, <2>1, Zenon DEF Listed, AllDifferent
<1>2. CASE f.frame # NULL
  <2>1. received' = Append(received, f)
    BY <1>2, Zenon DEF Receive
  <2>2. f \in HandedType
    BY <1>2, Zenon DEF FrameType, HandedType, EntriesOrNone
  <2>3. /\ received' \in Seq(HandedType)
        /\ Len(received') = Len(received) + 1
        /\ received'[Len(received) + 1] = f
        /\ \A i \in 1 .. Len(received) : received'[i] = received[i]
    BY <2>1, <2>2, AppendProperties
  <2>4. /\ DOMAIN received = 1 .. Len(received) /\ Len(received) \in Nat
        /\ DOMAIN received' = 1 .. Len(received) + 1
    BY <2>3
  <2>5. \A i \in DOMAIN received' : i \in DOMAIN received \/ i = Len(received) + 1
    BY <2>4
  <2>6. /\ Len(received) + 1 \in DOMAIN received'
        /\ \A i \in DOMAIN received : i \in DOMAIN received'
    BY <2>4
  <2>7. \A i \in DOMAIN received : received'[i] = received[i]
    BY <2>3, <2>4, Zenon
  <2>8. Listed' = Listed \union {f.frame}
    BY <2>3, <2>5, <2>6, <2>7, Zenon DEF Listed
  <2>9. ASSUME AllDifferent, f.frame \notin Listed
        PROVE  AllDifferent'
    <3> SUFFICES ASSUME NEW i \in DOMAIN received', NEW j \in DOMAIN received',
                        received'[i].frame = received'[j].frame
                 PROVE  i = j
      BY Zenon DEF AllDifferent
    <3>1. \A k \in DOMAIN received : received[k].frame # f.frame
      BY <2>9, Zenon DEF Listed
    <3>2. CASE i \in DOMAIN received /\ j \in DOMAIN received
      BY <3>2, <2>7, <2>9, Zenon DEF AllDifferent
    <3>3. CASE i \notin DOMAIN received \/ j \notin DOMAIN received
      BY <3>1, <3>3, <2>3, <2>5, <2>7, Zenon
    <3> QED BY <3>2, <3>3, Zenon
  <2> QED BY <1>2, <2>3, <2>8, <2>9, Zenon
<1> QED
  BY <1>1, <1>2, Zenon

\* The list holds entries.
LEMMA ListedEntries ==
  ASSUME received \in Seq(HandedType)
  PROVE  Listed \subseteq Entries /\ NULL \notin Listed
<1>1. \A i \in DOMAIN received : received[i].frame \in Entries
  <2>1. \A i \in DOMAIN received : received[i] \in HandedType
    OBVIOUS
  <2> QED BY <2>1, Zenon DEF HandedType
<1> QED
  BY <1>1, NoNullEntry, Zenon DEF Listed

\* A new entry is sent while nothing else is, and what was received is handed over.
LEMMA OwnSend ==
  ASSUME NEW u, NEW r, NEW l, NEW e \in Entries, e \notin u, Owned(u, NULL, r, l)
  PROVE  Owned(u \union {e}, e, NULL, l \union ({r} \ {NULL}))
  BY NoNullEntry, Zenon DEF Owned

\* A new entry is received into while nothing else is.
LEMMA OwnNew ==
  ASSUME NEW u, NEW t, NEW l, NEW e \in Entries, e \notin u, Owned(u, t, NULL, l)
  PROVE  Owned(u \union {e}, t, e, l)
  BY NoNullEntry, Zenon DEF Owned

\* What was received is handed over.
LEMMA OwnHand ==
  ASSUME NEW u, NEW t, NEW r, NEW l, NULL \notin l, Owned(u, t, r, l)
  PROVE  Owned(u, t, NULL, l \union ({r} \ {NULL})) /\ NULL \notin l \union ({r} \ {NULL})
  BY Zenon DEF Owned

\* What was sent becomes the answer.
LEMMA OwnAnswer ==
  ASSUME NEW u, NEW t, NEW r, NEW l, NULL \notin l, Owned(u, t, r, l)
  PROVE  Owned(u, NULL, r, l \union ({t} \ {NULL})) /\ NULL \notin l \union ({t} \ {NULL})
  BY Zenon DEF Owned

\* What was sent is given back.
LEMMA OwnSent ==
  ASSUME NEW u, NEW t, NEW r, NEW l, NULL \notin l, Owned(u, t, r, l)
  PROVE  Owned(u \ {t}, NULL, r, l)
  BY Zenon DEF Owned

\* What was received is given back.
LEMMA OwnDropped ==
  ASSUME NEW u, NEW t, NEW r, NEW l, NULL \notin l, Owned(u, t, r, l)
  PROVE  Owned(u \ {r}, t, NULL, l)
  BY Zenon DEF Owned

\* The list is given back.
LEMMA OwnFetched ==
  ASSUME NEW u, NEW t, NEW r, NEW l, Owned(u, t, r, l)
  PROVE  Owned(u \ l, t, r, {})
  BY Zenon DEF Owned

\* Notifications that are enabled, and the interrupts they need.
LEMMA EnableTyped ==
  ASSUME ier \subseteq Notifications \ {"TXEMPTY"}, NEW mask, mask \subseteq Notifications,
         NEW what, what \subseteq Notifications, Enable(mask, what)
  PROVE  /\ notify' = mask \union what
         /\ notify' \subseteq Notifications
         /\ ier' \subseteq Notifications \ {"TXEMPTY"}
  BY Zenon DEF Enable, Ier

-----------------------------------------------------------------------------
(* The initial state, the hardware and the main loop.                      *)

\* dmx512_rtuart_start leaves the port idle and without frames.
LEMMA InitInv == ASSUME Init PROVE Inv
<1>1. scenario \in Scenario
  BY PortAssumption, Zenon DEF Init
<1>2. MaxDue \in Nat
  BY <1>1, Zenon DEF Scenario, MaxDue
<1>3. tx \in TxType
  BY Sizes DEF Init, NoTx, TxType, EntriesOrNone
<1>4. rx \in RxType
  BY DEF Init, Rx, RxType, EntriesOrNone, Octets
<1>5. lock \in LockType
  BY Sizes DEF Init, LockType
<1>6. Len(rxfifo) = 0 /\ 0 <= FifoSize
  BY Sizes DEF Init
<1>7. rxfifo \in LineType /\ incoming \in LineType
  BY DEF Init, LineType
<1>8. received \in Seq(HandedType) /\ sizes \in Seq(Nat)
  BY DEF Init
<1>9. notify \subseteq Notifications /\ ier \subseteq Notifications \ {"TXEMPTY"}
  BY Zenon DEF Init, Notifications
<1>10. due \in 0 .. MaxDue
  BY <1>2 DEF Init
<1>11. Types
  BY <1>3, <1>4, <1>5, <1>6, <1>7, <1>8, <1>9, <1>10, Zenon DEF Init, Types, TypeOK
<1>12. tx.frame = NULL /\ rx.frame = NULL
  BY Zenon DEF Init, NoTx, Rx
<1>13. Counting
  BY Sizes DEF Init, Counting
<1>14. Listed = {} /\ AllDifferent
  BY DEF Init, Listed, AllDifferent
<1>15. Owned(used, tx.frame, rx.frame, Listed)
  BY <1>12, <1>14, Zenon DEF Init, Owned
<1>16. Alone
  BY <1>12, <1>14, <1>15, Zenon DEF Init, Alone, TxStates
<1> QED
  BY <1>11, <1>12, <1>13, <1>16, Zenon DEF Inv, Awaiting, ReceptionHasState, Ready, Init

\* The setting does not change.
LEMMA SameSetting ==
  ASSUME scenario' = scenario
  PROVE  TxType' = TxType /\ MaxDue' = MaxDue /\ Race' = Race /\ Kinds' = Kinds
  BY Zenon DEF TxType, MaxDue, Race, Kinds

\* Only a frame that is checked out is counted.
LEMMA SameCounts ==
  ASSUME Inv, lock' = lock, sizes' = sizes
  PROVE  Counting'
  BY Zenon DEF Inv, Counting

\* A step of the uart that leaves the port alone.
LEMMA Quiet ==
  ASSUME Inv, Types', UNCHANGED << port, thread, notify, baud, frames, reading, sizes, scenario >>
  PROVE  Inv'
<1>1. /\ state' = state /\ tx' = tx /\ rx' = rx /\ lock' = lock /\ timer' = timer
      /\ due' = due /\ timeout' = timeout /\ notify' = notify /\ baud' = baud
      /\ used' = used /\ received' = received /\ reading' = reading /\ sizes' = sizes
      /\ scenario' = scenario
  BY Zenon DEF port, thread, frames
<1>2. Awaiting' /\ ReceptionHasState' /\ Counting' /\ Ready'
  <2>1. Counting'
    BY <1>1, SameCounts, Zenon
  <2>2. Awaiting' /\ ReceptionHasState' /\ Ready'
    BY <1>1, Zenon DEF Inv, Awaiting, ReceptionHasState, Ready
  <2> QED BY <2>1, <2>2, Zenon
<1>3. Listed' = Listed /\ AllDifferent' = AllDifferent
  BY <1>1, Zenon DEF Listed, AllDifferent
<1>4. Alone' = Alone
  BY <1>1, <1>3, Zenon DEF Alone
<1> QED
  BY <1>1, <1>2, <1>4, SameSetting, Zenon DEF Inv

\* What arrives on the line goes to the fifo, and an overrun loses it.
LEMMA HardwareInv == ASSUME Inv, Hardware PROVE Inv'
<1>0. TypeOK /\ (reading # NULL => reading <= Len(rxfifo))
  BY Zenon DEF Inv, Types
<1>1. CASE wire_starts
  <2>1. UNCHANGED << port, thread, uart, scenario, frames, reading, sizes, failed >>
    BY <1>1, Zenon DEF wire_starts
  <2>2. incoming' \in LineType
    <3>1. scenario \in Scenario
      BY <1>0, PortAssumption, Zenon DEF TypeOK
    <3>2. WireFrames \subseteq LineType
      BY <3>1, Zenon DEF Scenario, WireFrames, LineType, Octets
    <3> QED BY <1>1, <3>2, Zenon DEF wire_starts
  <2>3. Types'
    BY <1>0, <2>1, <2>2, SameSetting DEF Types, TypeOK, port, thread, uart, frames
  <2> QED BY <2>1, <2>3, Quiet, Zenon DEF uart
<1>2. CASE octet_arrives
  <2>1. UNCHANGED << port, thread, notify, ier, baud, txbusy, arrivals, scenario, frames,
                     reading, sizes, failed >>
    BY <1>2, Zenon DEF octet_arrives
  <2>2. incoming' \in LineType /\ Head(incoming) \in Octets \union {Break}
    BY <1>0, <1>2 DEF octet_arrives, TypeOK, LineType
  <2>3. rxfifo' \in LineType /\ Len(rxfifo') <= FifoSize /\ Len(rxfifo) <= Len(rxfifo')
    <3>1. rxfifo \in LineType /\ Len(rxfifo) <= FifoSize /\ Len(rxfifo) \in Nat
      BY <1>0 DEF TypeOK, LineType
    <3>2. CASE Len(rxfifo) < FifoSize
      <4>1. rxfifo' = Append(rxfifo, Head(incoming))
        BY <1>2, <3>2, Zenon DEF octet_arrives
      <4>2. rxfifo' \in LineType /\ Len(rxfifo') = Len(rxfifo) + 1
        BY <4>1, <2>2, <3>1, AppendProperties DEF LineType
      <4> QED BY <4>2, <3>1, <3>2, Sizes
    <3>3. CASE ~(Len(rxfifo) < FifoSize)
      <4>1. rxfifo' = rxfifo
        BY <1>2, <3>3, Zenon DEF octet_arrives
      <4> QED BY <4>1, <3>1
    <3> QED BY <3>2, <3>3, Zenon
  <2>4. reading # NULL => reading <= Len(rxfifo')
    <3> SUFFICES ASSUME reading # NULL PROVE reading <= Len(rxfifo')
      BY Zenon
    <3>1. reading \in Nat
      BY <1>0, Sizes DEF TypeOK
    <3>2. Len(rxfifo) \in Nat /\ Len(rxfifo') \in Nat
      BY <1>0, <2>3 DEF TypeOK, LineType
    <3> QED BY <1>0, <2>3, <3>1, <3>2
  <2>5. Types'
    BY <1>0, <2>1, <2>2, <2>3, <2>4, SameSetting DEF Types, TypeOK, port, thread, frames
  <2> QED BY <2>1, <2>5, Quiet, Zenon
<1>3. CASE transmitter_drains
  <2>1. UNCHANGED << port, thread, notify, ier, baud, rxfifo, wire, frames, reading, sizes,
                     failed >> /\ txbusy' = FALSE
    BY <1>3, Zenon DEF transmitter_drains
  <2>2. Types'
    BY <1>0, <2>1, SameSetting, Zenon DEF Types, TypeOK, port, thread, frames, wire
  <2> QED BY <2>1, <2>2, Quiet, Zenon DEF wire
<1> QED
  BY <1>1, <1>2, <1>3, Zenon DEF Hardware

\* The interrupt handler returns.
LEMMA DoneInv == ASSUME Inv, irq_done PROVE Inv'
<1>1. UNCHANGED << port, thread, notify, baud, txbusy, rxfifo, wire, frames, reading, sizes,
                   failed >> /\ ier' = Ier(notify)
  BY Zenon DEF irq_done
<1>2. ier' \subseteq Notifications \ {"TXEMPTY"}
  BY <1>1, Zenon DEF Ier, Inv, Types, TypeOK
<1>3. Types'
  BY <1>1, <1>2, SameSetting DEF Inv, Types, TypeOK, port, thread, frames, wire
<1> QED
  BY <1>1, <1>3, Quiet, Zenon DEF wire

\* The main loop takes the list of received frames and frees them.
LEMMA FetchInv == ASSUME Inv, fetch_received PROVE Inv'
<1>1. /\ UNCHANGED << port, thread, uart, wire, reading, sizes, failed >>
      /\ received' = << >> /\ used' = used \ Listed
  BY Zenon DEF fetch_received, Gone, Listed
<1>2. /\ state' = state /\ tx' = tx /\ rx' = rx /\ lock' = lock /\ timer' = timer
      /\ due' = due /\ timeout' = timeout /\ notify' = notify /\ baud' = baud
      /\ reading' = reading /\ sizes' = sizes /\ scenario' = scenario
  BY <1>1, Zenon DEF port, thread, uart, wire
<1>3. Types'
  <2>1. received' \in Seq(HandedType) /\ used' \subseteq Entries
    BY <1>1 DEF Inv, Types, TypeOK
  <2> QED BY <1>1, <2>1, SameSetting DEF Inv, Types, TypeOK, port, thread, uart, wire
<1>4. Awaiting' /\ ReceptionHasState' /\ Counting' /\ Ready'
  <2>1. Counting'
    BY <1>2, SameCounts, Zenon
  <2>2. Awaiting' /\ ReceptionHasState' /\ Ready'
    BY <1>2, Zenon DEF Inv, Awaiting, ReceptionHasState, Ready
  <2> QED BY <2>1, <2>2, Zenon
<1>5. Listed' = {} /\ AllDifferent'
  BY <1>1 DEF Listed, AllDifferent
<1>6. ASSUME Alone PROVE Alone'
  <2>1. Owned(used', tx'.frame, rx'.frame, Listed')
    BY <1>1, <1>2, <1>5, <1>6, OwnFetched, Zenon DEF Alone
  <2> QED BY <1>2, <1>5, <1>6, <2>1, Zenon DEF Alone
<1> QED
  BY <1>2, <1>3, <1>4, <1>6, SameSetting, Zenon DEF Inv

-----------------------------------------------------------------------------
(* The timer thread.                                                       *)

\* An answer of the timer thread is not the null pointer.
LEMMA AnswerIsThere ==
  ASSUME NEW t \in TimeoutType
  PROVE  t # NULL
<1>1. /\ t.what \in Answers /\ t.taken \in BOOLEAN /\ t.frame \in Entries \union {NULL}
      /\ t = [what |-> t.what, taken |-> t.taken, frame |-> t.frame]
  BY Zenon DEF TimeoutType, EntriesOrNone
<1> QED
  BY <1>1, NullAssumption, Zenon

\* A reception that is given up leaves a port without a frame.
LEMMA NoFrameTyped ==
  ASSUME NEW r \in RxType
  PROVE  NoFrame(r) \in RxType /\ NoFrame(r).frame = NULL
  BY DEF NoFrame, Rx, RxType, EntriesOrNone, Octets

LEMMA NoTxTyped == NoTx \in TxType /\ NoTx.frame = NULL
  BY Sizes DEF NoTx, TxType, EntriesOrNone

\* The timer expires and its thread is going to run.
LEMMA ExpiresInv == ASSUME Inv, timer_expires PROVE Inv'
<1>1. /\ UNCHANGED << state, tx, rx, lock, timeout, uart, wire, frames, reading, sizes, failed >>
      /\ timer' = FALSE /\ due' = due + 1 /\ due < MaxDue
  BY Zenon DEF timer_expires
<1>2. TypeOK /\ scenario' = scenario
  BY <1>1, Zenon DEF Inv, Types, wire
<1>3. due' \in 0 .. MaxDue /\ due' > 0
  <2>1. MaxDue \in Nat
    BY <1>2, PortAssumption, Zenon DEF TypeOK, MaxDue, Scenario
  <2> QED BY <1>1, <1>2, <2>1 DEF TypeOK
<1>4. Types'
  BY <1>1, <1>3, SameSetting, Zenon DEF Inv, Types, TypeOK, uart, wire, frames
<1>5. Awaiting' /\ ReceptionHasState' /\ Counting' /\ Ready'
  <2>1. Counting'
    BY <1>1, <1>3, SameCounts, Zenon
  <2>2. Awaiting' /\ ReceptionHasState' /\ Ready'
    BY <1>1, <1>3, Zenon DEF Inv, Awaiting, ReceptionHasState, Ready, uart
  <2> QED BY <2>1, <2>2, Zenon
<1>6. Alone' = Alone
  BY <1>1, Zenon DEF Alone, Listed, AllDifferent, uart, frames
<1> QED
  BY <1>2, <1>4, <1>5, <1>6, SameSetting, Zenon DEF Inv

\* dmx512rtuart_handle_rdm_timeout gives the reception up while a reply is
\* awaited, and does nothing otherwise.
LEMMA HandleInv == ASSUME Inv, handle_rdm_timeout PROVE Inv'
<1>0. TypeOK /\ (reading # NULL => reading <= Len(rxfifo))
  BY Zenon DEF Inv, Types
<1>1. /\ UNCHANGED << uart, wire, received, reading >>
      /\ due' = due - 1 /\ due > 0 /\ timeout = NULL /\ (Race \/ reading = NULL)
  BY Zenon DEF handle_rdm_timeout
<1>2. /\ scenario' = scenario /\ received' = received /\ reading' = reading
      /\ notify' = notify /\ baud' = baud /\ ier' = ier /\ txbusy' = txbusy
      /\ rxfifo' = rxfifo /\ incoming' = incoming
  BY <1>1, Zenon DEF uart, wire
<1>3. due' \in 0 .. MaxDue
  <2>1. MaxDue \in Nat
    BY <1>0, PortAssumption, Zenon DEF TypeOK, MaxDue, Scenario
  <2> QED BY <1>0, <1>1, <2>1 DEF TypeOK
<1>4. Listed' = Listed /\ AllDifferent' = AllDifferent
  BY <1>2, Zenon DEF Listed, AllDifferent
<1>5. CASE /\ tx.frame = NULL \/ state \notin ReplyStates
           /\ UNCHANGED << port, timeout, used, sizes >>
           /\ failed' = failed \/ failed' = "unhandled"
  <2>1. /\ state' = state /\ tx' = tx /\ rx' = rx /\ lock' = lock /\ timer' = timer
        /\ timeout' = timeout /\ used' = used /\ sizes' = sizes
    BY <1>5, Zenon DEF port
  <2>2. Types'
    BY <1>0, <1>2, <1>3, <1>5, <2>1, SameSetting, Zenon DEF Types, TypeOK
  <2>3. Awaiting' /\ ReceptionHasState' /\ Counting' /\ Ready'
    <3>1. Counting'
      BY <1>2, <1>5, <2>1, SameCounts, Zenon
    <3>2. Awaiting' /\ ReceptionHasState' /\ Ready'
      BY <1>2, <1>5, <2>1, Zenon DEF Inv, Awaiting, ReceptionHasState, Ready
    <3> QED BY <3>1, <3>2, Zenon
  <2>4. Alone' = Alone
    BY <1>2, <1>4, <2>1, Zenon DEF Alone
  <2> QED BY <1>2, <2>2, <2>3, <2>4, SameSetting, Zenon DEF Inv
<1>6. CASE /\ tx.frame # NULL
           /\ state \in ReplyStates
           /\ timer' = (timer /\ state \notin DiscStates)
           /\ timeout' =
                [what |-> CASE state \notin DiscStates -> "noreply"
                            [] state \in DiscStates /\ rx.buf # << >> -> "collision"
                            [] OTHER -> "timeout",
                 taken |-> FALSE, frame |-> NULL]
           /\ Checkout(rx)
           /\ Gone({rx.frame})
           /\ rx' = NoFrame(rx)
           /\ UNCHANGED << state, tx, failed >>
  <2>1. /\ timeout' \in TimeoutType /\ ~timeout'.taken /\ timeout' # NULL
    <3>1. timeout' \in TimeoutType
      BY <1>6, Zenon DEF TimeoutType, Answers, EntriesOrNone
    <3>2. timeout'.taken = FALSE
      BY <1>6, Zenon
    <3> QED BY <3>1, <3>2, AnswerIsThere, Zenon
  <2>2. rx' \in RxType /\ rx'.frame = NULL
    BY <1>0, <1>6, NoFrameTyped, Zenon DEF TypeOK
  <2>3. lock' \in LockType /\ sizes' \in Seq(Nat) /\ Counting'
    BY <1>0, <1>6, CheckoutCounts, Zenon DEF TypeOK, Inv
  <2>4. used' = used \ {rx.frame} /\ state' = state /\ tx' = tx /\ failed' = failed
        /\ timer' \in BOOLEAN
    BY <1>6, Zenon DEF Gone
  <2>5. Types'
    BY <1>0, <1>2, <1>3, <2>1, <2>2, <2>3, <2>4, SameSetting, Zenon DEF Types, TypeOK
  <2>6. Awaiting' /\ ReceptionHasState' /\ Ready'
    BY <1>2, <2>1, <2>2, <2>4, Zenon DEF Inv, Awaiting, ReceptionHasState, Ready
  <2>7. ASSUME Alone, ~Race PROVE Alone'
    <3>1. NULL \notin Listed
      BY <1>0, ListedEntries, Zenon DEF TypeOK
    <3>2. Owned(used', tx'.frame, rx'.frame, Listed')
      BY <1>4, <2>2, <2>4, <2>7, <3>1, OwnDropped, Zenon DEF Alone
    <3>3. reading' = NULL
      BY <1>1, <1>2, <2>7, Zenon
    <3>4. timeout' # NULL =>
            /\ state' \in ReplyStates /\ reading' = NULL /\ tx'.frame # NULL /\ rx'.frame = NULL
            /\ timeout'.taken => timeout'.frame = tx'.frame
      BY <1>6, <2>1, <2>2, <2>4, <3>3, Zenon
    <3> QED BY <1>2, <1>4, <2>4, <2>7, <3>2, <3>3, <3>4, Zenon DEF Alone
  <2> QED BY <1>2, <2>3, <2>5, <2>6, <2>7, SameSetting, Zenon DEF Inv
<1> QED
  BY <1>5, <1>6, Zenon DEF handle_rdm_timeout

\* dmx512rtuart_checkout_tx_frame reads the request.
LEMMA TakesInv == ASSUME Inv, timeout_takes_request PROVE Inv'
<1>0. TypeOK /\ (reading # NULL => reading <= Len(rxfifo))
  BY Zenon DEF Inv, Types
<1>1. /\ UNCHANGED << port, due, uart, wire, frames, reading, sizes, failed >>
      /\ timeout # NULL
      /\ timeout' = [timeout EXCEPT !.taken = TRUE, !.frame = tx.frame]
  BY Zenon DEF timeout_takes_request
<1>2. timeout \in TimeoutType /\ tx.frame \in EntriesOrNone
  BY <1>0, <1>1, Zenon DEF TypeOK, TxType
<1>3. timeout' \in TimeoutType /\ timeout'.taken = TRUE /\ timeout'.frame = tx.frame
  <2> DEFINE g == [timeout EXCEPT !.taken = TRUE]
  <2>1. g \in TimeoutType /\ g.taken = TRUE
    BY <1>2, Zenon DEF TimeoutType
  <2>2. timeout' = [g EXCEPT !.frame = tx.frame]
    BY <1>1, Zenon
  <2> HIDE DEF g
  <2> QED BY <2>1, <2>2, <1>2, Zenon DEF TimeoutType
<1>4. /\ state' = state /\ tx' = tx /\ rx' = rx /\ lock' = lock /\ timer' = timer
      /\ due' = due /\ notify' = notify /\ baud' = baud /\ used' = used
      /\ received' = received /\ reading' = reading /\ sizes' = sizes /\ scenario' = scenario
  BY <1>1, Zenon DEF port, uart, wire, frames
<1>5. Types'
  BY <1>0, <1>1, <1>3, <1>4, SameSetting, Zenon DEF Types, TypeOK, uart, wire
<1>6. timeout' # NULL
  BY <1>3, AnswerIsThere, Zenon
<1>7. Awaiting' /\ ReceptionHasState' /\ Counting' /\ Ready'
  <2>1. Counting'
    BY <1>3, <1>4, <1>6, SameCounts, Zenon
  <2>2. Awaiting' /\ ReceptionHasState' /\ Ready'
    BY <1>3, <1>4, <1>6, Zenon DEF Inv, Awaiting, ReceptionHasState, Ready
  <2> QED BY <2>1, <2>2, Zenon
<1>8. ASSUME Alone PROVE Alone'
  BY <1>1, <1>3, <1>4, <1>8, Zenon DEF Alone, Listed, AllDifferent
<1> QED
  BY <1>4, <1>5, <1>7, <1>8, SameSetting, Zenon DEF Inv

\* ... and hands it over as the answer.
LEMMA AnswersInv == ASSUME Inv, timeout_answers PROVE Inv'
<1>0. TypeOK /\ (reading # NULL => reading <= Len(rxfifo))
  BY Zenon DEF Inv, Types
<1> DEFINE f == [frame |-> timeout.frame, what |-> timeout.what, size |-> 0]
<1>1. /\ UNCHANGED << state, rx, lock, timer, due, uart, wire, used, reading, sizes, failed >>
      /\ timeout # NULL /\ timeout.taken /\ timeout' = NULL
      /\ Receive(f) /\ tx' = IF timeout.frame = NULL THEN tx ELSE NoTx
  BY Zenon DEF timeout_answers
<1>2. timeout \in TimeoutType
  BY <1>0, <1>1, Zenon DEF TypeOK
<1>3. f \in FrameType /\ f.frame = timeout.frame
  BY <1>2, Zenon DEF TimeoutType, FrameType
<1> HIDE DEF f
<1>4. /\ received' \in Seq(HandedType)
      /\ Listed' = Listed \union ({timeout.frame} \ {NULL})
      /\ AllDifferent /\ timeout.frame \notin Listed => AllDifferent'
  BY <1>0, <1>1, <1>3, ReceiveLists, Zenon DEF TypeOK
<1>5. notify' = notify /\ baud' = baud /\ scenario' = scenario
  BY <1>1, Zenon DEF uart, wire
<1>6. tx' \in TxType
  BY <1>0, <1>1, NoTxTyped, Zenon DEF TypeOK
<1>7. Types'
  BY <1>0, <1>1, <1>4, <1>6, SameSetting, Zenon DEF Types, TypeOK, uart, wire
<1>8. Awaiting'
  <2>1. tx'.frame # NULL => tx' = tx /\ timeout.frame = NULL
    BY <1>1, NoTxTyped, Zenon
  <2> QED BY <1>1, <2>1, Zenon DEF Inv, Awaiting
<1>9. ReceptionHasState' /\ Counting' /\ Ready'
  <2>1. Counting'
    BY <1>1, <1>5, SameCounts, Zenon
  <2>2. ReceptionHasState' /\ Ready'
    BY <1>1, <1>5, Zenon DEF Inv, ReceptionHasState, Ready
  <2> QED BY <2>1, <2>2, Zenon
<1>10. ASSUME Alone PROVE Alone'
  <2>1. timeout.frame = tx.frame /\ tx.frame # NULL /\ state \in ReplyStates
    BY <1>1, <1>10, Zenon DEF Alone
  <2>2. tx' = NoTx /\ tx'.frame = NULL
    BY <1>1, <2>1, NoTxTyped, Zenon
  <2>3. NULL \notin Listed
    BY <1>0, ListedEntries, Zenon DEF TypeOK
  <2>4. Owned(used, NULL, rx.frame, Listed \union ({tx.frame} \ {NULL}))
    BY <1>10, <2>3, OwnAnswer, Zenon DEF Alone
  <2>5. Owned(used', tx'.frame, rx'.frame, Listed')
    BY <1>1, <1>4, <2>1, <2>2, <2>4, Zenon
  <2>6. AllDifferent'
    BY <1>4, <1>10, <2>1, Zenon DEF Alone, Owned
  <2>7. state \notin TxStates
    BY <2>1, Zenon DEF ReplyStates, DiscStates, TxStates
  <2> QED BY <1>1, <1>5, <1>10, <2>5, <2>6, <2>7, Zenon DEF Alone
<1> QED
  BY <1>5, <1>7, <1>8, <1>9, <1>10, SameSetting, Zenon DEF Inv

-----------------------------------------------------------------------------
(* Sending.                                                                *)

\* A frame that is handed over as it is.
LEMMA FrameTyped ==
  ASSUME NEW r \in RxType
  PROVE  Frame(r) \in FrameType /\ Frame(r).frame = r.frame
<1>1. r.frame \in EntriesOrNone
  BY Zenon DEF RxType
<1> QED
  BY <1>1, PayloadNat, Zenon DEF Frame, FrameType

\* Without interleaving, the main thread runs when the timer thread does not.
LEMMA MainAlone ==
  ASSUME Main, ~Race
  PROVE  timeout = NULL /\ reading = NULL
  BY Zenon DEF Main

\* dmx512_rtuart_client_send_frame hands over what was being received.
LEMMA SendInv == ASSUME Inv, send_frame PROVE Inv'
<1>0. TypeOK /\ (reading # NULL => reading <= Len(rxfifo))
  BY Zenon DEF Inv, Types
<1> DEFINE off == Disabled(notify, {"LINEEVENT", "RXAVAILABLE"})
           quiet == Disabled(off, {"TXREADY"})
<1>1. PICK kind \in Kinds, e \in Entries \ used :
        /\ tx' = [frame |-> e, kind |-> kind, remain |-> TxOctets]
        /\ used' = used \union {e}
        /\ IF kind = "discreply"
           THEN /\ state' = "TRANSMIT_DATA"
                /\ notify' = off \union {"TXREADY"}
                /\ UNCHANGED << baud, txbusy >>
           ELSE /\ state' = "TRANSMIT_BREAK"
                /\ notify' = quiet \union {"TXEMPTY"}
                /\ baud' = "break"
                /\ txbusy' = TRUE
        /\ ier' = Ier(notify')
  BY Zenon DEF send_frame
<1>2. /\ off \subseteq notify /\ quiet \subseteq notify
  BY Zenon DEF Disabled
<1> HIDE DEF off, quiet
<1>3. /\ Main /\ tx.frame = NULL /\ Checkout(rx) /\ Receive(Frame(rx))
      /\ rx' = [rx EXCEPT !.frame = NULL, !.buf = << >>, !.rdm = FALSE, !.disc = FALSE]
      /\ UNCHANGED << timer, thread, rxfifo, wire, reading, failed >>
  BY Zenon DEF send_frame
<1>4. /\ timer' = timer /\ due' = due /\ timeout' = timeout /\ rxfifo' = rxfifo
      /\ reading' = reading /\ failed' = failed /\ scenario' = scenario /\ incoming' = incoming
  BY <1>3, Zenon DEF thread, wire
<1>5. tx' \in TxType /\ tx'.frame = e
  BY <1>1, Sizes DEF TxType, EntriesOrNone
<1>6. rx' \in RxType /\ rx'.frame = NULL
  <2> DEFINE g1 == [rx EXCEPT !.frame = NULL]
             g2 == [g1 EXCEPT !.buf = << >>]
             g3 == [g2 EXCEPT !.rdm = FALSE]
  <2>1. g1 \in RxType /\ g1.frame = NULL
    BY <1>0, Zenon DEF TypeOK, RxType, EntriesOrNone
  <2>2. g2 \in RxType /\ g2.frame = NULL
    <3>1. << >> \in Seq(Octets)
      BY EmptySeq, Zenon
    <3> HIDE DEF g1
    <3> QED BY <2>1, <3>1, Zenon DEF RxType
  <2>3. g3 \in RxType /\ g3.frame = NULL
    <3> HIDE DEF g2
    <3> QED BY <2>2, Zenon DEF RxType
  <2>4. rx' = [g3 EXCEPT !.disc = FALSE]
    BY <1>3, Zenon
  <2> HIDE DEF g3
  <2> QED BY <2>3, <2>4, Zenon DEF RxType
<1>7. lock' \in LockType /\ sizes' \in Seq(Nat) /\ Counting'
  BY <1>0, <1>3, CheckoutCounts, Zenon DEF TypeOK, Inv
<1>8. /\ received' \in Seq(HandedType)
      /\ Listed' = Listed \union ({rx.frame} \ {NULL})
      /\ AllDifferent /\ rx.frame \notin Listed => AllDifferent'
  BY <1>0, <1>3, FrameTyped, ReceiveLists, Zenon DEF TypeOK
<1>9. /\ notify' \subseteq Notifications
      /\ ier' \subseteq Notifications \ {"TXEMPTY"}
      /\ state' \in {"TRANSMIT_BREAK", "TRANSMIT_DATA"}
      /\ baud' \in {"data", "break"} /\ txbusy' \in BOOLEAN
  BY <1>0, <1>1, <1>2, Zenon DEF TypeOK, Notifications, Ier
<1>10. Types'
  <2>1. used' \subseteq Entries
    BY <1>0, <1>1, Zenon DEF TypeOK
  <2>2. state' \in RxStates \union TxStates \union {"IDLE"}
    BY <1>9, Zenon DEF TxStates
  <2> QED BY <1>0, <1>4, <1>5, <1>6, <1>7, <1>8, <1>9, <2>1, <2>2, SameSetting, Zenon
          DEF Types, TypeOK
<1>11. Awaiting' /\ ReceptionHasState' /\ Ready'
  BY <1>6, <1>9, Zenon DEF Awaiting, ReceptionHasState, Ready, ReplyStates, DiscStates
<1>12. ASSUME Alone, ~Race PROVE Alone'
  <2>1. timeout' = NULL /\ reading' = NULL
    BY <1>3, <1>4, <1>12, MainAlone, Zenon
  <2>2. state \notin TxStates
    BY <1>3, <1>12, Zenon DEF Alone
  <2>3. "TXREADY" \notin notify /\ baud # "break"
    BY <1>12, <2>2, Zenon DEF Alone, TxStates
  <2>4. "TXREADY" \in notify' => state' = "TRANSMIT_DATA"
    BY <1>1, <1>2, <2>3
  <2>5. baud' = "break" => state' = "TRANSMIT_BREAK"
    BY <1>1, <2>3, Zenon
  <2>6. tx'.frame # NULL
    BY <1>5, NoNullEntry, Zenon
  <2>7. Owned(used, NULL, rx.frame, Listed)
    BY <1>3, <1>12, Zenon DEF Alone
  <2>8. Owned(used', tx'.frame, rx'.frame, Listed')
    <3>1. Owned(used \union {e}, e, NULL, Listed \union ({rx.frame} \ {NULL}))
      BY <2>7, OwnSend, Zenon
    <3> QED BY <3>1, <1>1, <1>5, <1>6, <1>8, Zenon
  <2>9. rx.frame \notin Listed /\ AllDifferent
    BY <1>12, Zenon DEF Alone, Owned
  <2> QED BY <1>8, <2>1, <2>4, <2>5, <2>6, <2>8, <2>9, Zenon DEF Alone
<1> QED
  BY <1>4, <1>7, <1>10, <1>11, <1>12, SameSetting, Zenon DEF Inv

\* dmx512rtuart_transmitter_has_space writes octets until none remain.
LEMMA ThrInv == ASSUME Inv, irq_thr_empty PROVE Inv'
<1>0. TypeOK /\ (reading # NULL => reading <= Len(rxfifo))
  BY Zenon DEF Inv, Types
<1> DEFINE mask == notify \ {"TXREADY"}
           n == Min({tx.remain, TxChunk})
<1>1. /\ Main /\ "TXREADY" \in notify
      /\ UNCHANGED << rx, lock, timer, thread, baud, rxfifo, wire, frames, reading, sizes,
                      failed >>
  BY Zenon DEF irq_thr_empty
<1>2. /\ rx' = rx /\ lock' = lock /\ timer' = timer /\ due' = due /\ timeout' = timeout
      /\ baud' = baud /\ rxfifo' = rxfifo /\ used' = used /\ received' = received
      /\ reading' = reading /\ sizes' = sizes /\ failed' = failed
      /\ scenario' = scenario /\ incoming' = incoming
  BY <1>1, Zenon DEF thread, wire, frames
<1>3. state \in {"TRANSMIT_BREAK", "TRANSMIT_DATA"}
  BY <1>1, Zenon DEF Inv, Ready
<1>4. rx.frame = NULL
  BY <1>3, Zenon DEF Inv, ReceptionHasState, RxStates
<1>5. mask \subseteq Notifications /\ ier \subseteq Notifications \ {"TXEMPTY"}
      /\ {"TXREADY"} \subseteq Notifications /\ {"TXEMPTY"} \subseteq Notifications
  BY <1>0, Zenon DEF TypeOK, Notifications
<1>6. Listed' = Listed /\ AllDifferent' = AllDifferent
  BY <1>2, Zenon DEF Listed, AllDifferent
<1>7. \/ /\ tx.frame = NULL \/ state = "WAIT_FOR_TX_COMPLETE"
         /\ notify' = mask
         /\ UNCHANGED << ier, tx, state, txbusy >>
      \/ /\ tx.frame # NULL /\ tx.remain > 0
         /\ tx' = [tx EXCEPT !.remain = @ - n]
         /\ txbusy' = TRUE
         /\ Enable(mask, {"TXREADY"})
         /\ state' = state
      \/ /\ tx.frame # NULL
         /\ state' = "WAIT_FOR_TX_COMPLETE"
         /\ Enable(mask, {"TXEMPTY"})
         /\ UNCHANGED << tx, txbusy >>
  BY Zenon DEF irq_thr_empty
<1>8. tx' \in TxType /\ tx'.frame = tx.frame
  <2>1. tx \in TxType /\ tx.remain \in 0 .. TxOctets
    BY <1>0, Zenon DEF TypeOK, TxType
  <2>2. n \in Nat /\ n <= tx.remain
    BY <2>1, MinOfTwo, Sizes
  <2> HIDE DEF n
  <2>3. tx.remain - n \in 0 .. TxOctets
    BY <2>1, <2>2, Sizes
  <2>4. [tx EXCEPT !.remain = @ - n] \in TxType /\ [tx EXCEPT !.remain = @ - n].frame = tx.frame
    BY <2>1, <2>3, Zenon DEF TxType
  <2> QED BY <1>7, <2>1, <2>4, Zenon
<1> HIDE DEF n
<1>9. /\ notify' \subseteq Notifications /\ ier' \subseteq Notifications \ {"TXEMPTY"}
      /\ state' = state \/ (state' = "WAIT_FOR_TX_COMPLETE" /\ tx.frame # NULL)
      /\ "TXREADY" \in notify' => state' = state
      /\ txbusy' \in BOOLEAN
  <2> HIDE DEF mask
  <2>1. "TXREADY" \notin mask
    BY Zenon DEF mask
  <2>2. CASE /\ notify' = mask /\ UNCHANGED << ier, tx, state, txbusy >>
    BY <1>0, <1>5, <2>2, Zenon DEF TypeOK
  <2>3. CASE Enable(mask, {"TXREADY"}) /\ state' = state /\ txbusy' = TRUE
    BY <1>5, <2>3, EnableTyped, Zenon
  <2>4. CASE /\ tx.frame # NULL /\ state' = "WAIT_FOR_TX_COMPLETE"
             /\ Enable(mask, {"TXEMPTY"}) /\ txbusy' = txbusy
    <3>1. /\ notify' = mask \union {"TXEMPTY"} /\ notify' \subseteq Notifications
          /\ ier' \subseteq Notifications \ {"TXEMPTY"}
      BY <1>5, <2>4, EnableTyped, Zenon
    <3> QED BY <1>0, <2>1, <2>4, <3>1, Zenon DEF TypeOK
  <2> QED BY <1>7, <2>2, <2>3, <2>4, Zenon
<1>10. Types'
  <2>1. state' \in RxStates \union TxStates \union {"IDLE"}
    BY <1>0, <1>9, Zenon DEF TypeOK, TxStates
  <2> QED BY <1>0, <1>2, <1>8, <1>9, <2>1, SameSetting, Zenon DEF Types, TypeOK
<1>11. state' \in TxStates
  BY <1>3, <1>9, Zenon DEF TxStates
<1>12. Awaiting' /\ ReceptionHasState' /\ Counting' /\ Ready'
  <2>1. state' \notin ReplyStates
    BY <1>11, Zenon DEF TxStates, ReplyStates, DiscStates
  <2>2. Counting'
    BY <1>2, <1>3, <1>4, <1>9, SameCounts, Zenon
  <2> QED BY <1>2, <1>3, <1>4, <1>9, <2>1, <2>2, Zenon
          DEF Inv, Awaiting, ReceptionHasState, Ready
<1>13. ASSUME Alone, ~Race PROVE Alone'
  <2>1. state = "TRANSMIT_DATA" /\ timeout' = NULL /\ reading' = NULL
    BY <1>1, <1>2, <1>13, MainAlone, Zenon DEF Alone
  <2>2. tx'.frame # NULL
    BY <1>8, <1>13, <2>1, Zenon DEF Alone, TxStates
  <2>3. baud' # "break"
    BY <1>2, <1>13, <2>1, Zenon DEF Alone
  <2> QED BY <1>2, <1>6, <1>8, <1>9, <1>13, <2>1, <2>2, <2>3, Zenon DEF Alone
<1> QED
  BY <1>2, <1>10, <1>12, <1>13, SameSetting, Zenon DEF Inv

\* The break is out: dmx512rtuart_transmitter_empty goes on with the data.
LEMMA BreakSentInv ==
  ASSUME Inv, break_sent(notify \ {"TXEMPTY"}), Main,
         UNCHANGED << thread, txbusy, wire, reading, failed >>
  PROVE  Inv'
<1>0. TypeOK /\ (reading # NULL => reading <= Len(rxfifo))
  BY Zenon DEF Inv, Types
<1>1. /\ state = "TRANSMIT_BREAK" /\ baud' = "data" /\ state' = "TRANSMIT_DATA"
      /\ Enable(notify \ {"TXEMPTY"}, {"TXREADY"})
      /\ tx' = tx /\ rx' = rx /\ lock' = lock /\ timer' = timer /\ rxfifo' = rxfifo
      /\ used' = used /\ received' = received /\ sizes' = sizes
  BY Zenon DEF break_sent, frames
<1>2. /\ due' = due /\ timeout' = timeout /\ txbusy' = txbusy /\ reading' = reading
      /\ failed' = failed /\ scenario' = scenario /\ incoming' = incoming
  BY Zenon DEF thread, wire
<1>3. notify' \subseteq Notifications /\ ier' \subseteq Notifications \ {"TXEMPTY"}
  <2>1. /\ notify \ {"TXEMPTY"} \subseteq Notifications /\ {"TXREADY"} \subseteq Notifications
        /\ ier \subseteq Notifications \ {"TXEMPTY"}
    BY <1>0, Zenon DEF TypeOK, Notifications
  <2> QED BY <1>1, <2>1, EnableTyped, Zenon
<1>4. Types'
  <2>1. state' \in RxStates \union TxStates \union {"IDLE"}
    BY <1>1, Zenon DEF TxStates
  <2> QED BY <1>0, <1>1, <1>2, <1>3, <2>1, SameSetting, Zenon DEF Types, TypeOK
<1>5. rx.frame = NULL
  BY <1>1, Zenon DEF Inv, ReceptionHasState, RxStates
<1>6. Awaiting' /\ ReceptionHasState' /\ Counting' /\ Ready'
  <2>1. Counting'
    BY <1>1, <1>5, SameCounts, Zenon
  <2>2. Awaiting' /\ ReceptionHasState' /\ Ready'
    BY <1>1, <1>5, Zenon DEF Inv, Awaiting, ReceptionHasState, Ready, ReplyStates, DiscStates
  <2> QED BY <2>1, <2>2, Zenon
<1>7. Listed' = Listed /\ AllDifferent' = AllDifferent
  BY <1>1, Zenon DEF Listed, AllDifferent
<1>8. ASSUME Alone, ~Race PROVE Alone'
  <2>1. timeout' = NULL /\ reading' = NULL
    BY <1>2, <1>8, MainAlone, Zenon
  <2>2. tx'.frame # NULL
    BY <1>1, <1>8, Zenon DEF Alone, TxStates
  <2> QED BY <1>1, <1>7, <1>8, <2>1, <2>2, Zenon DEF Alone
<1> QED
  BY <1>2, <1>4, <1>6, <1>8, SameSetting, Zenon DEF Inv

\* The transmission is over: dmx512rtuart_transmitter_empty waits for a reply, or
\* gives the frame back.
LEMMA ExpectInv ==
  ASSUME Inv, Main, state = "WAIT_FOR_TX_COMPLETE", rxfifo' = << >>,
         \/ expect_discovery_reply(notify \ {"TXEMPTY"})
         \/ expect_reply(notify \ {"TXEMPTY"})
         \/ expect_nothing(notify \ {"TXEMPTY"}),
         UNCHANGED << lock, baud, sizes >>,
         UNCHANGED << thread, txbusy, wire, reading, failed >>
  PROVE  Inv'
<1>0. TypeOK /\ reading = NULL
  BY Zenon DEF Inv, Types, Main
<1> DEFINE mask == notify \ {"TXEMPTY"}
<1>1. /\ lock' = lock /\ baud' = baud /\ sizes' = sizes
      /\ due' = due /\ timeout' = timeout /\ txbusy' = txbusy /\ reading' = reading
      /\ failed' = failed /\ scenario' = scenario /\ incoming' = incoming
  BY Zenon DEF thread, wire
<1>2. rx.frame = NULL /\ "TXREADY" \notin notify
  BY Zenon DEF Inv, ReceptionHasState, RxStates, Ready
<1>3. /\ mask \subseteq Notifications /\ ier \subseteq Notifications \ {"TXEMPTY"}
      /\ {"LINEEVENT"} \subseteq Notifications
      /\ {"LINEEVENT", "RXAVAILABLE"} \subseteq Notifications
  BY <1>0, Zenon DEF TypeOK, Notifications
<1>4. rxfifo' \in LineType /\ Len(rxfifo') <= FifoSize
  <2>1. Len(<< >>) = 0 /\ << >> \in LineType
    BY DEF LineType
  <2> QED BY <2>1, Sizes
<1>5. ASSUME Alone, ~Race
      PROVE  timeout' = NULL /\ reading' = NULL /\ baud' # "break"
  BY <1>1, <1>5, MainAlone, Zenon DEF Alone
<1>6. CASE expect_discovery_reply(mask)
  <2>1. PICK e \in Entries \ used :
          /\ rx' = [Rx(e, 0) EXCEPT !.rdm = TRUE, !.disc = TRUE]
          /\ used' = used \union {e}
    BY <1>6, Zenon DEF expect_discovery_reply
  <2>2. /\ state' = "RDMDISC_RECV_PREAMBLE" /\ timer' = TRUE /\ tx' = tx
        /\ received' = received /\ Enable(mask, {"LINEEVENT", "RXAVAILABLE"})
    BY <1>6, Zenon DEF expect_discovery_reply
  <2> HIDE DEF mask
  <2>3. rx' \in RxType /\ rx'.frame = e /\ rx'.rdm = TRUE /\ rx'.disc = TRUE
    <3>1. rx' = [frame |-> e, buf |-> << >>, rdm |-> TRUE, disc |-> TRUE, expected |-> 0]
      BY <2>1, Zenon DEF Rx
    <3>2. << >> \in Seq(Octets)
      BY EmptySeq, Zenon
    <3> QED BY <3>1, <3>2, Zenon DEF RxType, EntriesOrNone
  <2>4. /\ notify' = mask \union {"LINEEVENT", "RXAVAILABLE"}
        /\ notify' \subseteq Notifications /\ ier' \subseteq Notifications \ {"TXEMPTY"}
    BY <1>3, <2>2, EnableTyped, Zenon
  <2>5. Types'
    <3>1. used' \subseteq Entries /\ state' \in RxStates \union TxStates \union {"IDLE"}
      BY <1>0, <2>1, <2>2, Zenon DEF TypeOK, RxStates
    <3> QED BY <1>0, <1>1, <1>4, <2>2, <2>3, <2>4, <3>1, SameSetting, Zenon DEF Types, TypeOK
  <2>6. "TXREADY" \notin notify'
    BY <1>2, <2>4, Zenon DEF mask
  <2>7. Awaiting' /\ ReceptionHasState' /\ Counting' /\ Ready'
    <3>1. Counting'
      BY <1>1, <2>2, <2>3, <2>6, SameCounts, Zenon
    <3>2. Awaiting' /\ ReceptionHasState' /\ Ready'
      BY <1>1, <2>2, <2>3, <2>6, Zenon DEF Inv, Awaiting, ReceptionHasState, Ready, RxStates
    <3> QED BY <3>1, <3>2, Zenon
  <2>8. Listed' = Listed /\ AllDifferent' = AllDifferent
    BY <2>2, Zenon DEF Listed, AllDifferent
  <2>9. ASSUME Alone, ~Race PROVE Alone'
    <3>1. Owned(used, tx.frame, NULL, Listed)
      BY <1>2, <2>9, Zenon DEF Alone
    <3>2. Owned(used \union {e}, tx.frame, e, Listed)
      BY <3>1, OwnNew, Zenon
    <3>3. Owned(used', tx'.frame, rx'.frame, Listed')
      BY <2>1, <2>2, <2>3, <2>8, <3>2, Zenon
    <3>4. state' \notin TxStates
      BY <2>2, Zenon DEF TxStates
    <3> QED BY <1>5, <2>6, <2>8, <2>9, <3>3, <3>4, Zenon DEF Alone
  <2> QED BY <1>1, <2>5, <2>7, <2>9, SameSetting, Zenon DEF Inv
<1>7. CASE expect_reply(mask)
  <2>1. /\ rx' = [rx EXCEPT !.expected = RdmSlots]
        /\ state' = "EXPECT_RDM_FRAME" /\ timer' = TRUE /\ tx' = tx
        /\ used' = used /\ received' = received /\ Enable(mask, {"LINEEVENT"})
    BY <1>7, Zenon DEF expect_reply, frames
  <2> HIDE DEF mask
  <2>2. rx' \in RxType /\ rx'.frame = NULL
    BY <1>0, <1>2, <2>1, Sizes, Zenon DEF TypeOK, RxType
  <2>3. /\ notify' = mask \union {"LINEEVENT"}
        /\ notify' \subseteq Notifications /\ ier' \subseteq Notifications \ {"TXEMPTY"}
    BY <1>3, <2>1, EnableTyped, Zenon
  <2>4. Types'
    <3>1. state' \in RxStates \union TxStates \union {"IDLE"}
      BY <2>1, Zenon DEF RxStates
    <3> QED BY <1>0, <1>1, <1>4, <2>1, <2>2, <2>3, <3>1, SameSetting, Zenon DEF Types, TypeOK
  <2>5. "TXREADY" \notin notify'
    BY <1>2, <2>3, Zenon DEF mask
  <2>6. Awaiting' /\ ReceptionHasState' /\ Counting' /\ Ready'
    <3>1. Counting'
      BY <1>1, <2>1, <2>2, <2>5, SameCounts, Zenon
    <3>2. Awaiting' /\ ReceptionHasState' /\ Ready'
      BY <1>1, <2>1, <2>2, <2>5, Zenon DEF Inv, Awaiting, ReceptionHasState, Ready
    <3> QED BY <3>1, <3>2, Zenon
  <2>7. Listed' = Listed /\ AllDifferent' = AllDifferent
    BY <2>1, Zenon DEF Listed, AllDifferent
  <2>8. ASSUME Alone, ~Race PROVE Alone'
    <3>1. state' \notin TxStates
      BY <2>1, Zenon DEF TxStates
    <3>2. Owned(used', tx'.frame, rx'.frame, Listed')
      BY <1>2, <2>1, <2>2, <2>7, <2>8, Zenon DEF Alone
    <3> QED BY <1>5, <2>5, <2>7, <2>8, <3>1, <3>2, Zenon DEF Alone
  <2> QED BY <1>1, <2>4, <2>6, <2>8, SameSetting, Zenon DEF Inv
<1>8. CASE expect_nothing(mask)
  <2>1. /\ rx' = rx \/ rx' = [rx EXCEPT !.frame = NULL]
        /\ used' = used \ {tx.frame} /\ tx' = NoTx /\ state' = "IDLE"
        /\ timer' = timer /\ received' = received /\ Enable(mask, {"LINEEVENT"})
    BY <1>8, Zenon DEF expect_nothing, Gone
  <2> HIDE DEF mask
  <2>2. rx' \in RxType /\ rx'.frame = NULL
    BY <1>0, <1>2, <2>1, Zenon DEF TypeOK, RxType, EntriesOrNone
  <2>3. /\ notify' = mask \union {"LINEEVENT"}
        /\ notify' \subseteq Notifications /\ ier' \subseteq Notifications \ {"TXEMPTY"}
    BY <1>3, <2>1, EnableTyped, Zenon
  <2>4. Types'
    <3>1. tx' \in TxType /\ used' \subseteq Entries
      BY <1>0, <2>1, NoTxTyped, Zenon DEF TypeOK
    <3> QED BY <1>0, <1>1, <1>4, <2>1, <2>2, <2>3, <3>1, SameSetting, Zenon DEF Types, TypeOK
  <2>5. "TXREADY" \notin notify' /\ tx'.frame = NULL
    BY <1>2, <2>1, <2>3, NoTxTyped, Zenon DEF mask
  <2>6. Awaiting' /\ ReceptionHasState' /\ Counting' /\ Ready'
    <3>1. Counting'
      BY <1>1, <2>2, <2>5, SameCounts, Zenon
    <3>2. Awaiting' /\ ReceptionHasState' /\ Ready'
      BY <1>1, <2>2, <2>5, Zenon DEF Inv, Awaiting, ReceptionHasState, Ready
    <3> QED BY <3>1, <3>2, Zenon
  <2>7. Listed' = Listed /\ AllDifferent' = AllDifferent
    BY <2>1, Zenon DEF Listed, AllDifferent
  <2>8. ASSUME Alone, ~Race PROVE Alone'
    <3>1. state' \notin TxStates
      BY <2>1, Zenon DEF TxStates
    <3>2. NULL \notin Listed
      BY <1>0, ListedEntries, Zenon DEF TypeOK
    <3>3. Owned(used \ {tx.frame}, NULL, rx.frame, Listed)
      BY <2>8, <3>2, OwnSent, Zenon DEF Alone
    <3>4. Owned(used', tx'.frame, rx'.frame, Listed')
      BY <1>2, <2>1, <2>2, <2>5, <2>7, <3>3, Zenon
    <3> QED BY <1>5, <2>5, <2>7, <2>8, <3>1, <3>4, Zenon DEF Alone
  <2> QED BY <1>1, <2>4, <2>6, <2>8, SameSetting, Zenon DEF Inv
<1> QED
  BY <1>6, <1>7, <1>8, Zenon

\* uart16550_handle_lsr finds the transmitter empty.
LEMMA TxEmptyInv == ASSUME Inv, lsr_tx_empty PROVE Inv'
<1>1. /\ Main /\ UNCHANGED << thread, txbusy, wire, reading, failed >>
  BY Zenon DEF lsr_tx_empty
<1>2. CASE break_sent(notify \ {"TXEMPTY"})
  BY <1>1, <1>2, BreakSentInv, Zenon
<1>3. CASE /\ state = "WAIT_FOR_TX_COMPLETE"
           /\ \/ expect_discovery_reply(notify \ {"TXEMPTY"})
              \/ expect_reply(notify \ {"TXEMPTY"})
              \/ expect_nothing(notify \ {"TXEMPTY"})
           /\ rxfifo' = << >>
           /\ UNCHANGED << lock, baud, sizes >>
  BY <1>1, <1>3, ExpectInv, Zenon
<1> QED
  BY <1>2, <1>3, Zenon DEF lsr_tx_empty

-----------------------------------------------------------------------------
(* Breaks.                                                                 *)

\* What a break leaves behind: a new frame and the state that reads it, or, when
\* there is no memory, neither.  A reply has its timer.
LEMMA StartFacts ==
  ASSUME TypeOK, NEW reply \in BOOLEAN, start_reception(reply)
  PROVE  /\ rx' \in RxType /\ timer' \in BOOLEAN
         /\ notify' \subseteq Notifications /\ ier' \subseteq Notifications \ {"TXEMPTY"}
         /\ "TXREADY" \in notify' => "TXREADY" \in notify
         /\ reply => timer'
         /\ ~reply => state' \in {"IDLE", "EXPECT_STARTCODE"}
         /\ state' \in {"IDLE", "EXPECT_STARTCODE", "EXPECT_RDM_FRAME", "RECEIVE_RDMDATA"}
         /\ \/ /\ rx'.frame = NULL /\ used' = used
            \/ /\ rx'.frame \in Entries \ used /\ used' = used \union {rx'.frame}
               /\ state' \in {"EXPECT_STARTCODE", "RECEIVE_RDMDATA"}
<1>1. PICK e \in NewEntries :
        IF e = NULL
        THEN /\ rx' = Rx(NULL, rx.expected)
             /\ state' = IF reply THEN "EXPECT_RDM_FRAME" ELSE "IDLE"
             /\ UNCHANGED used
             /\ Enable(notify, {"LINEEVENT"})
        ELSE /\ rx' = Rx(e, IF reply THEN RdmSlots ELSE DmxSlots)
             /\ state' = IF reply THEN "RECEIVE_RDMDATA" ELSE "EXPECT_STARTCODE"
             /\ used' = used \union {e}
             /\ Enable(notify, {"LINEEVENT", "RXAVAILABLE"})
  BY Zenon DEF start_reception
<1>2. timer' = (timer \/ reply)
  BY Zenon DEF start_reception
<1>3. timer' \in BOOLEAN /\ (reply => timer')
  BY <1>2, Zenon DEF TypeOK
<1>4. /\ notify \subseteq Notifications /\ ier \subseteq Notifications \ {"TXEMPTY"}
      /\ {"LINEEVENT"} \subseteq Notifications
      /\ {"LINEEVENT", "RXAVAILABLE"} \subseteq Notifications
  BY Zenon DEF TypeOK, Notifications
<1>5. \A x \in EntriesOrNone, n \in Nat : Rx(x, n) \in RxType /\ Rx(x, n).frame = x
  <2> SUFFICES ASSUME NEW x \in EntriesOrNone, NEW n \in Nat
               PROVE  Rx(x, n) \in RxType /\ Rx(x, n).frame = x
    BY Zenon
  <2>1. << >> \in Seq(Octets)
    BY EmptySeq, Zenon
  <2> QED BY <2>1, Zenon DEF Rx, RxType
<1>6. CASE e = NULL
  <2>1. /\ rx' = Rx(NULL, rx.expected) /\ used' = used
        /\ state' = IF reply THEN "EXPECT_RDM_FRAME" ELSE "IDLE"
        /\ Enable(notify, {"LINEEVENT"})
    BY <1>1, <1>6, Zenon
  <2>2. rx' \in RxType /\ rx'.frame = NULL
    <3>1. rx.expected \in Nat /\ NULL \in EntriesOrNone
      BY Zenon DEF TypeOK, RxType, EntriesOrNone
    <3> QED BY <1>5, <2>1, <3>1, Zenon
  <2>3. /\ notify' = notify \union {"LINEEVENT"}
        /\ notify' \subseteq Notifications /\ ier' \subseteq Notifications \ {"TXEMPTY"}
    BY <1>4, <2>1, EnableTyped, Zenon
  <2> QED BY <1>3, <2>1, <2>2, <2>3, Zenon
<1>7. CASE e # NULL
  <2>1. /\ rx' = Rx(e, IF reply THEN RdmSlots ELSE DmxSlots)
        /\ state' = IF reply THEN "RECEIVE_RDMDATA" ELSE "EXPECT_STARTCODE"
        /\ used' = used \union {e}
        /\ Enable(notify, {"LINEEVENT", "RXAVAILABLE"})
    BY <1>1, <1>7, Zenon
  <2>2. e \in Entries \ used
    BY <1>1, <1>7, Zenon DEF NewEntries
  <2>3. rx' \in RxType /\ rx'.frame = e
    <3>1. e \in EntriesOrNone /\ (IF reply THEN RdmSlots ELSE DmxSlots) \in Nat
      BY <2>2, Sizes, Zenon DEF EntriesOrNone
    <3> QED BY <1>5, <2>1, <3>1, Zenon
  <2>4. /\ notify' = notify \union {"LINEEVENT", "RXAVAILABLE"}
        /\ notify' \subseteq Notifications /\ ier' \subseteq Notifications \ {"TXEMPTY"}
    BY <1>4, <2>1, EnableTyped, Zenon
  <2> QED BY <1>3, <2>1, <2>2, <2>3, <2>4, Zenon
<1> QED
  BY <1>6, <1>7, Zenon

\* A break starts a reception, after what was received before has been handed over.
LEMMA StartInv ==
  ASSUME Inv, Main, NEW reply \in BOOLEAN, start_reception(reply),
         state \in {"IDLE", "RECEIVE_DMXDATA", "EXPECT_RDM_FRAME"},
         tx' = tx, UNCHANGED << thread, baud, txbusy, wire, reading, failed >>,
         rxfifo' \in LineType, Len(rxfifo') <= FifoSize,
         lock' \in LockType, sizes' \in Seq(Nat), Counting',
         received' \in Seq(HandedType),
         Alone => /\ Owned(used, tx.frame, NULL, Listed')
                  /\ AllDifferent'
  PROVE  Inv'
<1>0. TypeOK /\ reading = NULL
  BY Zenon DEF Inv, Types, Main
<1>1. /\ due' = due /\ timeout' = timeout /\ baud' = baud /\ txbusy' = txbusy
      /\ reading' = reading /\ failed' = failed /\ scenario' = scenario
      /\ incoming' = incoming
  BY Zenon DEF thread, wire
<1>2. /\ rx' \in RxType /\ timer' \in BOOLEAN
      /\ notify' \subseteq Notifications /\ ier' \subseteq Notifications \ {"TXEMPTY"}
      /\ "TXREADY" \in notify' => "TXREADY" \in notify
      /\ reply => timer'
      /\ ~reply => state' \in {"IDLE", "EXPECT_STARTCODE"}
      /\ state' \in {"IDLE", "EXPECT_STARTCODE", "EXPECT_RDM_FRAME", "RECEIVE_RDMDATA"}
      /\ \/ /\ rx'.frame = NULL /\ used' = used
         \/ /\ rx'.frame \in Entries \ used /\ used' = used \union {rx'.frame}
            /\ state' \in {"EXPECT_STARTCODE", "RECEIVE_RDMDATA"}
  BY <1>0, StartFacts, Zenon
<1>3. Types'
  <2>1. used' \subseteq Entries
    BY <1>0, <1>2 DEF TypeOK
  <2>2. state' \in RxStates \union TxStates \union {"IDLE"}
    BY <1>2, Zenon DEF RxStates
  <2> QED BY <1>0, <1>1, <1>2, <2>1, <2>2, SameSetting, Zenon DEF Types, TypeOK
<1>4. Awaiting'
  <2>1. state' \in ReplyStates => reply
    BY <1>2, Zenon DEF ReplyStates, DiscStates
  <2> QED BY <1>2, <2>1, Zenon DEF Awaiting
<1>5. ReceptionHasState'
  BY <1>2, Zenon DEF ReceptionHasState, RxStates, DiscStates
<1>6. "TXREADY" \notin notify'
  BY <1>2, Zenon DEF Inv, Ready
<1>7. Ready'
  BY <1>6, Zenon DEF Ready
<1>8. ASSUME Alone, ~Race PROVE Alone'
  <2>1. timeout' = NULL /\ reading' = NULL
    BY <1>1, <1>8, MainAlone, Zenon
  <2>2. baud' # "break"
    BY <1>1, <1>8, Zenon DEF Alone
  <2>3. state' \notin TxStates
    BY <1>2, Zenon DEF TxStates
  <2>4. Owned(used', tx'.frame, rx'.frame, Listed')
    <3>1. CASE rx'.frame = NULL /\ used' = used
      BY <1>8, <3>1, Zenon
    <3>2. CASE rx'.frame \in Entries \ used /\ used' = used \union {rx'.frame}
      BY <1>8, <3>2, OwnNew, Zenon
    <3> QED BY <1>2, <3>1, <3>2, Zenon
  <2> QED BY <1>6, <1>8, <2>1, <2>2, <2>3, <2>4, Zenon DEF Alone
<1> QED
  BY <1>1, <1>3, <1>4, <1>5, <1>7, <1>8, SameSetting, Zenon DEF Inv

\* uart16550_handle_lsr takes a break out of the fifo.
LEMMA LsrBreakInv == ASSUME Inv, lsr_break PROVE Inv'
<1>0. TypeOK /\ reading = NULL
  BY Zenon DEF Inv, Types, Main, lsr_break
<1>1. /\ Main /\ rxfifo # << >> /\ rxfifo' = Tail(rxfifo)
      /\ UNCHANGED << thread, baud, txbusy, wire, reading, failed >>
  BY Zenon DEF lsr_break
<1>2. /\ due' = due /\ timeout' = timeout /\ baud' = baud /\ txbusy' = txbusy
      /\ reading' = reading /\ failed' = failed /\ scenario' = scenario
      /\ incoming' = incoming
  BY <1>1, Zenon DEF thread, wire
<1>3. rxfifo' \in LineType /\ Len(rxfifo') <= FifoSize
  <2>1. rxfifo \in LineType /\ Len(rxfifo) <= FifoSize
    BY <1>0, Zenon DEF TypeOK
  <2>2. rxfifo' \in LineType /\ Len(rxfifo') = Len(rxfifo) - 1 /\ Len(rxfifo) \in Nat
    BY <1>1, <2>1, HeadTailProperties DEF LineType
  <2> QED BY <2>1, <2>2, Sizes
<1>4. CASE /\ state \in TxStates
           /\ UNCHANGED << port, notify, ier, frames, sizes >>
  <2>1. UNCHANGED << port, thread, notify, baud, frames, reading, sizes, scenario >>
    BY <1>1, <1>2, <1>4, Zenon
  <2>2. Types'
    BY <1>0, <1>2, <1>3, <1>4, SameSetting, Zenon DEF Types, TypeOK, port, frames
  <2> QED BY <2>1, <2>2, Quiet, Zenon
<1>5. CASE /\ break_ends_frame
           /\ Checkout(rx)
           /\ Receive(Frame(rx))
           /\ start_reception(FALSE)
           /\ UNCHANGED tx
  <2>1. lock' \in LockType /\ sizes' \in Seq(Nat) /\ Counting'
    BY <1>0, <1>5, CheckoutCounts, Zenon DEF TypeOK, Inv
  <2>2. /\ received' \in Seq(HandedType)
        /\ Listed' = Listed \union ({rx.frame} \ {NULL})
        /\ AllDifferent /\ rx.frame \notin Listed => AllDifferent'
    BY <1>0, <1>5, FrameTyped, ReceiveLists, Zenon DEF TypeOK
  <2>3. ASSUME Alone
        PROVE  Owned(used, tx.frame, NULL, Listed') /\ AllDifferent'
    <3>1. NULL \notin Listed
      BY <1>0, ListedEntries, Zenon DEF TypeOK
    <3>2. rx.frame \notin Listed /\ AllDifferent
      BY <2>3, Zenon DEF Alone, Owned
    <3> QED BY <2>2, <2>3, <3>1, <3>2, OwnHand, Zenon DEF Alone
  <2>4. state \in {"IDLE", "RECEIVE_DMXDATA", "EXPECT_RDM_FRAME"} /\ tx' = tx
    BY <1>5, Zenon DEF break_ends_frame
  <2> QED BY <1>1, <1>3, <1>5, <2>1, <2>2, <2>3, <2>4, StartInv, Zenon
<1>6. CASE /\ ~break_ends_frame
           /\ state \in {"IDLE", "EXPECT_RDM_FRAME"}
           /\ start_reception(state = "EXPECT_RDM_FRAME")
           /\ UNCHANGED << tx, lock, received, sizes >>
  <2>1. lock' \in LockType /\ sizes' \in Seq(Nat) /\ Counting'
    BY <1>0, <1>6, Zenon DEF TypeOK, Inv, Counting
  <2>2. received' \in Seq(HandedType) /\ Listed' = Listed /\ AllDifferent' = AllDifferent
    BY <1>0, <1>6 DEF TypeOK, Listed, AllDifferent
  <2>3. rx.frame = NULL
    BY <1>6, Zenon DEF break_ends_frame, Inv, ReceptionHasState, RxStates
  <2>4. ASSUME Alone
        PROVE  Owned(used, tx.frame, NULL, Listed') /\ AllDifferent'
    BY <2>2, <2>3, <2>4, Zenon DEF Alone
  <2>5. /\ state \in {"IDLE", "RECEIVE_DMXDATA", "EXPECT_RDM_FRAME"} /\ tx' = tx
        /\ (state = "EXPECT_RDM_FRAME") \in BOOLEAN
    BY <1>6, Zenon
  <2> QED BY <1>1, <1>3, <1>6, <2>1, <2>2, <2>4, <2>5, StartInv, Zenon
<1>7. CASE /\ ~break_ends_frame
           /\ state \in RxStates \ {"EXPECT_RDM_FRAME"}
           /\ rx' = IF state = "EXPECT_STARTCODE" THEN [rx EXCEPT !.buf = << >>] ELSE rx
           /\ Enable(notify, {"LINEEVENT"})
           /\ UNCHANGED << state, tx, lock, timer, frames, sizes >>
  <2>1. /\ state' = state /\ tx' = tx /\ lock' = lock /\ timer' = timer /\ used' = used
        /\ received' = received /\ sizes' = sizes
    BY <1>7, Zenon DEF frames
  <2>2. /\ rx' \in RxType /\ rx'.frame = rx.frame /\ rx'.rdm = rx.rdm /\ rx'.disc = rx.disc
    <3>1. << >> \in Seq(Octets)
      BY EmptySeq, Zenon
    <3> QED BY <1>0, <1>7, <3>1, Zenon DEF TypeOK, RxType
  <2>3. /\ notify' = notify \union {"LINEEVENT"}
        /\ notify' \subseteq Notifications /\ ier' \subseteq Notifications \ {"TXEMPTY"}
    <3>1. /\ notify \subseteq Notifications /\ ier \subseteq Notifications \ {"TXEMPTY"}
          /\ {"LINEEVENT"} \subseteq Notifications
      BY <1>0, Zenon DEF TypeOK, Notifications
    <3> QED BY <1>7, <3>1, EnableTyped, Zenon
  <2>4. Types'
    BY <1>0, <1>2, <1>3, <2>1, <2>2, <2>3, SameSetting, Zenon DEF Types, TypeOK
  <2>5. Awaiting' /\ ReceptionHasState' /\ Counting' /\ Ready'
    <3>1. Counting'
      BY <1>2, <2>1, <2>2, <2>3, SameCounts, Zenon
    <3>2. Awaiting' /\ ReceptionHasState' /\ Ready'
      BY <1>2, <2>1, <2>2, <2>3, Zenon DEF Inv, Awaiting, ReceptionHasState, Ready
    <3> QED BY <3>1, <3>2, Zenon
  <2>6. Listed' = Listed /\ AllDifferent' = AllDifferent
    BY <2>1, Zenon DEF Listed, AllDifferent
  <2>7. ASSUME Alone PROVE Alone'
    BY <1>2, <2>1, <2>2, <2>3, <2>6, <2>7, Zenon DEF Alone
  <2> QED BY <1>2, <2>4, <2>5, <2>7, SameSetting, Zenon DEF Inv
<1> QED
  BY <1>4, <1>5, <1>6, <1>7, Zenon DEF lsr_break

-----------------------------------------------------------------------------
(* Octets.                                                                 *)

\* pc16c550_handle_irq announces octets that are in the fifo.
LEMMA IrqRxInv == ASSUME Inv, irq_rx PROVE Inv'
<1>0. TypeOK /\ reading = NULL
  BY Zenon DEF Inv, Types, Main, irq_rx
<1>1. /\ Main /\ rxfifo # << >> /\ notify' = notify \ {"RXAVAILABLE"}
      /\ UNCHANGED << tx, rx, lock, timer, thread, ier, baud, txbusy, wire, frames, sizes, failed >>
  BY Zenon DEF irq_rx
<1>2. /\ tx' = tx /\ rx' = rx /\ lock' = lock /\ timer' = timer /\ due' = due
      /\ timeout' = timeout /\ ier' = ier /\ baud' = baud /\ txbusy' = txbusy
      /\ used' = used /\ received' = received /\ sizes' = sizes /\ failed' = failed
      /\ scenario' = scenario /\ incoming' = incoming
  BY <1>1, Zenon DEF thread, wire, frames
<1>3. \/ /\ rxfifo' = << >> /\ state' = state /\ reading' = reading
      \/ /\ state' = state /\ rxfifo' = rxfifo /\ reading' = reading
      \/ /\ state \notin TxStates /\ rx.frame = NULL /\ state' = "IDLE"
         /\ rxfifo' = << >> /\ reading' = reading
      \/ /\ state \notin TxStates /\ rx.frame # NULL
         /\ reading' = IF Len(rxfifo) >= Trigger THEN Trigger ELSE 1
         /\ state' = state /\ rxfifo' = rxfifo
  BY Zenon DEF irq_rx
<1>4. /\ rxfifo' \in LineType /\ Len(rxfifo') <= FifoSize
  <2>1. << >> \in LineType /\ Len(<< >>) = 0
    BY DEF LineType
  <2> QED BY <1>0, <1>3, <2>1, Sizes DEF TypeOK
<1>5. /\ reading' \in {NULL, 1, Trigger} /\ (reading' # NULL => reading' <= Len(rxfifo'))
  <2>1. Len(rxfifo) \in Nat /\ Len(rxfifo) >= 1
    BY <1>0, <1>1 DEF TypeOK, LineType
  <2>2. CASE reading' = reading
    BY <1>0, <2>2, Zenon
  <2>3. CASE /\ reading' = IF Len(rxfifo) >= Trigger THEN Trigger ELSE 1
             /\ rxfifo' = rxfifo
    BY <2>1, <2>3, Sizes, Zenon
  <2> QED BY <1>3, <2>2, <2>3, Zenon
<1>6. Types'
  <2>1. state' \in RxStates \union TxStates \union {"IDLE"}
    BY <1>0, <1>3, Zenon DEF TypeOK
  <2>2. notify' \subseteq Notifications
    BY <1>0, <1>1, Zenon DEF TypeOK
  <2> QED BY <1>0, <1>2, <1>4, <1>5, <2>1, <2>2, SameSetting, Zenon DEF Types, TypeOK
<1>7. state' = state \/ (state' = "IDLE" /\ rx.frame = NULL /\ state \notin TxStates)
  BY <1>3, Zenon
<1>8. Awaiting' /\ ReceptionHasState' /\ Counting' /\ Ready'
  <2>1. "IDLE" \notin ReplyStates
    BY Zenon DEF ReplyStates, DiscStates
  <2>2. Counting'
    BY <1>2, SameCounts, Zenon
  <2>3. Awaiting'
    BY <1>2, <1>7, <2>1, Zenon DEF Inv, Awaiting
  <2>4. ReceptionHasState'
    BY <1>2, <1>7, Zenon DEF Inv, ReceptionHasState
  <2>5. Ready'
    BY <1>1, <1>7, Zenon DEF Inv, Ready, TxStates
  <2> QED BY <2>2, <2>3, <2>4, <2>5, Zenon
<1>9. Listed' = Listed /\ AllDifferent' = AllDifferent
  BY <1>2, Zenon DEF Listed, AllDifferent
<1>10. ASSUME Alone, ~Race PROVE Alone'
  <2>1. timeout' = NULL
    BY <1>1, <1>2, <1>10, MainAlone, Zenon
  <2>2. reading' # NULL => rx'.frame # NULL
    BY <1>0, <1>2, <1>3, Zenon
  <2>3. /\ state' \in TxStates => tx'.frame # NULL
        /\ "TXREADY" \in notify' => state' = "TRANSMIT_DATA"
        /\ baud' = "break" => state' = "TRANSMIT_BREAK"
    BY <1>1, <1>2, <1>7, <1>10, Zenon DEF Alone, TxStates
  <2>4. Owned(used', tx'.frame, rx'.frame, Listed') /\ AllDifferent'
    BY <1>2, <1>9, <1>10, Zenon DEF Alone
  <2> QED BY <2>1, <2>2, <2>3, <2>4, Zenon DEF Alone
<1> QED
  BY <1>2, <1>6, <1>8, <1>10, SameSetting, Zenon DEF Inv

\* The octets end the reception: the port is idle, and its frames are listed or
\* given back.
LEMMA EndsInv ==
  ASSUME Inv, reading # NULL, reading' = NULL, rx.frame # NULL,
         UNCHANGED << thread, baud, txbusy, wire, failed >>,
         rxfifo' \in LineType, Len(rxfifo') <= FifoSize,
         tx' = NoTx, rx' \in RxType, rx'.frame = NULL, state' = "IDLE", timer' \in BOOLEAN,
         notify' \subseteq Notifications, ier' \subseteq Notifications \ {"TXEMPTY"},
         "TXREADY" \in notify' => "TXREADY" \in notify,
         lock' \in LockType, sizes' \in Seq(Nat), Counting',
         received' \in Seq(HandedType), used' \subseteq Entries,
         Alone => Owned(used', NULL, NULL, Listed') /\ AllDifferent'
  PROVE  Inv'
<1>0. TypeOK
  BY Zenon DEF Inv, Types
<1>1. /\ due' = due /\ timeout' = timeout /\ baud' = baud /\ txbusy' = txbusy
      /\ failed' = failed /\ scenario' = scenario /\ incoming' = incoming
  BY Zenon DEF thread, wire
<1>2. state \in RxStates
  BY Zenon DEF Inv, ReceptionHasState
<1>3. tx' \in TxType /\ tx'.frame = NULL
  BY NoTxTyped, Zenon
<1>4. Types'
  BY <1>0, <1>1, <1>3, SameSetting, Zenon DEF Types, TypeOK
<1>5. "TXREADY" \notin notify'
  BY <1>2, Zenon DEF Inv, Ready, RxStates
<1>6. Awaiting' /\ ReceptionHasState' /\ Ready'
  BY <1>3, <1>5, Zenon DEF Awaiting, ReceptionHasState, Ready
<1>7. ASSUME Alone PROVE Alone'
  <2>1. timeout' = NULL /\ baud' # "break"
    BY <1>1, <1>2, <1>7, Zenon DEF Alone, RxStates
  <2>2. state' \notin TxStates
    BY Zenon DEF TxStates
  <2> QED BY <1>3, <1>5, <1>7, <2>1, <2>2, Zenon DEF Alone
<1> QED
  BY <1>1, <1>4, <1>6, <1>7, SameSetting, Zenon DEF Inv

\* The octets do not end it: the frame stays, and so does a timer that runs.
LEMMA GoesOnInv ==
  ASSUME Inv, reading # NULL, reading' = NULL, rx.frame # NULL,
         UNCHANGED << thread, baud, txbusy, wire, failed >>,
         rxfifo' \in LineType, Len(rxfifo') <= FifoSize,
         tx' = tx, rx' \in RxType, rx'.frame = rx.frame,
         state' \in RxStates \ {"EXPECT_RDM_FRAME"},
         state' \in DiscStates =>
           state \in DiscStates /\ rx'.rdm = rx.rdm /\ rx'.disc = rx.disc,
         state' \in ReplyStates => state \in ReplyStates,
         timer' \in BOOLEAN, timer => timer',
         notify' \subseteq Notifications, ier' \subseteq Notifications \ {"TXEMPTY"},
         "TXREADY" \in notify' => "TXREADY" \in notify,
         UNCHANGED << lock, sizes, frames >>
  PROVE  Inv'
<1>0. TypeOK
  BY Zenon DEF Inv, Types
<1>1. /\ due' = due /\ timeout' = timeout /\ baud' = baud /\ txbusy' = txbusy
      /\ failed' = failed /\ scenario' = scenario /\ incoming' = incoming
      /\ lock' = lock /\ sizes' = sizes /\ used' = used /\ received' = received
  BY Zenon DEF thread, wire, frames
<1>2. state \in RxStates
  BY Zenon DEF Inv, ReceptionHasState
<1>3. Types'
  BY <1>0, <1>1, SameSetting, Zenon DEF Types, TypeOK
<1>4. "TXREADY" \notin notify'
  BY <1>2, Zenon DEF Inv, Ready, RxStates
<1>5. Awaiting'
  BY <1>1, Zenon DEF Inv, Awaiting
<1>6. ReceptionHasState' /\ Counting' /\ Ready'
  <2>1. Counting'
    BY <1>1, <1>4, SameCounts, Zenon
  <2>2. ReceptionHasState' /\ Ready'
    BY <1>1, <1>4, Zenon DEF Inv, ReceptionHasState, Ready
  <2> QED BY <2>1, <2>2, Zenon
<1>7. Listed' = Listed /\ AllDifferent' = AllDifferent
  BY <1>1, Zenon DEF Listed, AllDifferent
<1>8. ASSUME Alone PROVE Alone'
  <2>1. timeout' = NULL /\ baud' # "break"
    BY <1>1, <1>2, <1>8, Zenon DEF Alone, RxStates
  <2>2. state' \notin TxStates
    BY Zenon DEF TxStates, RxStates
  <2>3. Owned(used', tx'.frame, rx'.frame, Listed') /\ AllDifferent'
    BY <1>1, <1>7, <1>8, Zenon DEF Alone
  <2> QED BY <1>4, <2>1, <2>2, <2>3, Zenon DEF Alone
<1> QED
  BY <1>1, <1>3, <1>5, <1>6, <1>8, SameSetting, Zenon DEF Inv

\* What receiver_data_available is about to read.
LEMMA ReadingFacts ==
  ASSUME Inv, reading # NULL
  PROVE  /\ reading \in Nat /\ reading > 0 /\ reading <= Len(rxfifo)
         /\ rx.expected \in Nat /\ rx.buf \in Seq(Octets) /\ Len(rx.buf) \in Nat
         /\ rxfifo \in LineType /\ Len(rxfifo) <= FifoSize /\ Len(rxfifo) \in Nat
         /\ ToRead \in Int /\ ToRead <= reading
<1>1. /\ reading \in {1, Trigger} /\ reading <= Len(rxfifo) /\ rx \in RxType
      /\ rxfifo \in LineType /\ Len(rxfifo) <= FifoSize
  BY Zenon DEF Inv, Types, TypeOK
<1>2. reading \in Nat /\ reading > 0
  BY <1>1, Sizes
<1>3. rx.expected \in Nat /\ rx.buf \in Seq(Octets)
  BY <1>1, Zenon DEF RxType
<1>4. Len(rx.buf) \in Nat /\ Len(rxfifo) \in Nat
  BY <1>1, <1>3 DEF LineType
<1> DEFINE l == Len(rx.buf)
           x == rx.expected
<1>5. ToRead = IF l + reading < x + 1 THEN reading ELSE x + 1 - l
  BY Zenon DEF ToRead
<1>6. l \in Nat /\ x \in Nat
  BY <1>3, <1>4, Zenon
<1> HIDE DEF l, x
<1>7. ToRead \in Int /\ ToRead <= reading
  BY <1>2, <1>5, <1>6
<1> QED
  BY <1>1, <1>2, <1>3, <1>4, <1>7, Zenon

\* The octets are enabled again while the frame is not complete.
LEMMA AgainFacts ==
  ASSUME TypeOK, Enable(notify, {"RXAVAILABLE"})
  PROVE  /\ notify' \subseteq Notifications /\ ier' \subseteq Notifications \ {"TXEMPTY"}
         /\ "TXREADY" \in notify' => "TXREADY" \in notify
<1>1. /\ notify \subseteq Notifications /\ ier \subseteq Notifications \ {"TXEMPTY"}
      /\ {"RXAVAILABLE"} \subseteq Notifications
  BY Zenon DEF TypeOK, Notifications
<1>2. /\ notify' = notify \union {"RXAVAILABLE"} /\ notify' \subseteq Notifications
      /\ ier' \subseteq Notifications \ {"TXEMPTY"}
  BY <1>1, EnableTyped, Zenon
<1> QED
  BY <1>2, Zenon

\* The frame has all its octets, and is the answer to the request if there is one.
LEMMA CompleteInv ==
  ASSUME Inv, reading # NULL, reading' = NULL, rx.frame # NULL,
         UNCHANGED << thread, baud, txbusy, wire, failed >>,
         rxfifo' \in LineType, Len(rxfifo') <= FifoSize, timer' \in BOOLEAN,
         NEW r \in RxType, r.frame = rx.frame, frame_complete(r)
  PROVE  Inv'
<1>0. TypeOK
  BY Zenon DEF Inv, Types
<1>1. /\ Checkout(r) /\ Receive(Frame(r)) /\ rx' = NoFrame(r) /\ used' = used \ {tx.frame}
      /\ tx' = NoTx /\ state' = "IDLE" /\ notify' = notify /\ ier' = ier
  BY Zenon DEF frame_complete, Gone
<1>2. lock' \in LockType /\ sizes' \in Seq(Nat) /\ Counting'
  BY <1>0, <1>1, CheckoutCounts, Zenon DEF TypeOK, Inv
<1>3. /\ received' \in Seq(HandedType)
      /\ Listed' = Listed \union ({rx.frame} \ {NULL})
      /\ AllDifferent /\ rx.frame \notin Listed => AllDifferent'
  BY <1>0, <1>1, FrameTyped, ReceiveLists, Zenon DEF TypeOK
<1>4. rx' \in RxType /\ rx'.frame = NULL
  BY <1>1, NoFrameTyped, Zenon
<1>5. used' \subseteq Entries /\ notify' \subseteq Notifications
      /\ ier' \subseteq Notifications \ {"TXEMPTY"}
  BY <1>0, <1>1, Zenon DEF TypeOK
<1>6. ASSUME Alone
      PROVE  Owned(used', NULL, NULL, Listed') /\ AllDifferent'
  <2>1. NULL \notin Listed
    BY <1>0, ListedEntries, Zenon DEF TypeOK
  <2>2. rx.frame \notin Listed /\ AllDifferent /\ Owned(used, tx.frame, rx.frame, Listed)
    BY <1>6, Zenon DEF Alone, Owned
  <2>3. /\ Owned(used, tx.frame, NULL, Listed \union ({rx.frame} \ {NULL}))
        /\ NULL \notin Listed \union ({rx.frame} \ {NULL})
    BY <2>1, <2>2, OwnHand, Zenon
  <2>4. Owned(used \ {tx.frame}, NULL, NULL, Listed \union ({rx.frame} \ {NULL}))
    BY <2>3, OwnSent, Zenon
  <2> QED BY <1>1, <1>3, <2>2, <2>4, Zenon
<1> QED
  BY <1>1, <1>2, <1>3, <1>4, <1>5, <1>6, EndsInv, Zenon

\* dmx512rtuart_receiver_data_available reads octets of a frame.
LEMMA ReadFrameInv ==
  ASSUME Inv, reading # NULL, reading' = NULL, rx.frame # NULL,
         UNCHANGED << thread, baud, txbusy, wire >>, read_frame
  PROVE  Inv'
<1>0. TypeOK
  BY Zenon DEF Inv, Types
<1> DEFINE start == Len(rx.buf)
           buf == rx.buf \o Chars(ToRead)
           r == CheckReceived(rx, buf, start)
           complete == Len(buf) >= rx.expected + 1
<1>1. /\ state \in {"EXPECT_STARTCODE", "RECEIVE_DMXDATA", "RECEIVE_RDMDATA"}
      /\ ToRead > 0 /\ failed' = failed
      /\ rxfifo' = IF reading > ToRead THEN << >> ELSE Drop(ToRead)
      /\ timer' = ((timer \/ LengthKnown(rx, buf, start))
                     /\ ~(complete /\ tx.frame # NULL /\ tx.kind # "dmx"))
      /\ (complete /\ frame_complete(r)) \/ (~complete /\ frame_continues(r))
  BY Zenon DEF read_frame
<1>2. ToRead \in Nat /\ ToRead <= Len(rxfifo) /\ rxfifo \in LineType
      /\ Len(rxfifo) <= FifoSize /\ Len(rxfifo) \in Nat
      /\ rx.buf \in Seq(Octets) /\ start \in Nat
  BY <1>1, ReadingFacts
<1>3. rxfifo' \in LineType /\ Len(rxfifo') <= FifoSize
  <2>1. Drop(ToRead) \in LineType /\ Len(Drop(ToRead)) <= Len(rxfifo)
    BY <1>2, DropTyped, Zenon
  <2>2. << >> \in LineType /\ Len(<< >>) = 0
    BY DEF LineType
  <2>3. Len(Drop(ToRead)) <= FifoSize
    <3>1. Len(Drop(ToRead)) \in Nat
      BY <2>1 DEF LineType
    <3> QED BY <1>2, <2>1, <3>1, Sizes
  <2> QED BY <1>1, <2>1, <2>2, <2>3, Sizes
<1>4. buf \in Seq(Octets)
  <2>1. Chars(ToRead) \in Seq(Octets)
    BY <1>2, CharsAreOctets, Zenon
  <2> QED BY <1>2, <2>1, ConcatProperties, Zenon
<1> HIDE DEF buf, start
<1>5. r \in RxType /\ r.frame = rx.frame
  <2>1. rx \in RxType /\ lock \in LockType
    BY <1>0, Zenon DEF TypeOK
  <2> QED BY <1>2, <1>4, <2>1, CheckKeepsFrame, Zenon
<1> HIDE DEF r, complete
<1>6. timer' \in BOOLEAN
  BY <1>1, Zenon
<1>7. CASE complete /\ frame_complete(r)
  <2>1. UNCHANGED << thread, baud, txbusy, wire, failed >>
    BY <1>1, Zenon
  <2> QED BY <1>3, <1>5, <1>6, <1>7, <2>1, CompleteInv, Zenon
<1>8. CASE ~complete /\ frame_continues(r)
  <2>1. /\ rx' = r /\ tx' = tx /\ Enable(notify, {"RXAVAILABLE"})
        /\ state' = IF state = "RECEIVE_RDMDATA" THEN state ELSE "RECEIVE_DMXDATA"
        /\ UNCHANGED << lock, sizes, frames >>
    BY <1>8, Zenon DEF frame_continues
  <2>2. /\ notify' \subseteq Notifications /\ ier' \subseteq Notifications \ {"TXEMPTY"}
        /\ "TXREADY" \in notify' => "TXREADY" \in notify
    BY <1>0, <2>1, AgainFacts, Zenon
  <2>3. timer => timer'
    BY <1>1, <1>8, Zenon
  <2>4. /\ state' \in RxStates \ {"EXPECT_RDM_FRAME"} /\ state' \notin DiscStates
        /\ state' \in ReplyStates => state \in ReplyStates
    BY <2>1, Zenon DEF RxStates, DiscStates, ReplyStates
  <2>5. rx' \in RxType /\ rx'.frame = rx.frame
    BY <1>5, <2>1, Zenon
  <2>6. UNCHANGED << thread, baud, txbusy, wire, failed >>
    BY <1>1, Zenon
  <2> QED BY <1>3, <1>6, <2>1, <2>2, <2>3, <2>4, <2>5, <2>6, GoesOnInv, Zenon
<1> QED
  BY <1>1, <1>7, <1>8, Zenon

\* ... finds that it has them all ...
LEMMA ReadNothingInv ==
  ASSUME Inv, reading # NULL, reading' = NULL, rx.frame # NULL,
         UNCHANGED << thread, baud, txbusy, wire >>, read_nothing
  PROVE  Inv'
<1>0. TypeOK
  BY Zenon DEF Inv, Types
<1>1. /\ state \in {"EXPECT_STARTCODE", "RECEIVE_DMXDATA", "RECEIVE_RDMDATA"}
      /\ state' = IF state = "RECEIVE_RDMDATA" THEN state ELSE "RECEIVE_DMXDATA"
      /\ rxfifo' = << >> /\ tx' = tx /\ rx' = rx /\ timer' = timer /\ notify' = notify
      /\ ier' = ier
      /\ UNCHANGED << lock, sizes, frames >>
      /\ UNCHANGED << thread, baud, txbusy, wire, failed >>
  BY Zenon DEF read_nothing
<1>2. rxfifo' \in LineType /\ Len(rxfifo') <= FifoSize
  <2>1. << >> \in LineType /\ Len(<< >>) = 0
    BY DEF LineType
  <2> QED BY <1>1, <2>1, Sizes
<1>3. /\ state' \in RxStates \ {"EXPECT_RDM_FRAME"} /\ state' \notin DiscStates
      /\ state' \in ReplyStates => state \in ReplyStates
  BY <1>1, Zenon DEF RxStates, DiscStates, ReplyStates
<1>4. /\ rx' \in RxType /\ rx'.frame = rx.frame /\ timer' \in BOOLEAN /\ (timer => timer')
      /\ notify' \subseteq Notifications /\ ier' \subseteq Notifications \ {"TXEMPTY"}
      /\ "TXREADY" \in notify' => "TXREADY" \in notify
  BY <1>0, <1>1, Zenon DEF TypeOK
<1> QED
  BY <1>1, <1>2, <1>3, <1>4, GoesOnInv, Zenon

\* ... or reads octets of a discovery reply.  A damaged one makes the request the
\* answer.
LEMMA CollisionInv ==
  ASSUME Inv, reading # NULL, reading' = NULL, rx.frame # NULL,
         UNCHANGED << thread, baud, txbusy, wire, failed >>, UNCHANGED << lock, sizes >>,
         rxfifo' \in LineType, Len(rxfifo') <= FifoSize, answer_collision,
         notify' \subseteq Notifications, ier' \subseteq Notifications \ {"TXEMPTY"},
         "TXREADY" \in notify' => "TXREADY" \in notify
  PROVE  Inv'
<1>0. TypeOK
  BY Zenon DEF Inv, Types
<1>1. /\ timer' = FALSE /\ Receive(Answer("collision")) /\ tx' = NoTx /\ rx' = NoFrame(rx)
      /\ used' = used \ {rx.frame} /\ state' = "IDLE"
  BY Zenon DEF answer_collision, Gone
<1>2. lock' \in LockType /\ sizes' \in Seq(Nat) /\ Counting'
  BY <1>0, Zenon DEF TypeOK, Inv, Counting
<1>3. Answer("collision") \in FrameType /\ Answer("collision").frame = tx.frame
  <2>1. tx.frame \in EntriesOrNone
    BY <1>0, Zenon DEF TypeOK, TxType
  <2> QED BY <2>1, Zenon DEF Answer, FrameType, Answers
<1>4. /\ received' \in Seq(HandedType)
      /\ Listed' = Listed \union ({tx.frame} \ {NULL})
      /\ AllDifferent /\ tx.frame \notin Listed => AllDifferent'
  BY <1>0, <1>1, <1>3, ReceiveLists, Zenon DEF TypeOK
<1>5. rx' \in RxType /\ rx'.frame = NULL /\ used' \subseteq Entries
  BY <1>0, <1>1, NoFrameTyped, Zenon DEF TypeOK
<1>6. ASSUME Alone
      PROVE  Owned(used', NULL, NULL, Listed') /\ AllDifferent'
  <2>1. NULL \notin Listed
    BY <1>0, ListedEntries, Zenon DEF TypeOK
  <2>2. tx.frame \notin Listed /\ AllDifferent /\ Owned(used, tx.frame, rx.frame, Listed)
    BY <1>6, Zenon DEF Alone, Owned
  <2>3. Owned(used \ {rx.frame}, tx.frame, NULL, Listed)
    BY <2>1, <2>2, OwnDropped, Zenon
  <2>4. Owned(used \ {rx.frame}, NULL, NULL, Listed \union ({tx.frame} \ {NULL}))
    BY <2>1, <2>3, OwnAnswer, Zenon
  <2> QED BY <1>1, <1>4, <2>2, <2>4, Zenon
<1> QED
  BY <1>1, <1>2, <1>4, <1>5, <1>6, EndsInv, Zenon

\* The frame that is handed over as the reply.
LEMMA ReplyTyped ==
  ASSUME rx \in RxType
  PROVE  /\ [Frame(rx) EXCEPT !.what = "reply", !.size = 0] \in FrameType
         /\ [Frame(rx) EXCEPT !.what = "reply", !.size = 0].frame = rx.frame
<1> DEFINE f == Frame(rx)
           g == [f EXCEPT !.what = "reply"]
<1>1. f \in FrameType /\ f.frame = rx.frame
  BY FrameTyped, Zenon
<1> HIDE DEF f
<1>2. g \in FrameType /\ g.frame = rx.frame
  BY <1>1, Zenon DEF FrameType
<1> HIDE DEF g
<1>3. [g EXCEPT !.size = 0] \in FrameType /\ [g EXCEPT !.size = 0].frame = rx.frame
  BY <1>2, Zenon DEF FrameType
<1>4. [g EXCEPT !.size = 0] = [f EXCEPT !.what = "reply", !.size = 0]
  BY Zenon DEF g
<1> QED
  BY <1>3, <1>4, Zenon DEF f

\* One that is not damaged is the answer, and the request is given back.
LEMMA ReplyInv ==
  ASSUME Inv, reading # NULL, reading' = NULL, rx.frame # NULL,
         UNCHANGED << thread, baud, txbusy, wire, failed >>, UNCHANGED << lock, sizes >>,
         rxfifo' \in LineType, Len(rxfifo') <= FifoSize, answer_reply,
         UNCHANGED << notify, ier >>
  PROVE  Inv'
<1>0. TypeOK
  BY Zenon DEF Inv, Types
<1>1. /\ timer' = FALSE /\ Receive([Frame(rx) EXCEPT !.what = "reply", !.size = 0])
      /\ tx' = NoTx /\ rx' = NoFrame(rx) /\ used' = used \ {tx.frame} /\ state' = "IDLE"
      /\ notify' = notify /\ ier' = ier
  BY Zenon DEF answer_reply, Gone
<1>2. lock' \in LockType /\ sizes' \in Seq(Nat) /\ Counting'
  BY <1>0, Zenon DEF TypeOK, Inv, Counting
<1>3. /\ received' \in Seq(HandedType)
      /\ Listed' = Listed \union ({rx.frame} \ {NULL})
      /\ AllDifferent /\ rx.frame \notin Listed => AllDifferent'
  <2>1. rx \in RxType /\ received \in Seq(HandedType)
    BY <1>0, Zenon DEF TypeOK
  <2> DEFINE f == [Frame(rx) EXCEPT !.what = "reply", !.size = 0]
  <2>2. f \in FrameType /\ f.frame = rx.frame /\ Receive(f)
    BY <1>1, <2>1, ReplyTyped, Zenon
  <2> HIDE DEF f
  <2> QED BY <2>1, <2>2, ReceiveLists, Zenon
<1>4. /\ rx' \in RxType /\ rx'.frame = NULL /\ used' \subseteq Entries
      /\ notify' \subseteq Notifications /\ ier' \subseteq Notifications \ {"TXEMPTY"}
  BY <1>0, <1>1, NoFrameTyped, Zenon DEF TypeOK
<1>5. ASSUME Alone
      PROVE  Owned(used', NULL, NULL, Listed') /\ AllDifferent'
  <2>1. NULL \notin Listed
    BY <1>0, ListedEntries, Zenon DEF TypeOK
  <2>2. rx.frame \notin Listed /\ AllDifferent /\ Owned(used, tx.frame, rx.frame, Listed)
    BY <1>5, Zenon DEF Alone, Owned
  <2>3. /\ Owned(used, tx.frame, NULL, Listed \union ({rx.frame} \ {NULL}))
        /\ NULL \notin Listed \union ({rx.frame} \ {NULL})
    BY <2>1, <2>2, OwnHand, Zenon
  <2>4. Owned(used \ {tx.frame}, NULL, NULL, Listed \union ({rx.frame} \ {NULL}))
    BY <2>3, OwnSent, Zenon
  <2> QED BY <1>1, <1>3, <2>2, <2>4, Zenon
<1> QED
  BY <1>1, <1>2, <1>3, <1>4, <1>5, EndsInv, Zenon

\* Octets after the preamble.
LEMMA DiscoveryDataInv ==
  ASSUME Inv, reading # NULL, reading' = NULL, rx.frame # NULL, state \in DiscStates,
         UNCHANGED << thread, baud, txbusy, wire, failed >>, UNCHANGED << lock, sizes >>,
         rxfifo' \in LineType, Len(rxfifo') <= FifoSize,
         NEW n \in Nat, NEW buf \in Seq(Octets), discovery_data(n, buf)
  PROVE  Inv'
<1>0. TypeOK
  BY Zenon DEF Inv, Types
<1>1. \/ answer_reply /\ UNCHANGED << notify, ier >>
      \/ answer_collision /\ UNCHANGED << notify, ier >>
      \/ /\ rx' = [rx EXCEPT !.buf = buf, !.expected = n]
         /\ state' = "RDMDISC_RECV_DATA"
         /\ timer' = (timer \/ state = "RDMDISC_RECV_PREAMBLE")
         /\ Enable(notify, {"RXAVAILABLE"})
         /\ UNCHANGED << tx, frames >>
  BY Zenon DEF discovery_data
<1>2. CASE answer_reply /\ UNCHANGED << notify, ier >>
  BY <1>2, ReplyInv, Zenon
<1>3. CASE answer_collision /\ UNCHANGED << notify, ier >>
  <2>1. /\ notify' \subseteq Notifications /\ ier' \subseteq Notifications \ {"TXEMPTY"}
        /\ "TXREADY" \in notify' => "TXREADY" \in notify
    BY <1>0, <1>3, Zenon DEF TypeOK
  <2> QED BY <1>3, <2>1, CollisionInv, Zenon
<1>4. CASE /\ rx' = [rx EXCEPT !.buf = buf, !.expected = n]
           /\ state' = "RDMDISC_RECV_DATA"
           /\ timer' = (timer \/ state = "RDMDISC_RECV_PREAMBLE")
           /\ Enable(notify, {"RXAVAILABLE"})
           /\ UNCHANGED << tx, frames >>
  <2>1. /\ rx' \in RxType /\ rx'.frame = rx.frame /\ rx'.rdm = rx.rdm /\ rx'.disc = rx.disc
    <3> DEFINE g == [rx EXCEPT !.buf = buf]
    <3>1. g \in RxType /\ g.frame = rx.frame /\ g.rdm = rx.rdm /\ g.disc = rx.disc
      BY <1>0, Zenon DEF TypeOK, RxType
    <3>2. rx' = [g EXCEPT !.expected = n]
      BY <1>4, Zenon
    <3> HIDE DEF g
    <3> QED BY <3>1, <3>2, Zenon DEF RxType
  <2>2. /\ notify' \subseteq Notifications /\ ier' \subseteq Notifications \ {"TXEMPTY"}
        /\ "TXREADY" \in notify' => "TXREADY" \in notify
    BY <1>0, <1>4, AgainFacts, Zenon
  <2>3. timer' \in BOOLEAN /\ (timer => timer')
    BY <1>4, Zenon
  <2>4. /\ state' \in RxStates \ {"EXPECT_RDM_FRAME"}
        /\ state' \in ReplyStates => state \in ReplyStates
    BY <1>4, Zenon DEF RxStates, DiscStates, ReplyStates
  <2>5. tx' = tx /\ UNCHANGED << lock, sizes, frames >>
    BY <1>4, Zenon
  <2> QED BY <2>1, <2>2, <2>3, <2>4, <2>5, GoesOnInv, Zenon
<1> QED
  BY <1>1, <1>2, <1>3, <1>4, Zenon

\* Octets of the preamble.
LEMMA PreambleInv ==
  ASSUME Inv, reading # NULL, reading' = NULL, rx.frame # NULL,
         state = "RDMDISC_RECV_PREAMBLE",
         UNCHANGED << thread, baud, txbusy, wire, failed >>, UNCHANGED << lock, sizes >>,
         rxfifo' \in LineType, Len(rxfifo') <= FifoSize,
         NEW octets \in Seq(Octets), discovery_preamble(octets)
  PROVE  Inv'
<1>0. TypeOK /\ rx.buf \in Seq(Octets) /\ state \in DiscStates
  BY Zenon DEF Inv, Types, TypeOK, RxType, DiscStates
<1>1. rx.buf \o octets \in Seq(Octets)
  BY <1>0, ConcatProperties, Zenon
<1> DEFINE p == PreambleLength(octets)
<1>2. p \in Nat
  <2>1. p \in 0 .. Len(octets)
    BY PreambleInside, Zenon
  <2> QED BY <2>1
<1>3. \/ /\ timer' = TRUE
         /\ rx' = [rx EXCEPT !.buf = @ \o octets]
         /\ Enable(notify, {"RXAVAILABLE"})
         /\ UNCHANGED << state, tx, frames >>
      \/ answer_collision /\ Enable(notify, {"RXAVAILABLE"})
      \/ discovery_data(Len(rx.buf) + p + DiscOctets, rx.buf \o octets)
  BY Zenon DEF discovery_preamble
<1> HIDE DEF p
<1>4. CASE /\ timer' = TRUE
           /\ rx' = [rx EXCEPT !.buf = @ \o octets]
           /\ Enable(notify, {"RXAVAILABLE"})
           /\ UNCHANGED << state, tx, frames >>
  <2>1. /\ rx' \in RxType /\ rx'.frame = rx.frame /\ rx'.rdm = rx.rdm /\ rx'.disc = rx.disc
    BY <1>0, <1>1, <1>4, Zenon DEF TypeOK, RxType
  <2>2. /\ notify' \subseteq Notifications /\ ier' \subseteq Notifications \ {"TXEMPTY"}
        /\ "TXREADY" \in notify' => "TXREADY" \in notify
    BY <1>0, <1>4, AgainFacts, Zenon
  <2>3. /\ state' \in RxStates \ {"EXPECT_RDM_FRAME"} /\ state' = state /\ tx' = tx
        /\ timer' \in BOOLEAN /\ (timer => timer') /\ UNCHANGED << lock, sizes, frames >>
    BY <1>4, Zenon DEF RxStates
  <2> QED BY <1>0, <2>1, <2>2, <2>3, GoesOnInv, Zenon
<1>5. CASE answer_collision /\ Enable(notify, {"RXAVAILABLE"})
  BY <1>0, <1>5, AgainFacts, CollisionInv, Zenon
<1>6. CASE discovery_data(Len(rx.buf) + p + DiscOctets, rx.buf \o octets)
  <2>1. Len(rx.buf) + p + DiscOctets \in Nat
    <3>1. Len(rx.buf) \in Nat
      BY <1>0
    <3> QED BY <1>2, <3>1, Sizes
  <2> QED BY <1>0, <1>1, <1>6, <2>1, DiscoveryDataInv, Zenon
<1> QED
  BY <1>3, <1>4, <1>5, <1>6, Zenon

\* dmx512rtuart_receiver_data_available, for a discovery reply.
LEMMA ReadDiscoveryInv ==
  ASSUME Inv, reading # NULL, reading' = NULL, rx.frame # NULL,
         UNCHANGED << thread, baud, txbusy, wire >>, read_discovery
  PROVE  Inv'
<1>1. /\ rxfifo' = Drop(reading) /\ UNCHANGED << lock, sizes >>
      /\ UNCHANGED << thread, baud, txbusy, wire, failed >>
  BY Zenon DEF read_discovery
<1>2. /\ reading \in Nat /\ reading <= Len(rxfifo) /\ rxfifo \in LineType
      /\ Len(rxfifo) <= FifoSize /\ Len(rxfifo) \in Nat
      /\ rx.expected \in Nat /\ rx.buf \in Seq(Octets)
  BY ReadingFacts, Zenon
<1>3. rxfifo' \in LineType /\ Len(rxfifo') <= FifoSize
  <2>1. rxfifo' \in LineType /\ Len(rxfifo') <= Len(rxfifo)
    BY <1>1, <1>2, DropTyped, Zenon
  <2>2. Len(rxfifo') \in Nat
    BY <2>1 DEF LineType
  <2> QED BY <1>2, <2>1, <2>2, Sizes
<1>4. Chars(reading) \in Seq(Octets)
  BY <1>2, CharsAreOctets, Zenon
<1>5. rx.buf \o Chars(reading) \in Seq(Octets)
  BY <1>2, <1>4, ConcatProperties, Zenon
<1>6. CASE state = "RDMDISC_RECV_PREAMBLE" /\ discovery_preamble(Chars(reading))
  BY <1>1, <1>3, <1>4, <1>6, PreambleInv, Zenon
<1>7. CASE /\ state = "RDMDISC_RECV_DATA"
           /\ discovery_data(rx.expected, rx.buf \o Chars(reading))
  <2>1. state \in DiscStates
    BY <1>7, Zenon DEF DiscStates
  <2> QED BY <1>1, <1>2, <1>3, <1>5, <1>7, <2>1, DiscoveryDataInv, Zenon
<1> QED
  BY <1>6, <1>7, Zenon DEF read_discovery

\* The program reports a failure and does no more.
LEMMA FailInv ==
  ASSUME Inv, reading' = NULL, no_data_buffer \/ reads_too_much,
         UNCHANGED << port, notify, ier, rxfifo, frames, sizes >>,
         UNCHANGED << thread, baud, txbusy, wire >>
  PROVE  Inv'
<1>1. /\ state' = state /\ tx' = tx /\ rx' = rx /\ lock' = lock /\ timer' = timer
      /\ due' = due /\ timeout' = timeout /\ notify' = notify /\ baud' = baud /\ ier' = ier
      /\ used' = used /\ received' = received /\ sizes' = sizes /\ rxfifo' = rxfifo
      /\ txbusy' = txbusy /\ scenario' = scenario /\ incoming' = incoming
  BY Zenon DEF port, thread, frames, wire
<1>2. failed' \in {"nullwrite", "nobuffer", "overrun"}
  BY Zenon DEF no_data_buffer, reads_too_much
<1>3. Types'
  BY <1>1, <1>2, SameSetting, Zenon DEF Inv, Types, TypeOK
<1>4. Awaiting' /\ ReceptionHasState' /\ Counting' /\ Ready'
  <2>1. Counting'
    BY <1>1, SameCounts, Zenon
  <2>2. Awaiting' /\ ReceptionHasState' /\ Ready'
    BY <1>1, Zenon DEF Inv, Awaiting, ReceptionHasState, Ready
  <2> QED BY <2>1, <2>2, Zenon
<1>5. Listed' = Listed /\ AllDifferent' = AllDifferent
  BY <1>1, Zenon DEF Listed, AllDifferent
<1>6. Alone => Alone'
  BY <1>1, <1>5, Zenon DEF Alone
<1> QED
  BY <1>1, <1>3, <1>4, <1>6, SameSetting, Zenon DEF Inv

\* The second half of dmx512rtuart_receiver_data_available.
LEMMA ReceiverInv == ASSUME Inv, receiver_data_available PROVE Inv'
<1>1. reading # NULL /\ reading' = NULL /\ UNCHANGED << thread, baud, txbusy, wire >>
  BY Zenon DEF receiver_data_available
<1>2. CASE rx.frame # NULL /\ read_frame
  BY <1>1, <1>2, ReadFrameInv, Zenon
<1>3. CASE rx.frame # NULL /\ read_nothing
  BY <1>1, <1>3, ReadNothingInv, Zenon
<1>4. CASE rx.frame # NULL /\ read_discovery
  BY <1>1, <1>4, ReadDiscoveryInv, Zenon
<1>5. CASE /\ no_data_buffer \/ reads_too_much
           /\ UNCHANGED << port, notify, ier, rxfifo, frames, sizes >>
  BY <1>1, <1>5, FailInv, Zenon
<1> QED
  BY <1>2, <1>3, <1>4, <1>5, Zenon DEF receiver_data_available

-----------------------------------------------------------------------------
(* The port.                                                               *)

\* Every step keeps the invariant.
LEMMA NextInv == ASSUME Inv, [Next]_vars PROVE Inv'
<1>1. CASE Hardware
  BY <1>1, HardwareInv
<1>2. CASE MainThread
  BY <1>2, SendInv, ThrInv, TxEmptyInv, LsrBreakInv, IrqRxInv, ReceiverInv, DoneInv, FetchInv, Zenon
     DEF MainThread
<1>3. CASE TimerThread
  BY <1>3, ExpiresInv, HandleInv, TakesInv, AnswersInv, Zenon DEF TimerThread
<1>4. CASE UNCHANGED vars
  <2>1. /\ UNCHANGED << port, thread, notify, baud, frames, reading, sizes, scenario >>
        /\ UNCHANGED << state, tx, rx, lock, timer, due, timeout, notify, ier, baud, txbusy >>
        /\ UNCHANGED << rxfifo, incoming, scenario, used, received, reading, sizes, failed >>
    BY <1>4, Zenon DEF vars, port, thread, uart, wire, frames
  <2>2. Types'
    BY <2>1, SameSetting, Zenon DEF Inv, Types, TypeOK
  <2> QED BY <2>1, <2>2, Quiet, Zenon
<1> QED
  BY <1>1, <1>2, <1>3, <1>4, Zenon DEF Next

\* The lock has counted as many frames as it needs, all of one size.
LEMMA LockedSizes == ASSUME Inv PROVE LockNeedsRepeats
<1>1. /\ lock \in LockType /\ sizes \in Seq(Nat) /\ RequiredCount \in Nat \ {0}
  BY Sizes, Zenon DEF Inv, Types, TypeOK
<1>2. SUFFICES ASSUME lock.locked
               PROVE  /\ Len(sizes) = RequiredCount
                      /\ \A i \in DOMAIN sizes : sizes[i] = lock.slots
  BY Zenon DEF LockNeedsRepeats
<1>3. lock.frames = RequiredCount /\ Len(sizes) = RequiredCount
  <2>1. lock.frames = RequiredCount /\ Len(sizes) <= RequiredCount /\ lock.frames <= Len(sizes)
    BY <1>2, Zenon DEF Inv, Counting
  <2>2. Len(sizes) \in Nat
    BY <1>1
  <2> QED BY <1>1, <2>1, <2>2
<1>4. ASSUME NEW i \in DOMAIN sizes
      PROVE  sizes[i] = lock.slots
  <2> DEFINE k == RequiredCount - i
  <2>1. i \in 1 .. RequiredCount
    BY <1>1, <1>3
  <2>2. k \in 0 .. lock.frames - 1 /\ Len(sizes) - k = i
    BY <1>1, <1>3, <2>1
  <2>3. \A n \in 0 .. lock.frames - 1 : sizes[Len(sizes) - n] = lock.slots
    BY Zenon DEF Inv, Counting
  <2> HIDE DEF k
  <2> QED BY <2>2, <2>3, Zenon
<1> QED
  BY <1>3, <1>4, Zenon

\* The invariant says what the port promises.
LEMMA InvConsistent == ASSUME Inv PROVE PortConsistent
<1>1. TypeOK /\ ReceptionHasState /\ LockNeedsRepeats
  BY LockedSizes, Zenon DEF Inv, Types
<1>2. AwaitedReplyHasTimer
  BY Zenon DEF Inv, Awaiting, AwaitedReplyHasTimer
<1>3. EntryOwnership
  <2>1. CASE Race
    BY <2>1, Zenon DEF EntryOwnership
  <2>2. CASE ~Race
    <3>1. Owned(used, tx.frame, rx.frame, Listed) /\ AllDifferent
      BY <2>2, Zenon DEF Inv, Alone
    <3> QED BY <3>1, Zenon DEF EntryOwnership, Owned, Listed, AllDifferent
  <2> QED BY <2>1, <2>2, Zenon
<1> QED
  BY <1>1, <1>2, <1>3, Zenon DEF PortConsistent

\* For any traffic and any number of timer threads: no path through the callbacks
\* and the timer handler of dmx512_rtuart.c forgets, frees too early or hands over
\* twice an entry (EntryOwnership), leaves a wait for a reply without a timer
\* (AwaitedReplyHasTimer), has a frame in reception in a state that does not read
\* octets (ReceptionHasState), or locks the slot count before the last frames had
\* that many slots (LockNeedsRepeats).
THEOREM PortStaysConsistent == Spec => []PortConsistent
<1>1. Init => Inv
  BY InitInv, Zenon
<1>2. Inv /\ [Next]_vars => Inv'
  BY NextInv, Zenon
<1>3. Inv => PortConsistent
  BY InvConsistent, Zenon
<1> QED
  BY <1>1, <1>2, <1>3, PTL DEF Spec

-----------------------------------------------------------------------------
(* What is sent.                                                           *)

\* What a step does to the frame that is sent: RequestsAnswered and
\* DataAtFullSpeed of one step.
Answered ==
  tx.frame # NULL /\ tx.kind # "dmx" /\ tx'.frame = NULL =>
    \/ Len(received') = Len(received) + 1
    \/ used = Entries
FullSpeed == ~Race /\ tx'.frame = tx.frame /\ tx'.remain # tx.remain => baud = "data"

\* The baud rate is the one for the break in one state.
LEMMA SpeedOfState ==
  ASSUME Inv, ~Race, state # "TRANSMIT_BREAK"
  PROVE  baud = "data"
<1>1. baud \in {"data", "break"}
  BY Zenon DEF Inv, Types, TypeOK
<1> QED
  BY <1>1, Zenon DEF Inv, Alone

\* dmx512_rtuart_client_send_frame puts a frame where none was.
LEMMA SendsNew == ASSUME Inv, send_frame PROVE Answered /\ FullSpeed
<1>1. tx.frame = NULL
  BY Zenon DEF send_frame
<1>2. \E kind \in Kinds, e \in Entries \ used :
        tx' = [frame |-> e, kind |-> kind, remain |-> TxOctets]
  BY Zenon DEF send_frame
<1>3. tx'.frame # NULL
  BY <1>2, NoNullEntry
<1> QED
  BY <1>1, <1>3, Zenon DEF Answered, FullSpeed

\* dmx512rtuart_transmitter_has_space keeps the frame.
LEMMA ThrKeeps == ASSUME Inv, irq_thr_empty PROVE Answered /\ FullSpeed
<1>1. tx \in TxType
  BY Zenon DEF Inv, Types, TypeOK
<1>2. "TXREADY" \in notify
  BY Zenon DEF irq_thr_empty
<1>3. tx' = tx \/ tx' = [tx EXCEPT !.remain = @ - Min({tx.remain, TxChunk})]
  BY Zenon DEF irq_thr_empty
<1>4. tx'.frame = tx.frame
  BY <1>1, <1>3, Zenon DEF TxType
<1>5. ~Race => baud = "data"
  <2>1. ~Race => state = "TRANSMIT_DATA"
    BY <1>2, Zenon DEF Inv, Alone
  <2> QED BY <2>1, SpeedOfState, Zenon
<1> QED
  BY <1>4, <1>5, Zenon DEF Answered, FullSpeed

\* dmx512rtuart_transmitter_empty drops a frame that expects no reply.
LEMMA EmptyDrops == ASSUME Inv, lsr_tx_empty PROVE Answered /\ FullSpeed
<1>1. \/ tx' = tx
      \/ state = "WAIT_FOR_TX_COMPLETE" /\ expect_nothing(notify \ {"TXEMPTY"})
  BY Zenon DEF lsr_tx_empty, break_sent, expect_discovery_reply, expect_reply
<1>2. CASE tx' = tx
  BY <1>2, Zenon DEF Answered, FullSpeed
<1>3. CASE state = "WAIT_FOR_TX_COMPLETE" /\ expect_nothing(notify \ {"TXEMPTY"})
  <2>1. tx.kind = "dmx" \/ used = Entries
    BY <1>3, Zenon DEF expect_nothing
  <2>2. ~Race => baud = "data"
    BY <1>3, SpeedOfState, Zenon
  <2> QED BY <2>1, <2>2, Zenon DEF Answered, FullSpeed
<1> QED
  BY <1>1, <1>2, <1>3, Zenon

\* dmx512rtuart_receiver_data_available drops the request when it hands over the
\* reply, or the request itself when the reply is damaged.
LEMMA ReceiverHands == ASSUME Inv, receiver_data_available PROVE Answered /\ FullSpeed
<1>0. rx \in RxType /\ tx \in TxType /\ lock \in LockType /\ received \in Seq(HandedType)
  BY Zenon DEF Inv, Types, TypeOK
<1>1. reading # NULL
  BY Zenon DEF receiver_data_available
<1>2. CASE tx' = tx
  BY <1>2, Zenon DEF Answered, FullSpeed
<1>3. CASE rx.frame # NULL /\ Len(received') = Len(received) + 1
  <2>1. state # "TRANSMIT_BREAK"
    BY <1>3, Zenon DEF Inv, ReceptionHasState, RxStates
  <2>2. ~Race => baud = "data"
    BY <2>1, SpeedOfState, Zenon
  <2> QED BY <1>3, <2>2, Zenon DEF Answered, FullSpeed
<1>4. CASE rx.frame # NULL /\ read_frame
  <2> DEFINE start == Len(rx.buf)
             buf == rx.buf \o Chars(ToRead)
             r == CheckReceived(rx, buf, start)
  <2>1. ToRead > 0 /\ (frame_complete(r) \/ frame_continues(r))
    BY <1>4, Zenon DEF read_frame
  <2>2. r \in RxType /\ r.frame = rx.frame
    <3>1. ToRead \in Nat /\ ToRead <= Len(rxfifo) /\ rxfifo \in LineType
          /\ rx.buf \in Seq(Octets) /\ start \in Nat
      BY <1>1, <2>1, ReadingFacts
    <3>2. buf \in Seq(Octets)
      <4>1. Chars(ToRead) \in Seq(Octets)
        BY <3>1, CharsAreOctets, Zenon
      <4> QED BY <3>1, <4>1, ConcatProperties, Zenon
    <3> HIDE DEF buf, start
    <3> QED BY <1>0, <3>1, <3>2, CheckKeepsFrame, Zenon
  <2> HIDE DEF r
  <2>3. CASE frame_continues(r)
    BY <1>2, <2>3, Zenon DEF frame_continues
  <2>4. CASE frame_complete(r)
    <3>1. Receive(Frame(r))
      BY <2>4, Zenon DEF frame_complete
    <3>2. Frame(r) \in FrameType /\ Frame(r).frame # NULL
      BY <1>4, <2>2, FrameTyped, Zenon
    <3>3. Len(received') = Len(received) + 1
      BY <1>0, <3>1, <3>2, ReceiveLists, Zenon
    <3> QED BY <1>3, <1>4, <3>3, Zenon
  <2> QED BY <2>1, <2>3, <2>4, Zenon
<1>5. CASE rx.frame # NULL /\ read_discovery
  <2>1. answer_reply \/ answer_collision \/ tx' = tx
    <3>1. ASSUME NEW n, NEW buf, discovery_data(n, buf)
          PROVE  answer_reply \/ answer_collision \/ tx' = tx
      BY <3>1, Zenon DEF discovery_data
    <3>2. ASSUME discovery_preamble(Chars(reading))
          PROVE  answer_reply \/ answer_collision \/ tx' = tx
      BY <3>1, <3>2, Zenon DEF discovery_preamble
    <3> QED BY <1>5, <3>1, <3>2, Zenon DEF read_discovery
  <2>2. CASE answer_reply
    <3> DEFINE f == [Frame(rx) EXCEPT !.what = "reply", !.size = 0]
    <3>1. f \in FrameType /\ f.frame = rx.frame /\ Receive(f)
      BY <1>0, <2>2, ReplyTyped, Zenon DEF answer_reply
    <3> HIDE DEF f
    <3>2. Len(received') = Len(received) + 1
      BY <1>0, <1>5, <3>1, ReceiveLists
    <3> QED BY <1>3, <1>5, <3>2, Zenon
  <2>3. CASE answer_collision
    <3>1. Receive(Answer("collision"))
      BY <2>3, Zenon DEF answer_collision
    <3>2. Answer("collision") \in FrameType /\ Answer("collision").frame = tx.frame
      BY <1>0, Zenon DEF Answer, FrameType, Answers, TxType
    <3>3. tx.frame # NULL => Len(received') = Len(received) + 1
      BY <1>0, <3>1, <3>2, ReceiveLists, Zenon
    <3>4. Answered
      BY <3>3, Zenon DEF Answered
    <3>5. state # "TRANSMIT_BREAK"
      BY <1>5, Zenon DEF read_discovery
    <3>6. FullSpeed
      BY <3>5, SpeedOfState, Zenon DEF FullSpeed
    <3> QED BY <3>4, <3>6, Zenon
  <2> QED BY <1>2, <2>1, <2>2, <2>3, Zenon
<1>6. CASE (rx.frame # NULL /\ read_nothing) \/ UNCHANGED << port, notify, ier, rxfifo, frames, sizes >>
  BY <1>2, <1>6, Zenon DEF read_nothing, port
<1> QED
  BY <1>4, <1>5, <1>6, Zenon DEF receiver_data_available

\* dmx512rtuart_handle_rdm_timeout drops the request when it is the answer.
LEMMA TimeoutHands == ASSUME Inv, timeout_answers PROVE Answered /\ FullSpeed
<1> DEFINE f == [frame |-> timeout.frame, what |-> timeout.what, size |-> 0]
<1>1. /\ timeout # NULL /\ Receive(f)
      /\ tx' = IF timeout.frame = NULL THEN tx ELSE NoTx
  BY Zenon DEF timeout_answers
<1>2. timeout \in TimeoutType /\ received \in Seq(HandedType)
  BY <1>1, Zenon DEF Inv, Types, TypeOK
<1>3. f \in FrameType /\ f.frame = timeout.frame
  BY <1>2, Zenon DEF TimeoutType, FrameType
<1> HIDE DEF f
<1>4. timeout.frame # NULL => Len(received') = Len(received) + 1
  BY <1>1, <1>2, <1>3, ReceiveLists, Zenon
<1>5. ~Race => baud = "data"
  <2>1. ~Race => state \in ReplyStates
    BY <1>1, Zenon DEF Inv, Alone
  <2>2. ~Race => state # "TRANSMIT_BREAK"
    BY <2>1, Zenon DEF ReplyStates, DiscStates
  <2> QED BY <2>2, SpeedOfState, Zenon
<1> QED
  BY <1>1, <1>4, <1>5, Zenon DEF Answered, FullSpeed

\* No other step changes what is sent.
LEMMA SendingStep == ASSUME Inv, [Next]_vars PROVE Answered /\ FullSpeed
<1>1. CASE tx' = tx
  BY <1>1 DEF Answered, FullSpeed
<1>2. CASE Hardware
  BY <1>1, <1>2, Zenon DEF Hardware, wire_starts, octet_arrives, transmitter_drains, port
<1>3. CASE MainThread
  <2>1. lsr_break \/ irq_rx \/ irq_done \/ fetch_received => tx' = tx
    BY Zenon DEF lsr_break, irq_rx, irq_done, fetch_received, port
  <2> QED BY <1>1, <1>3, <2>1, SendsNew, ThrKeeps, EmptyDrops, ReceiverHands, Zenon DEF MainThread
<1>4. CASE TimerThread
  <2>1. timer_expires \/ handle_rdm_timeout \/ timeout_takes_request => tx' = tx
    BY Zenon DEF timer_expires, handle_rdm_timeout, timeout_takes_request, port
  <2> QED BY <1>1, <1>4, <2>1, TimeoutHands, Zenon DEF TimerThread
<1>5. CASE UNCHANGED vars
  BY <1>1, <1>5, Zenon DEF vars, port
<1> QED
  BY <1>2, <1>3, <1>4, <1>5, Zenon DEF Next

\* However the timer thread and the main thread interleave, an RDM request leaves
\* the port only in a step that hands a frame to the receiver, or when there is no
\* memory for the reply to a discovery request.
THEOREM RequestsAreAnswered == Spec => RequestsAnswered
<1>1. Init => Inv
  BY InitInv, Zenon
<1>2. Inv /\ [Next]_vars => Inv'
  BY NextInv, Zenon
<1>3. Inv /\ [Next]_vars => [Answered]_vars
  BY SendingStep, Zenon
<1>4. Spec => [][Answered]_vars
  BY <1>1, <1>2, <1>3, PTL DEF Spec
<1> QED
  BY <1>4, Zenon DEF RequestsAnswered, Answered

\* Without interleaving, no octet of a frame is written at the baud rate of the
\* break.
THEOREM OctetsAtFullSpeed == Spec => DataAtFullSpeed
<1>1. Init => Inv
  BY InitInv, Zenon
<1>2. Inv /\ [Next]_vars => Inv'
  BY NextInv, Zenon
<1>3. Inv /\ [Next]_vars => [FullSpeed]_vars
  BY SendingStep, Zenon
<1>4. Spec => [][FullSpeed]_vars
  BY <1>1, <1>2, <1>3, PTL DEF Spec
<1> QED
  BY <1>4, Zenon DEF DataAtFullSpeed, FullSpeed

=============================================================================
