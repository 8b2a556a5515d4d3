------------------------------ MODULE FrameTap ------------------------------
(***************************************************************************)
(* What an open file of a DMX card promises its readers: a mailbox.        *)
(* Frames that reach the file are kept in the order of their arrival.  A   *)
(* read takes the oldest one, or waits if there is none; a frame goes past *)
(* the mailbox, straight into a read that waits on it, only when it is     *)
(* empty.  So no reader ever sees two frames out of order, a frame twice,  *)
(* or a frame that was altered while it was kept.                          *)
(***************************************************************************)
EXTENDS Sequences

CONSTANTS Files, Threads, Messages, None

VARIABLES
  box,   \* box[h]: the frames kept for file h
  waits, \* waits[t]: the file on which a read of thread t waits, or None
  got    \* got[t]: the frame the last read of thread t returned, or None

vars == << box, waits, got >>

Init ==
  /\ box = [h \in Files |-> << >>]
  /\ waits = [t \in Threads |-> None]
  /\ got = [t \in Threads |-> None]

\* Thread t goes on waiting as before, or returns from its read on file h
\* without a frame.
MayGiveUp(t, h) == waits'[t] = waits[t] \/ (waits[t] = h /\ waits'[t] = None)

Keep(h) ==
  /\ UNCHANGED got
  /\ \A t \in Threads : MayGiveUp(t, h)
  /\ \E m \in Messages : box' = [box EXCEPT ![h] = Append(@, m)]

\* A frame answers the read of thread t.
Bypass(t) ==
  /\ waits[t] # None
  /\ UNCHANGED box
  /\ box[waits[t]] = << >>
  /\ \E m \in Messages : got' = [got EXCEPT ![t] = m]
  /\ waits' = [waits EXCEPT ![t] = None]

Take(t, h) ==
  /\ waits[t] = None
  /\ box[h] # << >>
  /\ UNCHANGED waits
  /\ got' = [got EXCEPT ![t] = Head(box[h])]
  /\ box' = [box EXCEPT ![h] = Tail(@)]

\* A read finds nothing: it returns, or waits in place of an earlier one.
\* What the thread got before no longer counts.
Miss(t, h) ==
  /\ waits[t] = None
  /\ UNCHANGED box
  /\ box[h] = << >>
  /\ got' = [got EXCEPT ![t] = None]
  /\ waits'[t] \in {None, h}
  /\ \A u \in Threads \ {t} : MayGiveUp(u, h)

\* Signals, or the end of the server.
Interrupt ==
  /\ UNCHANGED << box, got >>
  /\ \A t \in Threads : waits'[t] \in {waits[t], None}

Clear(h) ==
  /\ UNCHANGED << waits, got >>
  /\ box' = [box EXCEPT ![h] = << >>]

Next ==
  \/ Interrupt
  \/ \E h \in Files : Keep(h) \/ Clear(h)
  \/ \E t \in Threads : Bypass(t)
  \/ \E t \in Threads, h \in Files : Take(t, h) \/ Miss(t, h)

Spec == Init /\ [][Next]_vars
=============================================================================
