------------------------------ MODULE DmxLink ------------------------------
(***************************************************************************)
(* What a pair of interconnected DMX cards promises: two FIFO channels.    *)
(* A frame written to a port of one card is queued for the readers of the  *)
(* other card, with the same port number and the same contents, behind     *)
(* every frame queued before it; a read takes the oldest frame.  Frames    *)
(* may be refused and a card may lose its backlog when it is removed, but  *)
(* no frame is invented, altered, duplicated, reordered or delivered to    *)
(* the card it was written to.                                             *)
(***************************************************************************)
EXTENDS Naturals, Sequences

CONSTANTS Threads, Messages, None

VARIABLES
  chan, \* chan[d]: the frames queued for the readers of card d
  out,  \* out[t]: the frame thread t is writing, with its card, if any
  in    \* in[t]: the frame thread t has taken but not returned yet, or None

vars == << chan, out, in >>

Cards == {0, 1}
Other(d) == 1 - d

Init ==
  /\ chan = [d \in Cards |-> << >>]
  /\ out = [t \in Threads |-> {}]
  /\ in = [t \in Threads |-> None]

Submit(t, d, m) ==
  /\ out[t] = {}
  /\ out' = [out EXCEPT ![t] = {[card |-> d, msg |-> m]}]
  /\ UNCHANGED << chan, in >>

Refuse(t) ==
  /\ out' = [out EXCEPT ![t] = {}]
  /\ UNCHANGED << chan, in >>

Deliver(t) ==
  /\ \E w \in out[t] :
       chan' = [chan EXCEPT ![Other(w.card)] = Append(@, w.msg)]
  /\ out' = [out EXCEPT ![t] = {}]
  /\ UNCHANGED in

Take(t, d) ==
  /\ chan[d] # << >>
  /\ in' = [in EXCEPT ![t] = Head(chan[d])]
  /\ chan' = [chan EXCEPT ![d] = Tail(@)]
  /\ UNCHANGED out

Return(t) ==
  /\ in' = [in EXCEPT ![t] = None]
  /\ UNCHANGED << chan, out >>

Flush(d) ==
  /\ chan' = [chan EXCEPT ![d] = << >>]
  /\ UNCHANGED << out, in >>

Next ==
  \/ \E t \in Threads :
       \/ \E d \in Cards, m \in Messages : Submit(t, d, m)
       \/ Refuse(t)
       \/ Deliver(t)
       \/ \E d \in Cards : Take(t, d)
       \/ Return(t)
  \/ \E d \in Cards : Flush(d)

Spec == Init /\ [][Next]_vars
=============================================================================
