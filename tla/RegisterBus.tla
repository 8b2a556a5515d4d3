---------------------------- MODULE RegisterBus ----------------------------
(***************************************************************************)
(* What wbReadMemory and wbWriteMemory promise the driver: each access of  *)
(* a thread takes effect on the registers at one instant between the call  *)
(* and its return, and returns what that instant gave.                     *)
(***************************************************************************)
EXTENDS Naturals

CONSTANTS
  Threads,   \* threads that access registers
  Accesses,  \* the accesses they make
  Memories,  \* states of the register file
  Results,   \* what an access may return
  Effect(_, _), \* Effect(m, a): the registers after access a
  Value(_, _),  \* Value(m, a): what a returns
  Idle       \* no access

VARIABLES
  mem,       \* the register file
  access     \* access[t]: Idle, [call |-> a] or [ret |-> v]

vars == << mem, access >>

Init == mem \in Memories /\ access = [t \in Threads |-> Idle]

Call(t) ==
  /\ access[t] = Idle
  /\ access'[t] \in [call : Accesses]
  /\ access' = [access EXCEPT ![t] = access'[t]]
  /\ UNCHANGED mem

Serve(t) ==
  /\ access[t] \in [call : Accesses]
  /\ mem' = Effect(mem, access[t].call)
  /\ access' = [access EXCEPT ![t] = [ret |-> Value(mem, access[t].call)]]

Return(t) ==
  /\ access[t] \in [ret : Results]
  /\ access' = [access EXCEPT ![t] = Idle]
  /\ UNCHANGED mem

Next == \E t \in Threads : Call(t) \/ Serve(t) \/ Return(t)

Spec == Init /\ [][Next]_vars

=============================================================================
