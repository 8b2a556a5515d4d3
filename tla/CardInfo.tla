------------------------------ MODULE CardInfo ------------------------------
(***************************************************************************)
(* The information ioctls of the CUSE core (dmx512_cuse_dev.c) and their   *)
(* handlers in the card drivers: query and change of the names of a card   *)
(* and of its ports.  A name travels in key/value tuples whose number only *)
(* the client knows, so an ioctl takes several rounds: the server answers  *)
(* "retry" with the pieces of the client's memory it wants, and the kernel *)
(* repeats the request with those pieces.  Each round is one handler call  *)
(* of the single server thread; rounds of different clients interleave.    *)
(***************************************************************************)
EXTENDS Integers, Sequences, FiniteSetsExt, Functions

CONSTANTS
  Boards,   \* the drivers of this instance: loop, llgip, uart, pwm, suart
  Threads,  \* client threads, each with an open file of the card
  Ports,    \* port numbers that clients ask for
  NumPorts, \* num_ports of the loop and the llgip card
  Names,    \* values that clients write
  Requests, \* the requests that clients make
  MaxCalls, \* bound: ioctls of all clients
  NULL

Keys == {"NONE", "MANUFACTURER", "PRODUCT", "SERIAL_NUMBER", "CUSTOMER_NAME",
         "PORT_LABEL"}
CardNo == 0     \* cc->cardno
Fixed == "fixed" \* a string constant of the driver

Values == Names \union {"", "customer label", Fixed}
Tuples == [key : Keys, value : Values, changable : BOOLEAN]

ASSUME PortAssumption == Ports \subseteq Nat /\ NumPorts \in Nat

\* A client passes a pointer to tuples, which a query may leave NULL.
ASSUME RequestAssumption ==
  \A r \in Requests :
    /\ r = [cmd |-> r.cmd, card |-> r.card, port |-> r.port, tuples |-> r.tuples]
    /\ r.cmd \in {"query_card", "query_port", "change_card", "change_port",
                  "version", "unknown"}
    /\ r.port \in Ports
    /\ r.tuples \in {NULL} \union Seq(Tuples)
    /\ r.cmd \in {"change_card", "change_port"} => r.tuples # NULL

VARIABLES
  board,          \* the driver of the card
  customer_name,  \* its fields in the driver's card structure
  port_labels,
  call,           \* call[t]: the ioctl in progress, with its rounds, or NULL
  reply,          \* reply[t]: what t's last ioctl returned, or NULL
  seen,           \* ghost: names that were current during t's ioctl
  calls           \* ioctls made, for the bound

names == << customer_name, port_labels >>
vars == << board, names, call, reply, seen, calls >>

Init ==
  /\ board \in Boards
  /\ customer_name = "customer label"
  /\ port_labels = [p \in Ports |-> Fixed]
  /\ call = [t \in Threads |-> NULL]
  /\ reply = [t \in Threads |-> NULL]
  /\ seen = [t \in Threads |-> {}]
  /\ calls = 0

-----------------------------------------------------------------------------
(* The card drivers.  A request is [cmd, card, port, tuples], its tuples    *)
(* NULL or a sequence of [key, value, changable].                           *)

\* The ioctl of t returns.
Return(t, answer) ==
  /\ reply' = [reply EXCEPT ![t] = answer]
  /\ call' = [call EXCEPT ![t] = NULL]

Refuse(t) == Return(t, [ok |-> FALSE, cmd |-> call[t].req.cmd])
Answer(t, ts, count, ports) ==
  Return(t, [ok |-> TRUE, cmd |-> call[t].req.cmd, port |-> call[t].req.port,
             asked |-> call[t].req.tuples, tuples |-> ts, count |-> count,
             ports |-> ports])

\* supported_card_tuples
SupportedByLoop == << "MANUFACTURER", "PRODUCT", "SERIAL_NUMBER", "CUSTOMER_NAME" >>
SupportedByOthers == << "MANUFACTURER", "PRODUCT", "SERIAL_NUMBER" >>

\* The first loop of a queryCardInfo: tuples without a key get the keys of
\* the driver's table, read past its end when there are more tuples.
WithKeys(supported, ts) ==
  {ks \in [DOMAIN ts -> Keys] :
     \A i \in DOMAIN ts :
       /\ ts[i].key # "NONE" => ks[i] = ts[i].key
       /\ ts[i].key = "NONE" /\ i <= Len(supported) => ks[i] = supported[i]}

\* The second loop: a value for as many tuples as the table has keys.
Answered(supported, key, tuple, i) ==
  CASE i > Len(supported) -> [tuple EXCEPT !.key = key]
    [] i <= Len(supported) /\ key = "CUSTOMER_NAME" /\ key \in Range(supported) ->
         [key |-> key, value |-> customer_name, changable |-> TRUE]
    [] i <= Len(supported) /\ key # "CUSTOMER_NAME" /\ key \in Range(supported) ->
         [tuple EXCEPT !.key = key, !.value = Fixed]
    [] OTHER -> [tuple EXCEPT !.key = key, !.value = ""]

QueryCard(t, supported, ports) ==
  LET ts == call[t].req.tuples
  IN  /\ IF ts = NULL THEN Answer(t, NULL, Len(supported), ports)
         ELSE \E ks \in WithKeys(supported, ts) :
                Answer(t, [i \in DOMAIN ts |-> Answered(supported, ks[i], ts[i], i)],
                       Len(ts), ports)
      /\ UNCHANGED names

testdmx_queryCardInfo(t) == QueryCard(t, SupportedByLoop, NumPorts)
dmxllgip_queryCardInfo(t) == QueryCard(t, SupportedByOthers, NumPorts)
uartdmx_queryCardInfo(t) == QueryCard(t, SupportedByOthers, 1)
pwmdmx_queryCardInfo(t) == QueryCard(t, SupportedByOthers, 1)
suartdmx_queryCardInfo(t) == QueryCard(t, SupportedByOthers, 1)

\* Mutant of QueryPort: the label of the first port for every port, as a
\* card with a single port_label would answer.
QueryPortFirst(t, ports, changable) ==
  LET ts == call[t].req.tuples
      p == call[t].req.port
  IN  /\ CASE p >= ports -> Refuse(t)
           [] p < ports /\ (ts = NULL \/ ts = << >>) -> Answer(t, ts, 1, p)
           [] OTHER -> Answer(t, << [key |-> "PORT_LABEL", value |-> port_labels[0],
                                     changable |-> changable] >>, 1, p)
      /\ UNCHANGED names

\* queryPortInfo: the first tuple without a key becomes the label, and a key
\* the driver does not know comes back as NONE.
QueryPort(t, ports, changable) ==
  LET ts == call[t].req.tuples
      p == call[t].req.port
      Label(i) == IF ts[i].key = "PORT_LABEL" \/ (ts[i].key = "NONE" /\ i = 1)
                  THEN [key |-> "PORT_LABEL", value |-> port_labels[p],
                        changable |-> changable]
                  ELSE [ts[i] EXCEPT !.key = "NONE"]
  IN  /\ CASE p >= ports -> Refuse(t)
           [] p < ports /\ (ts = NULL \/ ts = << >>) -> Answer(t, ts, 1, p)
           [] OTHER -> Answer(t, [i \in DOMAIN ts |-> Label(i)], Len(ts), p)
      /\ UNCHANGED names

testdmx_queryPortInfo(t) == QueryPort(t, IF NumPorts < 16 THEN NumPorts ELSE 16, TRUE)
dmxllgip_queryPortInfo(t) == QueryPort(t, NumPorts, FALSE)
uartdmx_queryPortInfo(t) == QueryPort(t, 1, FALSE)
pwmdmx_queryPortInfo(t) == QueryPort(t, 1, FALSE)
suartdmx_queryPortInfo(t) == QueryPort(t, 1, FALSE)

\* The value of the last tuple with this key; the earlier ones are written
\* over.
Written(ts, key, old) ==
  LET found == {i \in DOMAIN ts : ts[i].key = key}
  IN  IF found = {} THEN old ELSE ts[Max(found)].value

\* Mutant of ChangeCard: the card index is looked at after the name is set.
ChangeCardFirst(t) ==
  /\ customer_name' = Written(call[t].req.tuples, "CUSTOMER_NAME", customer_name)
  /\ IF call[t].req.card = CardNo THEN Answer(t, NULL, 0, 0) ELSE Refuse(t)
  /\ UNCHANGED port_labels

\* changeCardInfo: of the names of a card only the customer name is kept.
ChangeCard(t) ==
  /\ IF call[t].req.card = CardNo
     THEN /\ customer_name' = Written(call[t].req.tuples, "CUSTOMER_NAME", customer_name)
          /\ Answer(t, NULL, 0, 0)
     ELSE Refuse(t) /\ UNCHANGED customer_name
  /\ UNCHANGED port_labels

testdmx_changeCardInfo(t) == ChangeCard(t)
dmxllgip_changeCardInfo(t) == ChangeCard(t)
uartdmx_changeCardInfo(t) == ChangeCard(t)
pwmdmx_changeCardInfo(t) == ChangeCard(t)
suartdmx_changeCardInfo(t) == ChangeCard(t)

\* changePortInfo: the label is written whether a query calls it changable
\* or not.
ChangePort(t, ports) ==
  LET p == call[t].req.port
  IN  /\ IF p < ports /\ call[t].req.card = CardNo
         THEN /\ port_labels' = [port_labels EXCEPT
                                   ![p] = Written(call[t].req.tuples, "PORT_LABEL", @)]
              /\ Answer(t, NULL, 0, 0)
         ELSE Refuse(t) /\ UNCHANGED port_labels
      /\ UNCHANGED customer_name

testdmx_changePortInfo(t) == ChangePort(t, IF NumPorts < 16 THEN NumPorts ELSE 16)
dmxllgip_changePortInfo(t) == ChangePort(t, NumPorts)
uartdmx_changePortInfo(t) == ChangePort(t, 1)
pwmdmx_changePortInfo(t) == ChangePort(t, 1)
suartdmx_changePortInfo(t) == ChangePort(t, 1)

-----------------------------------------------------------------------------
(* The CUSE core.  call[t].in counts the pieces of memory the kernel has   *)
(* copied in (the structure, then the tuples), call[t].out those it will   *)
(* copy back.                                                              *)

Retry(t, in, out) ==
  /\ call' = [call EXCEPT ![t].in = in, ![t].out = out]
  /\ UNCHANGED << names, reply >>

Pieces(t) == IF call[t].req.tuples = NULL THEN 1 ELSE 2

\* Mutant of QueryRound: the first round asks for the place of the answer
\* only, so that the structure is never copied in.
QueryRoundForgetsInput(t) ==
  call[t].in = 0 /\ Retry(t, 0, 0)

\* Both rounds of a query before it is carried out.
QueryRound(t) ==
  \/ call[t].in = 0 /\ Retry(t, 1, 0)
  \/ call[t].in > 0 /\ call[t].out = 0 /\ Retry(t, Pieces(t), Pieces(t))

dmx512_cuse_query_card_info(t) ==
  /\ call[t].req.cmd = "query_card"
  /\ \/ QueryRound(t)
     \/ /\ call[t].out > 0
        /\ \/ board = "loop" /\ testdmx_queryCardInfo(t)
           \/ board = "llgip" /\ dmxllgip_queryCardInfo(t)
           \/ board = "uart" /\ uartdmx_queryCardInfo(t)
           \/ board = "pwm" /\ pwmdmx_queryCardInfo(t)
           \/ board = "suart" /\ suartdmx_queryCardInfo(t)

dmx512_cuse_query_port_info(t) ==
  /\ call[t].req.cmd = "query_port"
  /\ \/ QueryRound(t)
     \/ /\ call[t].out > 0
        /\ \/ board = "loop" /\ testdmx_queryPortInfo(t)
           \/ board = "llgip" /\ dmxllgip_queryPortInfo(t)
           \/ board = "uart" /\ uartdmx_queryPortInfo(t)
           \/ board = "pwm" /\ pwmdmx_queryPortInfo(t)
           \/ board = "suart" /\ suartdmx_queryPortInfo(t)

\* A change without tuples needs no second round.
ChangeRound(t) ==
  \/ call[t].in = 0 /\ Retry(t, 1, 0)
  \/ call[t].in = 1 /\ call[t].req.tuples # << >> /\ Retry(t, 2, 0)

ChangeReady(t) ==
  call[t].in = 2 \/ (call[t].in = 1 /\ call[t].req.tuples = << >>)

dmx512_cuse_change_card_info(t) ==
  /\ call[t].req.cmd = "change_card"
  /\ \/ ChangeRound(t)
     \/ /\ ChangeReady(t)
        /\ \/ board = "loop" /\ testdmx_changeCardInfo(t)
           \/ board = "llgip" /\ dmxllgip_changeCardInfo(t)
           \/ board = "uart" /\ uartdmx_changeCardInfo(t)
           \/ board = "pwm" /\ pwmdmx_changeCardInfo(t)
           \/ board = "suart" /\ suartdmx_changeCardInfo(t)

dmx512_cuse_change_port_info(t) ==
  /\ call[t].req.cmd = "change_port"
  /\ \/ ChangeRound(t)
     \/ /\ ChangeReady(t)
        /\ \/ board = "loop" /\ testdmx_changePortInfo(t)
           \/ board = "llgip" /\ dmxllgip_changePortInfo(t)
           \/ board = "uart" /\ uartdmx_changePortInfo(t)
           \/ board = "pwm" /\ pwmdmx_changePortInfo(t)
           \/ board = "suart" /\ suartdmx_changePortInfo(t)

\* DMX512_IOCTL_VERSION: one round for the place the answer goes to.
IoctlVersion(t) ==
  /\ call[t].req.cmd = "version"
  /\ \/ call[t].out = 0 /\ Retry(t, 0, 1)
     \/ call[t].out = 1 /\ Answer(t, NULL, 0, 0) /\ UNCHANGED names

\* An ioctl the core does not know.
IoctlUnknown(t) == call[t].req.cmd = "unknown" /\ Refuse(t) /\ UNCHANGED names

dmx512_cuse_ioctl(t) ==
  /\ call[t] # NULL
  /\ \/ dmx512_cuse_query_card_info(t) \/ dmx512_cuse_change_card_info(t)
     \/ dmx512_cuse_query_port_info(t) \/ dmx512_cuse_change_port_info(t)
     \/ IoctlVersion(t) \/ IoctlUnknown(t)
  /\ seen' = [u \in Threads |-> IF call[u] = NULL THEN seen[u]
                                ELSE seen[u] \union {names'}]
  /\ UNCHANGED << board, calls >>

\* A client calls ioctl(2).
Ioctl(t, r) ==
  /\ call[t] = NULL /\ calls < MaxCalls
  /\ call' = [call EXCEPT ![t] = [req |-> r, in |-> 0, out |-> 0]]
  /\ reply' = [reply EXCEPT ![t] = NULL]
  /\ seen' = [seen EXCEPT ![t] = {names}]
  /\ calls' = calls + 1
  /\ UNCHANGED << board, names >>

Next ==
  \E t \in Threads : dmx512_cuse_ioctl(t) \/ \E r \in Requests : Ioctl(t, r)

Spec == Init /\ [][Next]_vars
FairSpec == Spec /\ \A t \in Threads : WF_vars(dmx512_cuse_ioctl(t))

-----------------------------------------------------------------------------
\* Names are names, and a call is between its rounds.
TypeOK ==
  /\ board \in Boards
  /\ customer_name \in Values
  /\ port_labels \in [Ports -> Values]
  /\ call \in [Threads -> {NULL} \union [req : Requests, in : 0..2, out : 0..2]]

\* The names in the answer r to a query are among the current ones.  Only the
\* loop driver has a customer name to show.
ShowsCurrent(r, current) ==
  r # NULL /\ r.ok /\ r.cmd \in {"query_card", "query_port"} /\ r.tuples # NULL =>
    \A i \in DOMAIN r.tuples :
      /\ r.cmd = "query_port" /\ r.tuples[i].key = "PORT_LABEL" =>
           \E n \in current : r.tuples[i].value = n[2][r.port]
      /\ r.cmd = "query_card" /\ r.tuples[i].key = "CUSTOMER_NAME"
           /\ board = "loop" /\ i <= Len(SupportedByLoop) =>
           \E n \in current : r.tuples[i].value = n[1]

\* A name that a query returns was the current one at some time between the
\* start of the ioctl and its end, through all its rounds.
QueryShowsCurrentName == \A t \in Threads : ShowsCurrent(reply[t], seen[t])

\* Names change only with a change ioctl that succeeds, and then the labels of
\* other ports and the names of the other kind stay: a change that is refused
\* leaves everything as it was.
ChangeIsSelective ==
  [][names' # names =>
       \E t \in Threads :
         /\ call[t] # NULL /\ call'[t] = NULL /\ reply'[t].ok
         /\ \/ call[t].req.cmd = "change_card" /\ port_labels' = port_labels
            \/ /\ call[t].req.cmd = "change_port" /\ customer_name' = customer_name
               /\ \A p \in Ports \ {call[t].req.port} : port_labels'[p] = port_labels[p]
    ]_vars

\* Every information ioctl returns after finitely many rounds.
EveryIoctlReturns == \A t \in Threads : call[t] # NULL ~> call[t] = NULL

\* "On query this means, that the tuple can be changed" (dmx512_ioctls.h): a
\* name that a query did not call changable is not changed.
UnchangableKept ==
  [][\A t \in Threads, p \in Ports :
       /\ reply[t] # NULL /\ reply[t].ok /\ reply[t].cmd = "query_port"
       /\ reply[t].port = p /\ reply[t].tuples \notin {NULL, << >>}
       /\ reply[t].tuples[1].key = "PORT_LABEL" /\ ~reply[t].tuples[1].changable
       => port_labels'[p] = port_labels[p]]_vars

\* "Set to 0 to read back the current number of tuples supplied by the card"
\* (dmx512_ioctls.h).
CountReadBack ==
  \A t \in Threads :
    reply[t] # NULL /\ reply[t].ok /\ reply[t].cmd = "query_card"
      /\ reply[t].asked = << >> => reply[t].count > 0

\* Names and the memory map of an ioctl stay what they may be, and queries show
\* current names, however the rounds of two clients' ioctls interleave.
NamesConsistent == TypeOK /\ QueryShowsCurrentName

=============================================================================
