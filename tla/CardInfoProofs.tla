--------------------------- MODULE CardInfoProofs ---------------------------
(***************************************************************************)
(* The information ioctls, for any number of clients, ports and requests.  *)
(*                                                                         *)
(* Every handler call is either a round that asks for more memory or the   *)
(* end of the ioctl.  What each of them does is put into one form, Proper, *)
(* from which both results follow: that a query shows names that were      *)
(* current while it ran, and that only a successful change changes a name. *)
(***************************************************************************)
EXTENDS CardInfo, WellFoundedInduction, TLAPS

Calls == [req : Requests, in : 0..2, out : 0..2]

Inv ==
  /\ TypeOK /\ QueryShowsCurrentName
  /\ reply = [t \in Threads |-> reply[t]] /\ seen = [t \in Threads |-> seen[t]]

\* Only the name that t's change is for may differ.
Selective(t) ==
  /\ call[t] # NULL /\ call'[t] = NULL /\ reply'[t].ok
  /\ \/ call[t].req.cmd = "change_card" /\ port_labels' = port_labels
     \/ /\ call[t].req.cmd = "change_port" /\ customer_name' = customer_name
        /\ \A p \in Ports \ {call[t].req.port} : port_labels'[p] = port_labels[p]

\* What a handler call for t may do.
Proper(t) ==
  /\ customer_name' \in Values /\ port_labels' \in [Ports -> Values]
  /\ call' \in [Threads -> {NULL} \union Calls]
  /\ \/ reply' = reply
     \/ \E a : reply' = [reply EXCEPT ![t] = a] /\ ShowsCurrent(a, {names'})
  /\ names' # names => Selective(t)

-----------------------------------------------------------------------------
\* A call in progress has a request of the clients.
LEMMA CallFacts ==
  ASSUME Inv, NEW t \in Threads, call[t] # NULL
  PROVE  /\ call[t] \in Calls /\ call[t].req \in Requests
         /\ call[t].req.port \in Ports
         /\ call[t].req.tuples \in {NULL} \union Seq(Tuples)
         /\ call[t].req.cmd \in {"change_card", "change_port"}
              => call[t].req.tuples \in Seq(Tuples)
         /\ customer_name \in Values /\ port_labels \in [Ports -> Values]
         /\ call \in [Threads -> {NULL} \union Calls]
         /\ reply = [u \in Threads |-> reply[u]]
<1>1. call \in [Threads -> {NULL} \union Calls] BY DEF Inv, TypeOK, Calls
<1>2. call[t] \in Calls /\ call[t].req \in Requests BY <1>1 DEF Calls
<1> QED BY <1>1, <1>2, RequestAssumption DEF Inv, TypeOK

\* A set of tuple indices has its greatest element as Max: the last tuple with
\* a key is the one that stays written (changeCardInfo, changePortInfo).
LEMMA MaxIndex ==
  ASSUME NEW n \in Nat, NEW S \in SUBSET (1..n), S # {}
  PROVE  Max(S) \in S
<1> DEFINE T == {n - i : i \in S}
<1>0. \A i \in S : i \in 1..n /\ n - i \in Nat OBVIOUS
<1>1. T \subseteq Nat /\ T # {} BY <1>0, Zenon
<1>2. IsWellFoundedOn(OpToRel(<, Nat), Nat) BY NatLessThanWellFounded, Zenon
<1>3. \E x \in T : \A y \in T : ~(<< y, x >> \in OpToRel(<, Nat)) BY <1>1, <1>2, WFMin, Zenon
<1>4. PICK x \in T : \A y \in T : ~(<< y, x >> \in {ss \in Nat \X Nat : ss[1] < ss[2]})
  BY <1>3 DEF OpToRel
<1>5. PICK i \in S : x = n - i OBVIOUS
<1>6. ASSUME NEW j \in S PROVE i >= j
  <2>1. n - j \in T /\ n - j \in Nat /\ x \in Nat /\ i \in Int /\ j \in Int OBVIOUS
  <2>2. ~(n - j < x)
    <3>1. << n - j, x >> \in Nat \X Nat /\ << n - j, x >>[1] = n - j /\ << n - j, x >>[2] = x
      BY <2>1
    <3> QED BY <1>4, <2>1, <3>1
  <2> QED BY <1>5, <2>1, <2>2
<1> QED BY <1>6, Zenon DEF Max

\* A change writes one of the values the client sent, or leaves the old one.
LEMMA WrittenValue ==
  ASSUME NEW ts \in Seq(Tuples), NEW key \in Keys, NEW old \in Values
  PROVE  Written(ts, key, old) \in Values
<1> DEFINE found == {i \in DOMAIN ts : ts[i].key = key}
<1>1. CASE found = {} BY <1>1 DEF Written
<1>2. CASE found # {}
  <2>1. Len(ts) \in Nat /\ found \in SUBSET (1..Len(ts)) OBVIOUS
  <2>2. Max(found) \in found BY <1>2, <2>1, MaxIndex, Zenon
  <2>3. ts[Max(found)] \in Tuples BY <2>1, <2>2
  <2>4. Written(ts, key, old) = ts[Max(found)].value BY <1>2 DEF Written
  <2> QED BY <2>3, <2>4 DEF Tuples
<1> QED BY <1>1, <1>2

\* The client is asked for more memory.
LEMMA RetryProper ==
  ASSUME Inv, NEW t \in Threads, call[t] # NULL, NEW in \in 0..2, NEW out \in 0..2,
         Retry(t, in, out)
  PROVE  Proper(t)
<1>1. call[t] \in Calls /\ call \in [Threads -> {NULL} \union Calls]
      /\ customer_name \in Values /\ port_labels \in [Ports -> Values]
  BY CallFacts
<1>2. /\ call' = [call EXCEPT ![t].in = in, ![t].out = out]
      /\ reply' = reply /\ customer_name' = customer_name /\ port_labels' = port_labels
      /\ names' = names
  BY DEF Retry, names
<1> DEFINE c == [call[t] EXCEPT !.in = in]
<1>3. c \in Calls BY <1>1 DEF Calls
<1> DEFINE d == [c EXCEPT !.out = out]
<1>4. d \in Calls BY <1>3, Zenon DEF Calls
<1>5. call' = [call EXCEPT ![t] = d] BY <1>1, <1>2, Zenon
<1> HIDE DEF d, c
<1>6. call' \in [Threads -> {NULL} \union Calls] BY <1>1, <1>4, <1>5
<1> QED BY <1>1, <1>2, <1>6 DEF Proper

\* The ioctl of t returns and no name changed.
LEMMA ReturnProper ==
  ASSUME Inv, NEW t \in Threads, call[t] # NULL, NEW a, Return(t, a),
         ShowsCurrent(a, {names}), UNCHANGED names
  PROVE  Proper(t)
<1>1. call \in [Threads -> {NULL} \union Calls]
      /\ customer_name \in Values /\ port_labels \in [Ports -> Values]
  BY CallFacts
<1>2. /\ reply' = [reply EXCEPT ![t] = a] /\ call' = [call EXCEPT ![t] = NULL]
      /\ names' = names /\ customer_name' = customer_name /\ port_labels' = port_labels
  BY DEF Return, names
<1>3. call' \in [Threads -> {NULL} \union Calls] BY <1>1, <1>2
<1>4. \E b : reply' = [reply EXCEPT ![t] = b] /\ ShowsCurrent(b, {names'}) BY <1>2, Zenon
<1> QED BY <1>1, <1>2, <1>3, <1>4, Zenon DEF Proper

\* An error shows nothing.
LEMMA RefuseProper ==
  ASSUME Inv, NEW t \in Threads, call[t] # NULL, Refuse(t), UNCHANGED names
  PROVE  Proper(t)
<1> DEFINE a == [ok |-> FALSE, cmd |-> call[t].req.cmd]
<1>1. ShowsCurrent(a, {names}) BY DEF ShowsCurrent
<1>2. Return(t, a) BY DEF Refuse
<1> HIDE DEF a
<1> QED BY <1>1, <1>2, ReturnProper

-----------------------------------------------------------------------------
(* The drivers.                                                            *)

\* The loop driver's table has the customer name.
LEMMA LoopHasCustomerName ==
  "CUSTOMER_NAME" \in Range(SupportedByLoop) /\ Len(SupportedByLoop) = 4
<1>1. 4 \in DOMAIN SupportedByLoop /\ SupportedByLoop[4] = "CUSTOMER_NAME"
      /\ Len(SupportedByLoop) = 4
  BY DEF SupportedByLoop
<1> QED BY <1>1 DEF Range

\* A tuple of a card query comes back with the key it got, and the loop
\* driver's customer name with its value.
LEMMA AnsweredTuple ==
  ASSUME NEW tuple \in Tuples, NEW key \in Keys, NEW i \in Nat,
         i <= Len(SupportedByLoop)
  PROVE  Answered(SupportedByLoop, key, tuple, i).key = "CUSTOMER_NAME" =>
           Answered(SupportedByLoop, key, tuple, i).value = customer_name
<1> DEFINE a == Answered(SupportedByLoop, key, tuple, i)
<1>0. Len(SupportedByLoop) = 4 BY LoopHasCustomerName
<1>1. CASE key = "CUSTOMER_NAME"
  <2>1. key \in Range(SupportedByLoop) BY <1>1, LoopHasCustomerName
  <2>2. a = [key |-> key, value |-> customer_name, changable |-> TRUE]
    BY <1>0, <1>1, <2>1 DEF Answered
  <2> QED BY <2>2
<1>2. CASE key # "CUSTOMER_NAME"
  <2>1. a = [[tuple EXCEPT !.key = key] EXCEPT !.value = Fixed]
        \/ a = [[tuple EXCEPT !.key = key] EXCEPT !.value = ""]
    BY <1>0, <1>2 DEF Answered
  <2>2. a.key = key BY <2>1, Zenon DEF Tuples
  <2> QED BY <1>2, <2>2
<1> QED BY <1>1, <1>2

\* queryCardInfo shows the current customer name.
LEMMA QueryCardProper ==
  ASSUME Inv, NEW t \in Threads, call[t] # NULL, call[t].req.cmd = "query_card",
         NEW supported, NEW ports, board = "loop" => supported = SupportedByLoop,
         QueryCard(t, supported, ports)
  PROVE  Proper(t)
<1> DEFINE ts == call[t].req.tuples
           A(tuples, count) ==
             [ok |-> TRUE, cmd |-> call[t].req.cmd, port |-> call[t].req.port,
              asked |-> call[t].req.tuples, tuples |-> tuples, count |-> count,
              ports |-> ports]
<1>0. ts \in {NULL} \union Seq(Tuples) BY CallFacts
<1>1. UNCHANGED names BY DEF QueryCard
<1>2. CASE ts = NULL
  <2>1. Return(t, A(NULL, Len(supported))) BY <1>2 DEF QueryCard, Answer
  <2>2. ShowsCurrent(A(NULL, Len(supported)), {names}) BY DEF ShowsCurrent
  <2> HIDE DEF A
  <2> QED BY <1>1, <2>1, <2>2, ReturnProper, Zenon
<1>3. CASE ts # NULL
  <2>1. PICK ks \in WithKeys(supported, ts) :
          Answer(t, [i \in DOMAIN ts |-> Answered(supported, ks[i], ts[i], i)],
                 Len(ts), ports)
    BY <1>3 DEF QueryCard
  <2> DEFINE f == [i \in DOMAIN ts |-> Answered(supported, ks[i], ts[i], i)]
             a == A(f, Len(ts))
  <2>2. Return(t, a) BY <2>1 DEF Answer
  <2>3. ts \in Seq(Tuples) /\ \A i \in DOMAIN ts : i \in Nat /\ ts[i] \in Tuples
    BY <1>0, <1>3
  <2>4. \A i \in DOMAIN ts : ks[i] \in Keys BY DEF WithKeys
  <2>5. ASSUME NEW i \in DOMAIN f, f[i].key = "CUSTOMER_NAME", board = "loop",
               i <= Len(SupportedByLoop)
        PROVE  f[i].value = customer_name
    <3>1. f[i] = Answered(SupportedByLoop, ks[i], ts[i], i) BY <2>5
    <3> QED BY <2>3, <2>4, <2>5, <3>1, AnsweredTuple
  <2>6. a.tuples = f /\ a.cmd = "query_card" OBVIOUS
  <2> HIDE DEF a, f
  <2>7. ShowsCurrent(a, {names}) BY <2>5, <2>6 DEF ShowsCurrent, names
  <2> QED BY <1>1, <2>2, <2>7, ReturnProper
<1> QED BY <1>2, <1>3

\* queryPortInfo shows the current label of the port asked for.
LEMMA QueryPortProper ==
  ASSUME Inv, NEW t \in Threads, call[t] # NULL, call[t].req.cmd = "query_port",
         NEW ports \in Nat, NEW changable, QueryPort(t, ports, changable)
  PROVE  Proper(t)
<1> DEFINE ts == call[t].req.tuples
           p == call[t].req.port
           A(tuples, count) ==
             [ok |-> TRUE, cmd |-> call[t].req.cmd, port |-> call[t].req.port,
              asked |-> call[t].req.tuples, tuples |-> tuples, count |-> count,
              ports |-> p]
           Label(i) == IF ts[i].key = "PORT_LABEL" \/ (ts[i].key = "NONE" /\ i = 1)
                       THEN [key |-> "PORT_LABEL", value |-> port_labels[p],
                             changable |-> changable]
                       ELSE [ts[i] EXCEPT !.key = "NONE"]
           f == [i \in DOMAIN ts |-> Label(i)]
<1>0. ts \in {NULL} \union Seq(Tuples) /\ p \in Nat BY CallFacts, PortAssumption
<1>1. UNCHANGED names BY DEF QueryPort
<1>2. CASE p >= ports
  <2>1. Refuse(t) BY <1>0, <1>2 DEF QueryPort
  <2> QED BY <1>1, <2>1, RefuseProper
<1>3. CASE ~(p >= ports) /\ (ts = NULL \/ ts = << >>)
  <2>1. Return(t, A(ts, 1)) BY <1>0, <1>3 DEF QueryPort, Answer
  <2>2. ShowsCurrent(A(ts, 1), {names}) BY <1>3 DEF ShowsCurrent
  <2> HIDE DEF A
  <2> QED BY <1>1, <2>1, <2>2, ReturnProper
<1>4. CASE ~(p >= ports) /\ ~(ts = NULL \/ ts = << >>)
  <2>1. Return(t, A(f, Len(ts))) BY <1>0, <1>4 DEF QueryPort, Answer
  <2>2. \A i \in DOMAIN ts : ts[i] \in Tuples BY <1>0, <1>4
  <2>3. ASSUME NEW i \in DOMAIN f, f[i].key = "PORT_LABEL" PROVE f[i].value = port_labels[p]
    <3>1. f[i] = Label(i) /\ ts[i] \in Tuples BY <2>2
    <3>2. CASE ts[i].key = "PORT_LABEL" \/ (ts[i].key = "NONE" /\ i = 1)
      BY <3>1, <3>2, Zenon
    <3>3. CASE ~(ts[i].key = "PORT_LABEL" \/ (ts[i].key = "NONE" /\ i = 1))
      <4>1. f[i] = [ts[i] EXCEPT !.key = "NONE"] BY <3>1, <3>3, Zenon
      <4>2. f[i].key = "NONE" BY <3>1, <4>1, Zenon DEF Tuples
      <4> QED BY <2>3, <4>2, Zenon
    <3> QED BY <3>2, <3>3, Zenon
  <2> DEFINE a == A(f, Len(ts))
  <2>4. a.tuples = f /\ a.cmd = "query_port" /\ a.port = p OBVIOUS
  <2>5. Return(t, a) BY <2>1
  <2> HIDE DEF a, f, p
  <2>6. ShowsCurrent(a, {names}) BY <2>3, <2>4 DEF ShowsCurrent, names
  <2> QED BY <1>1, <2>5, <2>6, ReturnProper
<1> QED BY <1>2, <1>3, <1>4

\* The answer to a change shows no names.
LEMMA ChangeAnswered ==
  ASSUME Inv, NEW t \in Threads, call[t] # NULL, NEW c \in {"change_card", "change_port"},
         call[t].req.cmd = c, Answer(t, NULL, 0, 0)
  PROVE  /\ call' \in [Threads -> {NULL} \union Calls] /\ call'[t] = NULL
         /\ reply'[t].ok
         /\ \E a : reply' = [reply EXCEPT ![t] = a] /\ ShowsCurrent(a, {names'})
<1> DEFINE a == [ok |-> TRUE, cmd |-> call[t].req.cmd, port |-> call[t].req.port,
                 asked |-> call[t].req.tuples, tuples |-> NULL, count |-> 0, ports |-> 0]
<1>1. reply' = [reply EXCEPT ![t] = a] /\ call' = [call EXCEPT ![t] = NULL]
  BY DEF Answer, Return
<1>2. ShowsCurrent(a, {names'}) BY DEF ShowsCurrent
<1>3. a.ok OBVIOUS
<1> HIDE DEF a
<1>4. /\ call \in [Threads -> {NULL} \union Calls]
      /\ reply = [u \in Threads |-> reply[u]]
  BY CallFacts
<1>5. reply'[t] = a BY <1>1, <1>4
<1>6. call' \in [Threads -> {NULL} \union Calls] /\ call'[t] = NULL BY <1>1, <1>4
<1>7. \E b : reply' = [reply EXCEPT ![t] = b] /\ ShowsCurrent(b, {names'}) BY <1>1, <1>2, Zenon
<1> QED BY <1>3, <1>5, <1>6, <1>7, Zenon

\* changeCardInfo changes the customer name, for the right card.
LEMMA ChangeCardProper ==
  ASSUME Inv, NEW t \in Threads, call[t] # NULL, call[t].req.cmd = "change_card",
         ChangeCard(t)
  PROVE  Proper(t)
<1>1. call[t].req.tuples \in Seq(Tuples) /\ customer_name \in Values
      /\ port_labels \in [Ports -> Values]
  BY CallFacts
<1>2. CASE call[t].req.card = CardNo
  <2>1. /\ customer_name' = Written(call[t].req.tuples, "CUSTOMER_NAME", customer_name)
        /\ Answer(t, NULL, 0, 0) /\ port_labels' = port_labels
    BY <1>2 DEF ChangeCard
  <2>2. customer_name' \in Values BY <1>1, <2>1, WrittenValue DEF Keys
  <2>3. /\ call' \in [Threads -> {NULL} \union Calls] /\ call'[t] = NULL /\ reply'[t].ok
        /\ \E a : reply' = [reply EXCEPT ![t] = a] /\ ShowsCurrent(a, {names'})
    BY <2>1, ChangeAnswered
  <2>4. Selective(t) BY <2>1, <2>3 DEF Selective
  <2> QED BY <1>1, <2>1, <2>2, <2>3, <2>4, Zenon DEF Proper
<1>3. CASE call[t].req.card # CardNo
  <2>1. Refuse(t) /\ UNCHANGED names BY <1>3 DEF ChangeCard, names
  <2> QED BY <2>1, RefuseProper
<1> QED BY <1>2, <1>3

\* changePortInfo changes the label of one port, for the right card.
LEMMA ChangePortProper ==
  ASSUME Inv, NEW t \in Threads, call[t] # NULL, call[t].req.cmd = "change_port",
         NEW ports, ChangePort(t, ports)
  PROVE  Proper(t)
<1> DEFINE p == call[t].req.port
<1>1. call[t].req.tuples \in Seq(Tuples) /\ customer_name \in Values
      /\ port_labels \in [Ports -> Values] /\ p \in Ports
  BY CallFacts
<1>2. CASE p < ports /\ call[t].req.card = CardNo
  <2> DEFINE v == Written(call[t].req.tuples, "PORT_LABEL", port_labels[p])
  <2>1. /\ port_labels' = [port_labels EXCEPT ![p] = v]
        /\ Answer(t, NULL, 0, 0) /\ customer_name' = customer_name
    BY <1>2 DEF ChangePort
  <2>2. v \in Values BY <1>1, WrittenValue DEF Keys
  <2> HIDE DEF v
  <2>3. /\ call' \in [Threads -> {NULL} \union Calls] /\ call'[t] = NULL /\ reply'[t].ok
        /\ \E a : reply' = [reply EXCEPT ![t] = a] /\ ShowsCurrent(a, {names'})
    BY <2>1, ChangeAnswered
  <2>4. /\ port_labels' \in [Ports -> Values]
        /\ \A q \in Ports \ {p} : port_labels'[q] = port_labels[q]
    BY <1>1, <2>1, <2>2
  <2>5. Selective(t) BY <2>1, <2>3, <2>4 DEF Selective
  <2> QED BY <1>1, <2>1, <2>3, <2>4, <2>5, Zenon DEF Proper
<1>3. CASE ~(p < ports /\ call[t].req.card = CardNo)
  <2>1. Refuse(t) /\ UNCHANGED names BY <1>3 DEF ChangePort, names
  <2> QED BY <2>1, RefuseProper
<1> QED BY <1>2, <1>3

-----------------------------------------------------------------------------
(* The rounds of the core.                                                 *)

\* Every handler call is proper.
LEMMA IoctlProper ==
  ASSUME Inv, NEW t \in Threads, dmx512_cuse_ioctl(t)
  PROVE  Proper(t)
<1>1. call[t] # NULL BY DEF dmx512_cuse_ioctl
<1>2. Pieces(t) \in 0..2 BY DEF Pieces
<1>3. ASSUME QueryRound(t) PROVE Proper(t) BY <1>1, <1>2, <1>3, RetryProper DEF QueryRound
<1>4. ASSUME ChangeRound(t) PROVE Proper(t) BY <1>1, <1>4, RetryProper DEF ChangeRound
<1>5. CASE dmx512_cuse_query_card_info(t)
  <2>1. CASE QueryRound(t) BY <1>3, <2>1
  <2>2. CASE ~QueryRound(t)
    <3>1. call[t].req.cmd = "query_card" BY <1>5 DEF dmx512_cuse_query_card_info
    <3>2. \/ board = "loop" /\ QueryCard(t, SupportedByLoop, NumPorts)
          \/ board # "loop" /\ QueryCard(t, SupportedByOthers, NumPorts)
          \/ board # "loop" /\ QueryCard(t, SupportedByOthers, 1)
      BY <1>5, <2>2 DEF dmx512_cuse_query_card_info, testdmx_queryCardInfo,
         dmxllgip_queryCardInfo, uartdmx_queryCardInfo, pwmdmx_queryCardInfo,
         suartdmx_queryCardInfo
    <3> QED BY <1>1, <3>1, <3>2, QueryCardProper
  <2> QED BY <2>1, <2>2
<1>6. CASE dmx512_cuse_query_port_info(t)
  <2>1. CASE QueryRound(t) BY <1>3, <2>1
  <2>2. CASE ~QueryRound(t)
    <3>1. call[t].req.cmd = "query_port" BY <1>6 DEF dmx512_cuse_query_port_info
    <3>2. PICK ports \in Nat, changable \in BOOLEAN : QueryPort(t, ports, changable)
      BY <1>6, <2>2, PortAssumption, Zenon
         DEF dmx512_cuse_query_port_info, testdmx_queryPortInfo,
             dmxllgip_queryPortInfo, uartdmx_queryPortInfo, pwmdmx_queryPortInfo,
             suartdmx_queryPortInfo
    <3> QED BY <1>1, <3>1, <3>2, QueryPortProper
  <2> QED BY <2>1, <2>2
<1>7. CASE dmx512_cuse_change_card_info(t)
  <2>1. CASE ChangeRound(t) BY <1>4, <2>1
  <2>2. CASE ~ChangeRound(t)
    <3>1. call[t].req.cmd = "change_card" BY <1>7 DEF dmx512_cuse_change_card_info
    <3>2. ChangeCard(t)
      BY <1>7, <2>2 DEF dmx512_cuse_change_card_info, testdmx_changeCardInfo,
         dmxllgip_changeCardInfo, uartdmx_changeCardInfo, pwmdmx_changeCardInfo,
         suartdmx_changeCardInfo
    <3> QED BY <1>1, <3>1, <3>2, ChangeCardProper
  <2> QED BY <2>1, <2>2
<1>8. CASE dmx512_cuse_change_port_info(t)
  <2>1. CASE ChangeRound(t) BY <1>4, <2>1
  <2>2. CASE ~ChangeRound(t)
    <3>1. call[t].req.cmd = "change_port" BY <1>8 DEF dmx512_cuse_change_port_info
    <3>2. \E ports : ChangePort(t, ports)
      BY <1>8, <2>2 DEF dmx512_cuse_change_port_info, testdmx_changePortInfo,
         dmxllgip_changePortInfo, uartdmx_changePortInfo, pwmdmx_changePortInfo,
         suartdmx_changePortInfo
    <3> QED BY <1>1, <3>1, <3>2, ChangePortProper
  <2> QED BY <2>1, <2>2
<1>9. CASE IoctlVersion(t)
  <2>1. CASE call[t].out = 0 /\ Retry(t, 0, 1) BY <1>1, <2>1, RetryProper
  <2>2. CASE Answer(t, NULL, 0, 0) /\ UNCHANGED names
    <3> DEFINE a == [ok |-> TRUE, cmd |-> call[t].req.cmd, port |-> call[t].req.port,
                     asked |-> call[t].req.tuples, tuples |-> NULL, count |-> 0,
                     ports |-> 0]
    <3>1. Return(t, a) BY <2>2 DEF Answer
    <3>2. ShowsCurrent(a, {names}) BY DEF ShowsCurrent
    <3> HIDE DEF a
    <3> QED BY <1>1, <2>2, <3>1, <3>2, ReturnProper
  <2> QED BY <1>9, <2>1, <2>2 DEF IoctlVersion
<1>10. CASE IoctlUnknown(t) BY <1>1, <1>10, RefuseProper DEF IoctlUnknown
<1> QED BY <1>5, <1>6, <1>7, <1>8, <1>9, <1>10 DEF dmx512_cuse_ioctl

\* More current names do no harm.
LEMMA ShowsMore ==
  ASSUME NEW r, NEW few, NEW many, few \subseteq many, ShowsCurrent(r, few)
  PROVE  ShowsCurrent(r, many)
BY DEF ShowsCurrent

\* A handler call keeps the invariant.
LEMMA HandlerKeeps ==
  ASSUME Inv, NEW t \in Threads, dmx512_cuse_ioctl(t)
  PROVE  Inv'
<1>1. Proper(t) BY IoctlProper
<1>2. /\ board' = board
      /\ seen' = [u \in Threads |-> IF call[u] = NULL THEN seen[u]
                                    ELSE seen[u] \union {names'}]
      /\ call[t] # NULL
  BY DEF dmx512_cuse_ioctl
<1>3. TypeOK'
  <2>1. call' \in [Threads -> {NULL} \union Calls] /\ customer_name' \in Values
        /\ port_labels' \in [Ports -> Values]
    BY <1>1 DEF Proper
  <2>2. board \in Boards BY DEF Inv, TypeOK
  <2> QED BY <1>2, <2>1, <2>2 DEF TypeOK, Calls
<1>4. seen' = [u \in Threads |-> seen'[u]] BY <1>2
<1>5. \A u \in Threads : seen[u] \subseteq seen'[u] BY <1>2
<1>6. names' \in seen'[t] BY <1>2
<1>7. reply = [u \in Threads |-> reply[u]] /\ \A u \in Threads : ShowsCurrent(reply[u], seen[u])
  BY DEF Inv, QueryShowsCurrentName
<1>8. CASE reply' = reply
  <2>1. \A u \in Threads : ShowsCurrent(reply'[u], seen'[u])
    BY <1>5, <1>7, <1>8, ShowsMore
  <2>2. QueryShowsCurrentName'
    BY <1>2, <2>1 DEF QueryShowsCurrentName, ShowsCurrent, SupportedByLoop
  <2> QED BY <1>3, <1>4, <1>7, <1>8, <2>2 DEF Inv
<1>9. ASSUME NEW a, reply' = [reply EXCEPT ![t] = a], ShowsCurrent(a, {names'}) PROVE Inv'
  <2>1. reply' = [u \in Threads |-> reply'[u]] /\ reply'[t] = a
        /\ \A u \in Threads \ {t} : reply'[u] = reply[u]
    BY <1>7, <1>9
  <2>2. \A u \in Threads \ {t} : ShowsCurrent(reply'[u], seen'[u])
    BY <1>5, <1>7, <2>1, ShowsMore
  <2>3. ShowsCurrent(reply'[t], seen'[t])
    <3>1. {names'} \subseteq seen'[t] BY <1>6
    <3> QED BY <1>9, <2>1, <3>1, ShowsMore
  <2>4. QueryShowsCurrentName'
    BY <1>2, <2>2, <2>3 DEF QueryShowsCurrentName, ShowsCurrent, SupportedByLoop
  <2> QED BY <1>3, <1>4, <2>1, <2>4 DEF Inv
<1> QED BY <1>1, <1>8, <1>9 DEF Proper

\* A client that calls ioctl(2) has no answer yet.
LEMMA ClientKeeps ==
  ASSUME Inv, NEW t \in Threads, NEW r \in Requests, Ioctl(t, r)
  PROVE  Inv' /\ names' = names
<1>1. /\ call' = [call EXCEPT ![t] = [req |-> r, in |-> 0, out |-> 0]]
      /\ reply' = [reply EXCEPT ![t] = NULL] /\ seen' = [seen EXCEPT ![t] = {names}]
      /\ board' = board /\ names' = names /\ customer_name' = customer_name
      /\ port_labels' = port_labels
  BY DEF Ioctl, names
<1>2. /\ call \in [Threads -> {NULL} \union Calls] /\ board \in Boards
      /\ customer_name \in Values /\ port_labels \in [Ports -> Values]
      /\ reply = [u \in Threads |-> reply[u]] /\ seen = [u \in Threads |-> seen[u]]
      /\ \A u \in Threads : ShowsCurrent(reply[u], seen[u])
  BY DEF Inv, TypeOK, Calls, QueryShowsCurrentName
<1>3. [req |-> r, in |-> 0, out |-> 0] \in Calls BY DEF Calls
<1>4. call' \in [Threads -> {NULL} \union Calls] BY <1>1, <1>2, <1>3
<1>5. TypeOK' BY <1>1, <1>2, <1>4 DEF TypeOK, Calls
<1>6. /\ reply' = [u \in Threads |-> reply'[u]] /\ seen' = [u \in Threads |-> seen'[u]]
      /\ reply'[t] = NULL
      /\ \A u \in Threads \ {t} : reply'[u] = reply[u] /\ seen'[u] = seen[u]
  BY <1>1, <1>2, Zenon
<1>7. \A u \in Threads : ShowsCurrent(reply'[u], seen'[u])
  <2>1. ShowsCurrent(reply'[t], seen'[t]) BY <1>6 DEF ShowsCurrent
  <2>2. \A u \in Threads \ {t} : ShowsCurrent(reply'[u], seen'[u]) BY <1>2, <1>6
  <2> QED BY <2>1, <2>2
<1>8. QueryShowsCurrentName'
  BY <1>1, <1>7 DEF QueryShowsCurrentName, ShowsCurrent, SupportedByLoop
<1> QED BY <1>1, <1>5, <1>6, <1>8 DEF Inv

\* Every step keeps the invariant.
LEMMA NextInv == Inv /\ [Next]_vars => Inv'
<1> SUFFICES ASSUME Inv, [Next]_vars PROVE Inv'
  OBVIOUS
<1>1. ASSUME NEW t \in Threads, dmx512_cuse_ioctl(t) PROVE Inv' BY <1>1, HandlerKeeps
<1>2. ASSUME NEW t \in Threads, NEW r \in Requests, Ioctl(t, r) PROVE Inv'
  BY <1>2, ClientKeeps
<1>3. CASE UNCHANGED vars
  <2>1. UNCHANGED << board, customer_name, port_labels, call, reply, seen >>
    BY <1>3 DEF vars, names
  <2>2. TypeOK' BY <2>1 DEF Inv, TypeOK
  <2>3. QueryShowsCurrentName'
    BY <2>1 DEF Inv, QueryShowsCurrentName, ShowsCurrent, SupportedByLoop
  <2> QED BY <2>1, <2>2, <2>3 DEF Inv
<1> QED BY <1>1, <1>2, <1>3 DEF Next

\* It holds when the driver starts.
LEMMA InitInv == Init => Inv
<1> SUFFICES ASSUME Init PROVE Inv
  OBVIOUS
<1>1. /\ board \in Boards /\ customer_name = "customer label"
      /\ port_labels = [p \in Ports |-> Fixed] /\ call = [t \in Threads |-> NULL]
      /\ reply = [t \in Threads |-> NULL] /\ seen = [t \in Threads |-> {}]
  BY Zenon DEF Init
<1>2. TypeOK BY <1>1, Zenon DEF TypeOK, Values
<1>3. QueryShowsCurrentName BY <1>1, Zenon DEF QueryShowsCurrentName, ShowsCurrent
<1> QED BY <1>1, <1>2, <1>3, Zenon DEF Inv

\* A query of dmx512_cuse_dev.c shows names that were current while its rounds
\* ran, however they interleave with the rounds of other clients' changes.
THEOREM NamesShown == Spec => []NamesConsistent
<1>1. Init => Inv BY InitInv
<1>2. Inv /\ [Next]_vars => Inv' BY NextInv
<1>3. Inv => NamesConsistent BY DEF Inv, NamesConsistent
<1> QED BY <1>1, <1>2, <1>3, PTL DEF Spec

\* A name changes only with a change ioctl that returns success, and only the
\* name that this ioctl is for (changeCardInfo, changePortInfo).
THEOREM ChangesAreSelective == Spec => ChangeIsSelective
<1> DEFINE Step == names' # names =>
       \E t \in Threads :
         /\ call[t] # NULL /\ call'[t] = NULL /\ reply'[t].ok
         /\ \/ call[t].req.cmd = "change_card" /\ port_labels' = port_labels
            \/ /\ call[t].req.cmd = "change_port" /\ customer_name' = customer_name
               /\ \A p \in Ports \ {call[t].req.port} : port_labels'[p] = port_labels[p]
<1>1. Init => Inv BY InitInv
<1>2. Inv /\ [Next]_vars => Inv' BY NextInv
<1>3. Inv /\ [Next]_vars => [Step]_vars
  <2> SUFFICES ASSUME Inv, Next, names' # names
               PROVE  \E t \in Threads : Selective(t)
    BY DEF Selective
  <2>1. ASSUME NEW t \in Threads, NEW r \in Requests, Ioctl(t, r) PROVE FALSE
    BY <2>1, ClientKeeps
  <2>2. PICK t \in Threads : dmx512_cuse_ioctl(t) BY <2>1 DEF Next
  <2>3. Selective(t) BY <2>2, IoctlProper DEF Proper
  <2> QED BY <2>3
<1> QED BY <1>1, <1>2, <1>3, PTL DEF Spec, ChangeIsSelective

=============================================================================
