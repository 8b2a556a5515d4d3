----------------------------- MODULE MCCardInfo -----------------------------
(* Instances of CardInfo: requests with no, one and too many tuples, for   *)
(* the right card and a wrong one, and for a port the card lacks.          *)
EXTENDS CardInfo, TLC

T(k, v) == [key |-> k, value |-> v, changable |-> FALSE]
R(c, card, p, ts) == [cmd |-> c, card |-> card, port |-> p, tuples |-> ts]

MCRequests ==
  {R("query_card", 0, 0, ts) : ts \in {NULL, << >>, << T("CUSTOMER_NAME", "") >>,
     << T("NONE", ""), T("NONE", ""), T("NONE", ""), T("NONE", "") >>}}
  \union {R("query_port", 0, p, << T("NONE", ""), T("MANUFACTURER", "") >>) : p \in Ports}
  \union {R("query_port", 0, 0, NULL)}
  \union {R("change_card", c, 0, << T("CUSTOMER_NAME", v) >>) :
            c \in {0, 1}, v \in Names}
  \union {R("change_port", 0, p, << T("PRODUCT", v), T("PORT_LABEL", v) >>) :
            p \in {0, 1}, v \in Names}
  \union {R("change_port", 1, 0, << T("PORT_LABEL", v) >>) : v \in Names}
  \union {R("change_port", 0, 0, << >>), R("version", 0, 0, NULL),
          R("unknown", 0, 0, NULL)}

=============================================================================
