--------------------------- MODULE RdmDiscoveryProofs ---------------------------
(***************************************************************************)
(* Proofs about RdmDiscovery for every number of devices, every assignment *)
(* of distinct UIDs and every sequence of calls, provided that replies are *)
(* prompt and that calls which wait for a reply name a device of the bus.  *)
(*                                                                         *)
(* The inductive invariant has two parts.  OneTransaction: at most one     *)
(* frame is in flight, and it belongs to the only future in the list.      *)
(* Searching: a device that still has to be found is unmuted and inside a  *)
(* range that is still to be searched.                                     *)
(*                                                                         *)
(* The last section drops the assumption on time: with late replies HInv   *)
(* remains, by which every reply names a device of the bus or none.        *)
(***************************************************************************)
EXTENDS RdmDiscovery, TLAPS

\* The UIDs that are on the bus whatever assignment the responder starts with.
OnEveryBus == {w \in Uids : \A u \in FactoryUids : \E d \in Devices : u[d] = w}

\* What the theorems assume of the timing and of the calls.
Orderly ==
  /\ PromptWire /\ PromptHandle
  /\ \A u \in FactoryUids : \A d, e \in Devices : u[d] = u[e] => d = e
  /\ \A s \in Sets : s[2] = Any
  /\ MuteTargets \subseteq OnEveryBus \union {Broadcast}
  /\ GetTargets \subseteq OnEveryBus

UidsOnBus == {uid[d] : d \in Devices}

\* The call that waits for future f is the one the client is in.
Own(f) ==
  \/ f = "branch" /\ pc = "wait_branch"
  \/ f = "mute" /\ pc = "wait_mute"
  \/ f = "command" /\ pc = "wait_command"
  \/ f \in Gets /\ pc = "idle"

RequestFor(f, q) ==
  /\ f = "branch" => q = buildDiscoveryRequest(range)
  /\ f = "mute" => q.pid = "mute" /\ q.dst \in UidsOnBus /\ q.dst \in Members(found)
  /\ f = "command" => q.pid \in {"mute", "unmute"} /\ q.dst \in UidsOnBus
  /\ f \in Gets => q.pid = "get" /\ q.dst \in UidsOnBus

\* A reply to DISC_UNIQUE_BRANCH tells the truth about the range.
Informative(r) ==
  /\ r.src = Any => \A d \in Devices : Covers(range, uid[d]) => muted[d]
  /\ r.src = Broadcast => \E d \in Devices : Covers(range, uid[d])
  /\ r.src \notin {Any, Broadcast} => r.src \in UidsOnBus

ReplyFor(f, r) == r.kind \in Kinds(f) /\ (f = "branch" => Informative(r))

Awaited(f) ==
  /\ futures = <<f>> /\ Own(f)
  /\ future[f].state = IF handling THEN "Ready" ELSE "Busy"
  /\ ~ handling => \/ down # <<>> /\ RequestFor(f, down[1])
                   \/ up # <<>> /\ ReplyFor(f, up[1])

\* A request nobody waits for that changes no UID.
FireAndForget(q) ==
  \/ q.pid = "set" /\ q.from = Any
  \/ q.pid \in {"mute", "unmute"} /\ q.dst = Broadcast

OneTransaction ==
  /\ down = <<>> \/ (Len(down) = 1 /\ up = <<>> /\ ~ handling)
  /\ up = <<>> \/ (Len(up) = 1 /\ ~ handling)
  /\ futures = <<>> \/ \E f \in Futures : Awaited(f)
  /\ \A f \in Futures : future[f].state = "Busy" => futures = <<f>>
  /\ futures = <<>> /\ ~ (Quiet /\ ~ handling) =>
       pc = "idle" /\ (down # <<>> => FireAndForget(down[1]))
  /\ pc = "search" => futures = <<>>
  /\ \A f \in Futures \ Gets : Own(f) => future[f].state \in {"Busy", "Ready"}
  /\ \A f \in Futures : future[f].state = "Ready" => future[f].reply.kind \in Kinds(f)
  /\ pc = "wait_branch" /\ future["branch"].state = "Ready" => Informative(future["branch"].reply)

InSearch == pc \in {"search", "wait_branch", "wait_mute"}

Searching ==
  /\ uid \in FactoryUids
  /\ range[1] >= 1 /\ \A r \in Members(searchSpace) : r[1] >= 1
  /\ InSearch =>
       /\ wanted \subseteq UidsOnBus
       /\ \A d \in Devices : uid[d] \in wanted /\ muted[d] => uid[d] \in Members(found)
       /\ \A d \in Devices : uid[d] \in Members(found) =>
            muted[d] \/ (pc = "wait_mute" /\ down # <<>> /\ down[1].dst = uid[d])
  /\ StillCovered
  /\ ~ InSearch /\ searchSpace = <<>> => wanted \subseteq Members(discovered)

IInv == TypeOK /\ OneTransaction /\ Searching

-----------------------------------------------------------------------------
\* The members of a range list or of a list of UIDs after push_back.
LEMMA MembersAppend ==
  ASSUME NEW T, NEW s \in Seq(T), NEW e \in T
  PROVE  Members(Append(s, e)) = Members(s) \union {e}
BY DEF Members

\* The members of a range list before and after pop_front.
LEMMA MembersTail ==
  ASSUME NEW T, NEW s \in Seq(T), s # <<>>
  PROVE  /\ Members(s) = {Head(s)} \union Members(Tail(s))
         /\ Head(s) \in T /\ Tail(s) \in Seq(T)
<1>1. Head(s) = s[1] /\ Len(s) >= 1 /\ Tail(s) \in Seq(T) /\ Len(Tail(s)) = Len(s) - 1
      /\ \A i \in 1 .. Len(s) - 1 : Tail(s)[i] = s[i + 1]
  OBVIOUS
<1>2. ASSUME NEW i \in 1 .. Len(s) PROVE s[i] \in {Head(s)} \union Members(Tail(s))
  <2>1. CASE i = 1 BY <1>1, <2>1, Zenon
  <2>2. CASE i # 1
    <3>1. i - 1 \in 1 .. Len(Tail(s)) /\ Tail(s)[i - 1] = s[i] BY <1>1, <2>2
    <3> QED BY <3>1, Zenon DEF Members
  <2> QED BY <2>1, <2>2, Zenon
<1>3. ASSUME NEW i \in 1 .. Len(Tail(s)) PROVE Tail(s)[i] \in Members(s)
  <2>1. i + 1 \in 1 .. Len(s) /\ Tail(s)[i] = s[i + 1] BY <1>1
  <2> QED BY <2>1, Zenon DEF Members
<1>4. Head(s) \in Members(s) BY <1>1 DEF Members
<1> QED BY <1>1, <1>2, <1>3, <1>4 DEF Members

\* The members of a range list after a collision has split a range.
LEMMA MembersSplit ==
  ASSUME NEW T, NEW s \in Seq(T), NEW a \in T, NEW b \in T
  PROVE  /\ Members(s \o <<a, b>>) = Members(s) \union {a, b}
         /\ s \o <<a, b>> \in Seq(T)
<1>1. s \o <<a, b>> = Append(Append(s, a), b) OBVIOUS
<1>2. Append(s, a) \in Seq(T) /\ Append(Append(s, a), b) \in Seq(T) OBVIOUS
<1>3. Members(Append(s, a)) = Members(s) \union {a} BY MembersAppend
<1>4. Members(Append(Append(s, a), b)) = Members(Append(s, a)) \union {b}
  <2>1. \A q \in Seq(T) : Members(Append(q, b)) = Members(q) \union {b} BY MembersAppend
  <2> QED BY <1>2, <2>1, Zenon
<1> QED BY <1>1, <1>2, <1>3, <1>4, Zenon

\* A list without a member is empty.
LEMMA MembersEmpty == ASSUME NEW T, NEW s \in Seq(T) PROVE Members(s) = {} <=> s = <<>>
<1>1. ASSUME s # <<>> PROVE s[1] \in Members(s) BY <1>1 DEF Members
<1>2. ASSUME s = <<>> PROVE Members(s) = {} BY <1>2 DEF Members
<1> QED BY <1>1, <1>2, Zenon

\* A queue that holds one frame.
LEMMA OneFrame ==
  ASSUME NEW T, NEW s \in Seq(T), Len(s) = 1
  PROVE  Head(s) = s[1] /\ Tail(s) = <<>> /\ s[1] \in T
<1>1. s # <<>>
  <2>1. ASSUME s = <<>> PROVE Len(s) = 0 BY <2>1, Zenon
  <2> QED BY <2>1
<1>2. Tail(s) \in Seq(T) /\ Len(Tail(s)) = Len(s) - 1 /\ Head(s) = s[1] /\ Head(s) \in T BY <1>1
<1>3. \A t \in Seq(T) : Len(t) = 0 => t = <<>> OBVIOUS
<1>4. Len(Tail(s)) = 0 BY <1>2
<1> QED BY <1>2, <1>3, <1>4, Zenon

\* A number that fits into a word is not changed by it.
LEMMA SmallMod == ASSUME NEW n \in Nat \ {0}, NEW x \in 0 .. n - 1 PROVE x % n = x
OBVIOUS

\* The ends of a range of UIDs are UIDs: nothing is cut off.
LEMMA UidOfUid == \A u \in Uids : Uid(u) = u
BY BusAssumption, SmallMod DEF Uid, Uids

\* A split of a range with a device in it loses no UID: both halves are
\* ranges, and a UID of the range is in one of them.
LEMMA SplitCovers ==
  ASSUME NEW r \in Uids \X Uids, r[1] >= 1, NEW w \in 1 .. Broadcast - 1, Covers(r, w)
  PROVE  /\ Lower(r) \in Uids \X Uids /\ Upper(r) \in Uids \X Uids
         /\ Lower(r)[1] >= 1 /\ Upper(r)[1] >= 1
         /\ \A u \in Uids : Covers(r, u) => Covers(Lower(r), u) \/ Covers(Upper(r), u)
<1> DEFINE h == Half(r)
<1>1. r[1] \in Int /\ r[2] \in Int /\ Broadcast \in Int BY BusAssumption DEF Uids
<1>2. h \in Int /\ 2 * h <= r[1] + r[2] /\ r[1] + r[2] <= 2 * h + 1
  <2>1. r[1] + r[2] \in 0 .. Words - 1 /\ Words \in Nat \ {0}
    BY <1>1, BusAssumption DEF Uids, Any
  <2>2. h = (r[1] + r[2]) \div 2 BY <2>1, SmallMod, Zenon DEF Half
  <2> QED BY <1>1, <2>2
<1>3. r[1] >= 1 /\ r[2] >= 1 /\ r[1] <= r[2] /\ r[2] <= Broadcast BY <1>1 DEF Covers, Uids
<1>4. h >= 1 /\ h <= r[2] BY <1>1, <1>2, <1>3
<1>5. Lower(r) = <<r[1], h - 1>> /\ Upper(r) = <<h, r[2]>>
  <2>1. h - 1 \in 0 .. Words - 1 /\ Words \in Nat \ {0}
    BY <1>1, <1>2, <1>3, <1>4, BusAssumption DEF Any
  <2> QED BY <2>1, SmallMod, Zenon DEF Lower, Upper
<1> HIDE DEF h
<1>6. Lower(r) \in Uids \X Uids /\ Upper(r) \in Uids \X Uids
  BY <1>1, <1>2, <1>3, <1>4, <1>5 DEF Uids
<1>7. Lower(r)[1] = r[1] /\ Lower(r)[2] = h - 1 /\ Upper(r)[1] = h /\ Upper(r)[2] = r[2] BY <1>5
<1>8. ASSUME NEW u \in Uids, Covers(r, u) PROVE Covers(Lower(r), u) \/ Covers(Upper(r), u)
  <2>1. u \in Int BY <1>1 DEF Uids
  <2> QED BY <1>1, <1>2, <1>7, <1>8, <2>1 DEF Covers
<1> QED BY <1>3, <1>4, <1>6, <1>7, <1>8, Zenon

\* The constants the proofs use, without the definition of BusAssumption.
LEMMA ConstantFacts ==
  /\ Broadcast \in Nat /\ Broadcast > 0
  /\ \A u \in FactoryUids : u \in [Devices -> 1 .. Broadcast - 1]
  /\ WireSlots \in Nat /\ WireSlots > 0
  /\ Any \in Uids /\ Broadcast \in Uids
  /\ {"branch", "mute", "command"} \subseteq Futures /\ Gets \subseteq Futures
  /\ "branch" \notin Gets /\ "mute" \notin Gets /\ "command" \notin Gets
BY BusAssumption DEF Any, Uids, Futures

\* The initial state of the master and of the bus satisfies the invariant.
LEMMA InitIInv == ASSUME Init PROVE IInv
<1> USE DEF Init
<1>1. TypeOK
  <2>1. uid \in [Devices -> Uids] BY BusAssumption DEF Uids
  <2>2. future \in [Futures -> [state : {"none", "Busy", "Ready", "Timeout"}, reply : Replies]]
    BY ConstantFacts, Zenon DEF Replies, NoReply
  <2>3. range \in Uids \X Uids BY ConstantFacts DEF Uids
  <2>4. discovered \in Seq(Uids) BY BusAssumption, Zenon
  <2>5. muted \in [Devices -> BOOLEAN] /\ handling \in BOOLEAN BY Zenon
  <2>6. /\ pc \in {"idle", "search", "wait_branch", "wait_mute", "wait_command"}
        /\ searchSpace \in Seq(Uids \X Uids) /\ searchCount \in Nat /\ found \in Seq(Uids)
        /\ wanted \subseteq Uids /\ futures \in Seq(Futures)
        /\ down \in Seq(Requests) /\ up \in Seq(Replies)
    OBVIOUS
  <2> HIDE DEF Init
  <2> QED BY <2>1, <2>2, <2>3, <2>4, <2>5, <2>6, Zenon DEF TypeOK
<1>2. OneTransaction
  BY ConstantFacts, Zenon DEF OneTransaction, Own, Quiet
<1>3. Searching
  BY ConstantFacts DEF Searching, StillCovered, Members, InSearch
<1> QED BY <1>1, <1>2, <1>3, Zenon DEF IInv

-----------------------------------------------------------------------------
(* Where the client may take a step, nothing is in flight. *)

Resting == down = <<>> /\ up = <<>> /\ ~ handling /\ futures = <<>>

\* The types the steps below need of the futures and of the frames.
FrameTypes ==
  /\ future \in [Futures -> [state : {"none", "Busy", "Ready", "Timeout"}, reply : Replies]]
  /\ futures \in Seq(Futures) /\ handling \in BOOLEAN
  /\ down \in Seq(Requests) /\ up \in Seq(Replies)

\* With prompt replies RdmFuture::wait never gives up.
LEMMA NoTimeout ==
  ASSUME IInv, Orderly, NEW f \in Futures, TimedOut(f)
  PROVE  FALSE
<1>1. ~ handling /\ down = <<>> /\ up = <<>> /\ future[f].state = "Busy"
  BY Zenon DEF Orderly, TimedOut, ClientMayRun, Quiet
<1>2. futures = <<f>> BY <1>1, Zenon DEF IInv, OneTransaction
<1>3. PICK g \in Futures : Awaited(g) BY <1>2, Zenon DEF IInv, OneTransaction
<1> QED BY <1>1, <1>3, Zenon DEF Awaited

\* A client that may call finds the wire and the list of futures empty.
LEMMA CallRests ==
  ASSUME IInv, Orderly, ClientMayCall
  PROVE  Resting /\ pc = "idle"
<1>1. ~ handling /\ down = <<>> /\ up = <<>> /\ pc = "idle"
  BY Zenon DEF Orderly, ClientMayCall, ClientMayRun, Quiet
<1>2. ASSUME NEW g \in Futures, Awaited(g) PROVE FALSE BY <1>1, <1>2, Zenon DEF Awaited
<1> QED BY <1>1, <1>2, Zenon DEF IInv, OneTransaction, Resting

\* So does the search between two passes.
LEMMA SearchRests ==
  ASSUME IInv, pc = "search"
  PROVE  Resting
BY Zenon DEF IInv, OneTransaction, Resting, Quiet

\* And so does a wait that has its reply.
LEMMA ReadyRests ==
  ASSUME IInv, Orderly, NEW f \in {"branch", "mute", "command"}, Own(f), Ready(f)
  PROVE  Resting /\ f \in Futures
<1>1. ~ handling /\ future[f].state = "Ready" BY Zenon DEF Orderly, Ready, ClientMayRun
<1>2. pc \in {"wait_branch", "wait_mute", "wait_command"} BY ConstantFacts, Zenon DEF Own
<1>3. ASSUME NEW g \in Futures, Awaited(g) PROVE FALSE
  <2>1. Own(g) /\ future[g].state = "Busy" BY <1>1, <1>3, Zenon DEF Awaited
  <2>2. g = f BY <2>1, <1>2, ConstantFacts, Zenon DEF Own
  <2> QED BY <1>1, <2>1, <2>2, Zenon
<1>4. futures = <<>> BY <1>3, Zenon DEF IInv, OneTransaction
<1> QED BY <1>1, <1>2, <1>4, ConstantFacts, Zenon DEF IInv, OneTransaction, Resting, Quiet

-----------------------------------------------------------------------------
(* The three ways in which a step of the client leaves the transaction. *)

\* A new request with a future: one transaction begins.
LEMMA AskBegins ==
  ASSUME IInv, Resting, NEW f \in Futures, NEW q \in Requests, Ask(f, q),
         up' = up, handling' = handling, Own(f)', RequestFor(f, q)'
  PROVE  OneTransaction' /\ FrameTypes' /\ down' = <<q>>
<1> USE ConstantFacts
<1>1. down' = <<q>> /\ futures' = <<f>> /\ up' = <<>> /\ ~ handling'
  BY DEF Ask, Transmit, Resting, Members
<1>2. future \in [Futures -> [state : {"none", "Busy", "Ready", "Timeout"}, reply : Replies]]
  BY Zenon DEF IInv, TypeOK
<1>3. future' = [future EXCEPT ![f] = [state |-> "Busy", reply |-> NoReply]] BY Zenon DEF Ask
<1>4. NoReply \in Replies BY Zenon DEF NoReply, Replies
<1>5. future'[f].state = "Busy" /\ \A g \in Futures : g # f => future'[g] = future[g] BY <1>2, <1>3, Zenon
<1>6. \A g \in Futures : g # f => future'[g].state # "Busy"
  BY <1>5, Zenon DEF IInv, OneTransaction, Resting
<1>7. Awaited(f)' BY <1>1, <1>5, Zenon DEF Awaited
<1>8. \A g \in Futures \ Gets : Own(g)' => g = f BY Zenon DEF Own
<1>9. pc' # "search" BY Zenon DEF Own
<1>10. pc' = "wait_branch" => f = "branch" BY Zenon DEF Own
<1>11. \A g \in Futures : future'[g].state = "Ready" => future'[g].reply.kind \in Kinds(g)
  BY <1>5, Zenon DEF IInv, OneTransaction
<1>12. FrameTypes'
  <2>1. future' \in [Futures -> [state : {"none", "Busy", "Ready", "Timeout"}, reply : Replies]]
    BY <1>2, <1>3, <1>4, Zenon
  <2>2. futures' \in Seq(Futures) /\ down' \in Seq(Requests) /\ up' \in Seq(Replies) BY <1>1
  <2>3. handling' \in BOOLEAN BY Zenon DEF IInv, TypeOK
  <2> QED BY <2>1, <2>2, <2>3, Zenon DEF FrameTypes
<1>13. \A g \in Futures : Kinds(g)' = Kinds(g) BY Zenon DEF Kinds
<1> QED BY <1>1, <1>5, <1>6, <1>7, <1>8, <1>9, <1>10, <1>11, <1>12, <1>13, Zenon DEF OneTransaction

\* A step that sends nothing and waits for nothing: the client rests.
LEMMA RestGoesOn ==
  ASSUME IInv, Resting, UNCHANGED <<futures, handling, down, up>>, pc' \in {"idle", "search"},
         NEW fs, future' = Destroy(fs)
  PROVE  OneTransaction' /\ FrameTypes'
<1> USE ConstantFacts
<1>1. future \in [Futures -> [state : {"none", "Busy", "Ready", "Timeout"}, reply : Replies]]
  BY Zenon DEF IInv, TypeOK
<1>2. NoReply \in Replies BY Zenon DEF NoReply, Replies
<1>3. future' \in [Futures -> [state : {"none", "Busy", "Ready", "Timeout"}, reply : Replies]]
  BY <1>1, <1>2, Zenon DEF Destroy
<1>4. \A g \in Futures : future'[g] = future[g] \/ future'[g].state = "none" BY Zenon DEF Destroy
<1>5. \A g \in Futures \ Gets : ~ Own(g)' BY Zenon DEF Own
<1>6. \A g \in Futures : future'[g].state # "Busy"
  BY <1>4, Zenon DEF IInv, OneTransaction, Resting
<1>7. \A g \in Futures : future'[g].state = "Ready" => future'[g].reply.kind \in Kinds(g)
  BY <1>4, Zenon DEF IInv, OneTransaction
<1>8. FrameTypes' BY <1>3, Zenon DEF FrameTypes, IInv, TypeOK
<1>9. \A g \in Futures : Kinds(g)' = Kinds(g) BY Zenon DEF Kinds
<1> QED BY <1>5, <1>6, <1>7, <1>8, <1>9, Zenon DEF OneTransaction, Resting, Quiet

\* A request nobody waits for.
LEMMA SendOnly ==
  ASSUME IInv, Resting, NEW q \in Requests, FireAndForget(q), down' = Transmit(down, q),
         UNCHANGED <<future, futures, handling, up>>, pc = "idle", pc' = "idle"
  PROVE  OneTransaction' /\ FrameTypes'
<1> USE ConstantFacts
<1>1. down' = <<q>> BY DEF Transmit, Resting
<1>2. \A g \in Futures \ Gets : ~ Own(g)' BY Zenon DEF Own
<1>3. FrameTypes'
  <2>1. down' \in Seq(Requests) BY <1>1
  <2> QED BY <2>1, Zenon DEF FrameTypes, IInv, TypeOK
<1>4. \A g \in Futures : Kinds(g)' = Kinds(g) BY Zenon DEF Kinds
<1>5. FireAndForget(down[1])' BY <1>1 DEF FireAndForget
<1> QED BY <1>1, <1>2, <1>3, <1>4, <1>5, Zenon DEF OneTransaction, Resting, Quiet, IInv

-----------------------------------------------------------------------------
(* The calls of the client, one lemma per action. *)

\* The types of the variables of the client and of the devices.
ClientTypes ==
  /\ pc \in {"idle", "search", "wait_branch", "wait_mute", "wait_command"}
  /\ range \in Uids \X Uids /\ searchSpace \in Seq(Uids \X Uids)
  /\ searchCount \in Nat
  /\ found \in Seq(Uids) /\ discovered \in Seq(Uids) /\ wanted \subseteq Uids
  /\ uid \in [Devices -> Uids] /\ muted \in [Devices -> BOOLEAN]

\* TypeOK is the two together.
LEMMA TypesSplit == TypeOK <=> ClientTypes /\ FrameTypes
BY Zenon DEF TypeOK, ClientTypes, FrameTypes

\* The same after a step.
LEMMA TypesSplitPrime == TypeOK' <=> ClientTypes' /\ FrameTypes'
BY Zenon DEF TypeOK, ClientTypes, FrameTypes

\* Outside a search, only what the last one has found concerns the search.
LEMMA IdleSearching ==
  ASSUME IInv, UNCHANGED <<range, searchSpace, discovered, wanted, uid>>, pc = "idle",
         pc' \in {"idle", "wait_command"}
  PROVE  Searching'
BY Zenon DEF IInv, Searching, InSearch, StillCovered

\* mute and unmute preserve the invariant.
LEMMA SendMuteStep ==
  ASSUME IInv, Orderly, NEW pid \in {"mute", "unmute"}, NEW whom \in MuteTargets, SendMute(pid, whom)
  PROVE  IInv'
<1> DEFINE q == Request(pid, whom, Any, Any)
<1> USE ConstantFacts
<1>1. Resting /\ pc = "idle" BY CallRests, Zenon DEF SendMute
<1>2. whom \in Uids BY BusAssumption, Zenon
<1>3. q \in Requests BY <1>2, Zenon DEF Request, Requests
<1>4. ClientTypes BY TypesSplit, Zenon DEF IInv
<1>5. CASE whom = Broadcast
  <2>1. down' = Transmit(down, q) /\ UNCHANGED <<client, future, futures, handling, up, bus>>
    BY <1>5, Zenon DEF SendMute
  <2>2. FireAndForget(q) BY <1>5, Zenon DEF FireAndForget, Request
  <2>3. OneTransaction' /\ FrameTypes' BY <1>1, <1>3, <2>1, <2>2, SendOnly, Zenon DEF client
  <2>4. Searching' BY <1>1, <2>1, IdleSearching, Zenon DEF client, bus
  <2>5. ClientTypes' BY <1>4, <2>1, Zenon DEF ClientTypes, client, bus
  <2> QED BY <2>3, <2>4, <2>5, TypesSplitPrime, Zenon DEF IInv
<1>6. CASE whom # Broadcast
  <2>1. /\ Ask("command", q) /\ pc' = "wait_command"
        /\ UNCHANGED <<range, searchSpace, searchCount, found, discovered, wanted, handling, up, bus>>
    BY <1>6, Zenon DEF SendMute
  <2>2. whom \in UidsOnBus
    <3>1. whom \in OnEveryBus BY <1>6, Zenon DEF Orderly
    <3> QED BY <3>1, Zenon DEF OnEveryBus, UidsOnBus, IInv, Searching
  <2>3. Own("command")' BY <2>1, Zenon DEF Own
  <2>4. RequestFor("command", q)' BY <2>1, <2>2, Zenon DEF RequestFor, Request, UidsOnBus, bus
  <2>5. OneTransaction' /\ FrameTypes' BY <1>1, <1>3, <2>1, <2>3, <2>4, AskBegins, Zenon
  <2>6. Searching' BY <1>1, <2>1, IdleSearching, Zenon DEF bus
  <2>7. ClientTypes' BY <1>4, <2>1, Zenon DEF ClientTypes, bus
  <2> QED BY <2>5, <2>6, <2>7, TypesSplitPrime, Zenon DEF IInv
<1> QED BY <1>5, <1>6, Zenon

\* The return of mute or unmute preserves the invariant.
LEMMA CommandReturnsStep == ASSUME IInv, Orderly, command_returns PROVE IInv'
<1> USE ConstantFacts
<1>1. /\ pc = "wait_command" /\ pc' = "idle" /\ future' = Destroy({"command"})
      /\ UNCHANGED <<range, searchSpace, searchCount, found, discovered, wanted, futures, handling, wire, bus>>
  BY Zenon DEF command_returns
<1>2. Ready("command") BY NoTimeout, Zenon DEF command_returns
<1>3. Resting BY <1>1, <1>2, ReadyRests, Zenon DEF Own
<1>4. OneTransaction' /\ FrameTypes' BY <1>1, <1>3, RestGoesOn, Zenon DEF wire
<1>5. Searching' BY <1>1, Zenon DEF IInv, Searching, InSearch, StillCovered, bus
<1>6. ClientTypes' BY <1>1, TypesSplit, Zenon DEF ClientTypes, bus, IInv
<1> QED BY <1>4, <1>5, <1>6, TypesSplitPrime, Zenon DEF IInv

\* get preserves the invariant.
LEMMA GetStep ==
  ASSUME IInv, Orderly, NEW who \in GetTargets, NEW f \in Gets, get(who, f)
  PROVE  IInv'
<1> DEFINE q == Request("get", who, Any, Any)
<1> USE ConstantFacts
<1>1. Resting /\ pc = "idle" BY CallRests, Zenon DEF get
<1>2. Ask(f, q) /\ UNCHANGED <<client, handling, up, bus>> BY Zenon DEF get
<1>3. q \in Requests BY BusAssumption, Zenon DEF Request, Requests
<1>4. who \in UidsOnBus BY DEF Orderly, OnEveryBus, UidsOnBus, IInv, Searching
<1>5. Own(f)' BY <1>1, <1>2, Zenon DEF Own, client
<1>6. RequestFor(f, q)' BY <1>2, <1>4, Zenon DEF RequestFor, Request, UidsOnBus, bus
<1>7. OneTransaction' /\ FrameTypes' BY <1>1, <1>2, <1>3, <1>5, <1>6, AskBegins, Zenon
<1>8. Searching' BY <1>1, <1>2, IdleSearching, Zenon DEF client, bus
<1>9. ClientTypes' BY <1>2, TypesSplit, Zenon DEF ClientTypes, client, bus, IInv
<1> QED BY <1>7, <1>8, <1>9, TypesSplitPrime, Zenon DEF IInv

\* set preserves the invariant: no UID changes.
LEMMA SetStep ==
  ASSUME IInv, Orderly, NEW s \in Sets, set(s[1], s[2])
  PROVE  IInv'
<1> DEFINE q == Request("set", s[1], s[2], s[2])
<1> USE ConstantFacts
<1>1. Resting /\ pc = "idle" BY CallRests, Zenon DEF set
<1>2. down' = Transmit(down, q) /\ UNCHANGED <<client, future, futures, handling, up, bus>> BY Zenon DEF set
<1>3. q \in Requests BY BusAssumption, Zenon DEF Request, Requests
<1>4. FireAndForget(q) BY Zenon DEF Orderly, FireAndForget, Request
<1>5. OneTransaction' /\ FrameTypes' BY <1>1, <1>2, <1>3, <1>4, SendOnly, Zenon DEF client
<1>6. Searching' BY <1>1, <1>2, IdleSearching, Zenon DEF client, bus
<1>7. ClientTypes' BY <1>2, TypesSplit, Zenon DEF ClientTypes, client, bus, IInv
<1> QED BY <1>5, <1>6, <1>7, TypesSplitPrime, Zenon DEF IInv

-----------------------------------------------------------------------------
(* The search, one lemma per action. *)

\* startDiscovery begins with one range that covers everything wanted.
LEMMA StartDiscoveryStep ==
  ASSUME IInv, Orderly, NEW s \in SearchRanges, startDiscovery(s[1], s[2], s[3])
  PROVE  IInv'
<1> DEFINE r == <<s[1], s[2]>>
<1> USE ConstantFacts
<1>1. Resting BY CallRests, Zenon DEF startDiscovery
<1>2. /\ pc' = "search" /\ searchSpace' = <<r>> /\ searchCount' = s[3] /\ found' = <<>>
      /\ wanted' = {uid[d] : d \in {e \in Devices : ~ muted[e] /\ Covers(r, uid[e])}}
      /\ UNCHANGED <<range, discovered, future, futures, handling, wire, bus>>
  BY Zenon DEF startDiscovery
<1>3. s[1] \in 1 .. Broadcast - 1 /\ s[2] \in 1 .. Broadcast - 1 /\ s[3] \in Nat BY BusAssumption, Zenon
<1>4. r \in Uids \X Uids /\ r[1] >= 1 BY <1>3 DEF Uids
<1>5. Members(searchSpace') = {r} /\ Members(found') = {} BY <1>2 DEF Members
<1>6. uid \in [Devices -> Uids] /\ muted \in [Devices -> BOOLEAN] BY Zenon DEF IInv, TypeOK
<1>7. OneTransaction' /\ FrameTypes'
  <2>1. future' = Destroy({})
    <3>1. Destroy({}) = [f \in Futures |-> future[f]] BY Zenon DEF Destroy
    <3> QED BY <1>2, <3>1, Zenon DEF IInv, TypeOK
  <2> QED BY <1>1, <1>2, <2>1, RestGoesOn, Zenon DEF wire
<1>8. ClientTypes'
  <2>1. wanted' \subseteq Uids BY <1>2, <1>6, Zenon
  <2>2. searchSpace' \in Seq(Uids \X Uids) /\ found' \in Seq(Uids) /\ searchCount' \in Nat
    BY <1>2, <1>3, <1>4
  <2> QED BY <1>2, <2>1, <2>2, TypesSplit, Zenon DEF ClientTypes, IInv, bus
<1>9. Searching'
  <2>1. \A u \in wanted' : Covers(r, u) /\ \E d \in Devices : u = uid[d] BY <1>2, Zenon
  <2>2. \A d \in Devices : uid[d] \in wanted' => ~ muted[d]
    <3>1. \A d, e \in Devices : uid[d] = uid[e] => d = e BY Zenon DEF Orderly, IInv, Searching
    <3> QED BY <1>2, <3>1, Zenon
  <2>3. StillCovered' BY <1>2, <1>5, <2>1, Zenon DEF StillCovered, Covers
  <2>4. uid' = uid /\ muted' = muted /\ range' = range BY <1>2, Zenon DEF bus
  <2>5. wanted' \subseteq UidsOnBus' BY <2>1, <2>4, Zenon DEF UidsOnBus
  <2>6. InSearch' BY <1>2, Zenon DEF InSearch
  <2>7. \A a \in Members(searchSpace') : a[1] >= 1 BY <1>4, <1>5, Zenon
  <2> QED BY <1>5, <2>2, <2>3, <2>4, <2>5, <2>6, <2>7, Zenon DEF Searching, IInv, Members
<1> QED BY <1>7, <1>8, <1>9, TypesSplitPrime, Zenon DEF IInv

\* Taking the next range from the search space preserves the invariant.
LEMMA SearchStartsPass == ASSUME IInv, Orderly, search PROVE IInv'
<1> DEFINE q == buildDiscoveryRequest(Head(searchSpace))
<1> USE ConstantFacts
<1>1. /\ pc = "search" /\ pc' = "wait_branch" /\ Len(searchSpace) > 0 /\ searchCount > 0
      /\ range' = Head(searchSpace) /\ searchSpace' = Tail(searchSpace)
      /\ searchCount' = searchCount - 1 /\ Ask("branch", q)
      /\ UNCHANGED <<found, discovered, wanted, handling, up, bus>>
  BY Zenon DEF search, MoreToSearch
<1>2. Resting BY <1>1, SearchRests, Zenon
<1>3. ClientTypes BY TypesSplit, Zenon DEF IInv
<1>4. /\ searchSpace \in Seq(Uids \X Uids) /\ searchSpace # <<>>
      /\ searchCount \in Nat
  BY <1>1, <1>3 DEF ClientTypes
<1>5. /\ Members(searchSpace) = {range'} \union Members(searchSpace')
      /\ range' \in Uids \X Uids /\ searchSpace' \in Seq(Uids \X Uids)
  BY <1>1, <1>4, MembersTail, Zenon
<1>6. PICK z \in Requests : z = q
  BY <1>1, <1>5, UidOfUid, Zenon DEF buildDiscoveryRequest, Request, Requests
<1>7. Own("branch")' BY <1>1, Zenon DEF Own
<1>8. RequestFor("branch", z)'
  <2>1. z = buildDiscoveryRequest(range') BY <1>1, <1>6, Zenon
  <2> QED BY <2>1, Zenon DEF RequestFor, buildDiscoveryRequest
<1>9. OneTransaction' /\ FrameTypes' BY <1>1, <1>2, <1>6, <1>7, <1>8, AskBegins, Zenon
<1>10. ClientTypes'
  <2>1. searchCount' \in Nat BY <1>1, <1>4
  <2> QED BY <1>1, <1>3, <1>5, <2>1, Zenon DEF ClientTypes, bus
<1>11. Searching'
  <2>1. UNCHANGED <<uid, muted, found, wanted>> BY <1>1, Zenon DEF bus
  <2>2. StillCovered' BY <1>1, <1>5, <2>1, Zenon DEF IInv, Searching, StillCovered, Covers
  <2>3. range'[1] >= 1 /\ \A a \in Members(searchSpace') : a[1] >= 1
    BY <1>5, Zenon DEF IInv, Searching
  <2>4. InSearch /\ InSearch' BY <1>1, Zenon DEF InSearch
  <2>5. UidsOnBus' = UidsOnBus /\ Members(found') = Members(found) BY <2>1, Zenon DEF UidsOnBus
  <2> QED BY <1>1, <2>1, <2>2, <2>3, <2>4, <2>5, Zenon DEF IInv, Searching
<1> QED BY <1>9, <1>10, <1>11, TypesSplitPrime, Zenon DEF IInv

\* The end of the search: with no range left, everything wanted is found.
LEMMA SearchReturnsStep == ASSUME IInv, Orderly, search_returns PROVE IInv'
<1> USE ConstantFacts
<1>1. /\ pc = "search" /\ pc' = "idle" /\ discovered' = found
      /\ UNCHANGED <<range, searchSpace, searchCount, found, wanted, future, futures, handling, wire, bus>>
  BY Zenon DEF search_returns
<1>2. Resting BY <1>1, SearchRests, Zenon
<1>3. ClientTypes BY TypesSplit, Zenon DEF IInv
<1>4. OneTransaction' /\ FrameTypes'
  <2>1. future' = Destroy({})
    <3>1. Destroy({}) = [f \in Futures |-> future[f]] BY Zenon DEF Destroy
    <3> QED BY <1>1, <3>1, Zenon DEF IInv, TypeOK
  <2> QED BY <1>1, <1>2, <2>1, RestGoesOn, Zenon DEF wire
<1>5. ClientTypes' BY <1>1, <1>3, Zenon DEF ClientTypes, bus
<1>6. Searching'
  <2>1. ASSUME searchSpace = <<>> PROVE wanted \subseteq Members(found)
    <3>1. Members(searchSpace) = {} BY <2>1 DEF Members
    <3> QED BY <1>1, <3>1, Zenon DEF IInv, Searching, StillCovered
  <2> QED BY <1>1, <2>1, Zenon DEF IInv, Searching, InSearch, StillCovered, bus
<1> QED BY <1>4, <1>5, <1>6, TypesSplitPrime, Zenon DEF IInv

\* A pass that ends leaves the transaction at rest and the types right.
LEMMA NextPassStep ==
  ASSUME IInv, Resting, NEW ranges \in Seq(Uids \X Uids), NextPass(ranges)
  PROVE  OneTransaction' /\ TypeOK'
<1> USE ConstantFacts
<1>1. /\ pc' = "search" /\ searchSpace' = ranges /\ future' = Destroy({"branch", "mute"})
      /\ UNCHANGED <<range, searchCount, found, discovered, wanted, futures, handling, wire, bus>>
  BY Zenon DEF NextPass
<1>2. OneTransaction' /\ FrameTypes' BY <1>1, RestGoesOn, Zenon DEF wire
<1>3. ClientTypes' BY <1>1, TypesSplit, Zenon DEF ClientTypes, bus, IInv
<1> QED BY <1>2, <1>3, TypesSplitPrime, Zenon

\* A pass that ends preserves Searching when the new ranges cover what the
\* current one covers and is not found yet, and all that is found is muted.
LEMMA NextPassSearching ==
  ASSUME IInv, Resting, InSearch, pc # "search", NEW ranges \in Seq(Uids \X Uids), NextPass(ranges),
         \A u \in wanted \ Members(found) :
            (\E r \in Members(searchSpace) \union {range} : Covers(r, u)) =>
              \E r \in Members(ranges) : Covers(r, u),
         \A r \in Members(ranges) : r[1] >= 1
  PROVE  Searching'
<1>1. /\ pc' = "search" /\ searchSpace' = ranges
      /\ UNCHANGED <<range, found, wanted, uid, muted>>
  BY Zenon DEF NextPass, bus
<1>2. InSearch' BY <1>1, Zenon DEF InSearch
<1>3. StillCovered'
  <2>1. ASSUME NEW u \in wanted \ Members(found) PROVE \E r \in Members(ranges) : Covers(r, u)
    BY Zenon DEF IInv, Searching, StillCovered, InSearch
  <2> QED BY <1>1, <2>1, Zenon DEF StillCovered, Members, Covers
<1>4. UidsOnBus' = UidsOnBus /\ Members(found') = Members(found) /\ Members(searchSpace') = Members(ranges)
  BY <1>1, Zenon DEF UidsOnBus, Members
<1>5. down = <<>> BY Zenon DEF Resting
<1> QED BY <1>1, <1>2, <1>3, <1>4, <1>5, Zenon DEF IInv, Searching

\* The state in which a pass looks at its reply.
LEMMA BranchRests ==
  ASSUME IInv, Orderly, pc = "wait_branch", Ready("branch")
  PROVE  /\ Resting /\ InSearch /\ future["branch"].reply.kind = "branch"
         /\ future["branch"].reply \in Replies /\ Informative(future["branch"].reply)
<1>1. Own("branch") BY Zenon DEF Own
<1>2. Resting BY <1>1, ReadyRests, Zenon
<1>3. future["branch"].state = "Ready" BY Zenon DEF Ready
<1>4. future["branch"].reply.kind \in Kinds("branch") /\ Informative(future["branch"].reply)
  BY <1>3, ConstantFacts, Zenon DEF IInv, OneTransaction
<1>5. future["branch"].reply \in Replies BY ConstantFacts, Zenon DEF IInv, TypeOK
<1> QED BY <1>2, <1>4, <1>5, Zenon DEF Kinds, InSearch

\* "timeout": no device of the range answers, so all of them are found.
LEMMA BranchEmptyStep == ASSUME IInv, Orderly, branch_empty PROVE IInv'
<1>1. pc = "wait_branch" /\ Ready("branch") /\ NextPass(searchSpace)
      /\ (future["branch"].reply.kind # "branch" \/ future["branch"].reply.src = Any)
  BY Zenon DEF branch_empty
<1>2. Resting /\ InSearch /\ future["branch"].reply.src = Any /\ Informative(future["branch"].reply)
  BY <1>1, BranchRests, Zenon
<1>3. searchSpace \in Seq(Uids \X Uids) BY Zenon DEF IInv, TypeOK
<1>4. ASSUME NEW u \in wanted \ Members(found), Covers(range, u) PROVE FALSE
  <2>1. PICK d \in Devices : u = uid[d] BY <1>2, Zenon DEF IInv, Searching, UidsOnBus
  <2>2. muted[d] BY <1>2, <1>4, <2>1, Zenon DEF Informative
  <2> QED BY <1>2, <2>1, <2>2, Zenon DEF IInv, Searching
<1>5. OneTransaction' /\ TypeOK' BY <1>1, <1>2, <1>3, NextPassStep, Zenon
<1>6. \A r \in Members(searchSpace) : r[1] >= 1 BY Zenon DEF IInv, Searching
<1>7. Searching' BY <1>1, <1>2, <1>3, <1>4, <1>6, NextPassSearching, Zenon
<1> QED BY <1>5, <1>7, Zenon DEF IInv

\* "collision -> split": the two halves cover the range.
LEMMA BranchCollisionStep == ASSUME IInv, Orderly, branch_collision PROVE IInv'
<1> DEFINE ranges == searchSpace \o <<Lower(range), Upper(range)>>
<1>1. /\ pc = "wait_branch" /\ Ready("branch") /\ NextPass(ranges)
      /\ future["branch"].reply.src = Broadcast
  BY Zenon DEF branch_collision
<1>2. Resting /\ InSearch /\ Informative(future["branch"].reply) BY <1>1, BranchRests, Zenon
<1>3. /\ searchSpace \in Seq(Uids \X Uids) /\ range \in Uids \X Uids
      /\ uid \in [Devices -> 1 .. Broadcast - 1] /\ wanted \subseteq Uids /\ range[1] >= 1
  BY ConstantFacts, Zenon DEF IInv, TypeOK, Searching
<1>4. PICK d \in Devices : Covers(range, uid[d]) BY <1>1, <1>2, Zenon DEF Informative
<1>5. uid[d] \in 1 .. Broadcast - 1 BY <1>3, Zenon
<1>6. /\ Lower(range) \in Uids \X Uids /\ Upper(range) \in Uids \X Uids
      /\ Lower(range)[1] >= 1 /\ Upper(range)[1] >= 1
      /\ \A u \in Uids : Covers(range, u) => Covers(Lower(range), u) \/ Covers(Upper(range), u)
  BY <1>3, <1>4, <1>5, SplitCovers, Zenon
<1>7. /\ Members(ranges) = Members(searchSpace) \union {Lower(range), Upper(range)}
      /\ ranges \in Seq(Uids \X Uids)
  <2> DEFINE T == Uids \X Uids
  <2>1. searchSpace \in Seq(T) /\ Lower(range) \in T /\ Upper(range) \in T BY <1>3, <1>6, Zenon
  <2> HIDE DEF T
  <2>2. /\ Members(ranges) = Members(searchSpace) \union {Lower(range), Upper(range)}
        /\ ranges \in Seq(T)
    BY <2>1, MembersSplit, Zenon
  <2> QED BY <2>2, Zenon DEF T
<1> HIDE DEF ranges
<1>8. PICK z \in Seq(Uids \X Uids) : z = ranges BY <1>7, Zenon
<1>9. NextPass(z) BY <1>1, <1>8, Zenon DEF NextPass
<1>10. OneTransaction' /\ TypeOK' BY <1>2, <1>9, NextPassStep, Zenon
<1>11. \A r \in Members(z) : r[1] >= 1 BY <1>6, <1>7, <1>8, Zenon DEF IInv, Searching
<1>12. \A u \in wanted : (\E r \in Members(searchSpace) \union {range} : Covers(r, u)) =>
         \E r \in Members(z) : Covers(r, u)
  BY <1>3, <1>6, <1>7, <1>8, Zenon
<1>13. Searching' BY <1>1, <1>2, <1>9, <1>11, <1>12, NextPassSearching, Zenon
<1> QED BY <1>10, <1>13, Zenon DEF IInv

\* "found": the device is listed and told to be silent.
LEMMA BranchFoundStep == ASSUME IInv, Orderly, branch_found PROVE IInv'
<1> DEFINE src == future["branch"].reply.src
<1> USE ConstantFacts
<1>1. /\ pc = "wait_branch" /\ pc' = "wait_mute" /\ Ready("branch") /\ src \notin {Any, Broadcast}
      /\ found' = IF src \in Members(found) THEN found ELSE Append(found, src)
      /\ Ask("mute", Request("mute", src, Any, Any))
      /\ UNCHANGED <<range, searchSpace, searchCount, discovered, wanted, handling, up, bus>>
  BY Zenon DEF branch_found
<1>2. /\ Resting /\ InSearch /\ Informative(future["branch"].reply) /\ src \in Uids
  BY <1>1, BranchRests, Zenon DEF Replies
<1>3. src \in UidsOnBus BY <1>1, <1>2, Zenon DEF Informative
<1>4. found \in Seq(Uids) /\ ClientTypes BY TypesSplit, Zenon DEF IInv, TypeOK
<1> HIDE DEF src
<1>5. found' \in Seq(Uids) /\ Members(found') = Members(found) \union {src}
  BY <1>1, <1>2, <1>4, MembersAppend
<1>6. PICK z \in Requests : z = Request("mute", src, Any, Any) BY <1>2, Zenon DEF Request, Requests
<1>7. UidsOnBus' = UidsOnBus BY <1>1, Zenon DEF UidsOnBus, bus
<1>8. Own("mute")' BY <1>1, Zenon DEF Own
<1>9. z.pid = "mute" /\ z.dst = src BY <1>6, Zenon DEF Request
<1>10. RequestFor("mute", z)' BY <1>3, <1>5, <1>7, <1>9, Zenon DEF RequestFor, Members
<1>11. OneTransaction' /\ FrameTypes' /\ down' = <<z>> BY <1>1, <1>2, <1>6, <1>8, <1>10, AskBegins, Zenon
<1>12. ClientTypes' BY <1>1, <1>4, <1>5, Zenon DEF ClientTypes, bus
<1>13. Searching'
  <2>1. UNCHANGED <<uid, muted, range, searchSpace, wanted>> BY <1>1, Zenon DEF bus
  <2>2. StillCovered' BY <1>1, <1>5, <2>1, Zenon DEF IInv, Searching, StillCovered, Covers, Members
  <2>3. InSearch' BY <1>1, Zenon DEF InSearch
  <2>4. down' # <<>> /\ down'[1].dst = src BY <1>9, <1>11, Zenon
  <2>5. \A d \in Devices : uid[d] \in Members(found') => muted[d] \/ uid[d] = src
    BY <1>1, <1>2, <1>5, Zenon DEF IInv, Searching
  <2>6. wanted' \subseteq UidsOnBus' BY <1>2, <1>7, <2>1, Zenon DEF IInv, Searching
  <2> QED BY <1>1, <1>2, <1>5, <1>7, <2>1, <2>2, <2>3, <2>4, <2>5, <2>6, Zenon DEF IInv, Searching
<1> QED BY <1>11, <1>12, <1>13, TypesSplitPrime, Zenon DEF IInv

\* The mute has been answered: the range is searched again.
LEMMA FoundMutedStep == ASSUME IInv, Orderly, found_muted PROVE IInv'
<1> DEFINE ranges == Append(searchSpace, range)
<1> USE ConstantFacts
<1>1. pc = "wait_mute" /\ NextPass(ranges) BY Zenon DEF found_muted
<1>2. Ready("mute") BY NoTimeout, Zenon DEF found_muted
<1>3. Resting /\ InSearch BY <1>1, <1>2, ReadyRests, Zenon DEF Own, InSearch
<1>4. searchSpace \in Seq(Uids \X Uids) /\ range \in Uids \X Uids BY Zenon DEF IInv, TypeOK
<1>5. Members(ranges) = Members(searchSpace) \union {range} /\ ranges \in Seq(Uids \X Uids)
  BY <1>4, MembersAppend
<1> HIDE DEF ranges
<1>6. PICK z \in Seq(Uids \X Uids) : z = ranges BY <1>5, Zenon
<1>7. NextPass(z) BY <1>1, <1>6, Zenon DEF NextPass
<1>8. OneTransaction' /\ TypeOK' BY <1>3, <1>7, NextPassStep, Zenon
<1>9. \A r \in Members(z) : r[1] >= 1 BY <1>5, <1>6, Zenon DEF IInv, Searching
<1>10. Searching' BY <1>1, <1>3, <1>5, <1>6, <1>7, <1>9, NextPassSearching, Zenon
<1> QED BY <1>8, <1>10, Zenon DEF IInv

-----------------------------------------------------------------------------
(* The ingress thread and the bus. *)

\* RdmApi::handle gives the reply to the future that waits for it.
LEMMA HandleStep == ASSUME IInv, Orderly, handle PROVE IInv'
<1> USE ConstantFacts
<1>1. /\ ~ handling /\ handling' /\ up # <<>> /\ up' = Tail(up)
      /\ future' = IF futures = <<>> THEN future ELSE Set(Head(futures), Head(up))
      /\ handling' \in BOOLEAN
      /\ UNCHANGED <<client, futures, down, bus>>
  BY Zenon DEF handle
<1>2. Len(up) = 1 /\ up \in Seq(Replies) /\ down = <<>> BY <1>1, Zenon DEF IInv, OneTransaction, TypeOK
<1>3. up' = <<>> /\ Head(up) = up[1] /\ up[1] \in Replies BY <1>1, <1>2
<1>4. UNCHANGED <<pc, range, searchSpace, searchCount, found, discovered, wanted, uid, muted>>
  BY <1>1, Zenon DEF client, bus
<1>5. ClientTypes' BY <1>4, TypesSplit, Zenon DEF ClientTypes, IInv
<1>6. Searching'
  <2>1. UidsOnBus' = UidsOnBus /\ InSearch' = InSearch BY <1>4, Zenon DEF UidsOnBus, InSearch
  <2>2. StillCovered' BY <1>4 DEF IInv, Searching, StillCovered, Members, Covers
  <2> QED BY <1>1, <1>2, <1>4, <2>1, <2>2, Zenon DEF IInv, Searching, Members
<1>7. \A g : Own(g)' = Own(g) /\ Kinds(g)' = Kinds(g) BY <1>4, Zenon DEF Own, Kinds
<1>8. \A r : Informative(r)' = Informative(r) BY <1>4, Zenon DEF Informative, UidsOnBus, Covers
<1>9. CASE futures = <<>>
  <2>1. pc = "idle" BY <1>1, <1>9, Zenon DEF IInv, OneTransaction, Quiet
  <2>2. FrameTypes' BY <1>1, <1>3, <1>9, TypesSplit DEF FrameTypes, IInv
  <2>3. OneTransaction'
    BY <1>1, <1>2, <1>3, <1>4, <1>7, <1>9, <2>1, Zenon DEF IInv, OneTransaction
  <2> QED BY <1>5, <1>6, <2>2, <2>3, TypesSplitPrime, Zenon DEF IInv
<1>10. CASE futures # <<>>
  <2>1. PICK f \in Futures : Awaited(f) BY <1>10, Zenon DEF IInv, OneTransaction
  <2>2. /\ futures = <<f>> /\ Own(f) /\ future[f].state = "Busy" /\ ReplyFor(f, up[1])
    BY <1>1, <1>2, <2>1, Zenon DEF Awaited
  <2>3. future \in [Futures -> [state : {"none", "Busy", "Ready", "Timeout"}, reply : Replies]]
    BY Zenon DEF IInv, TypeOK
  <2>4. future' = [future EXCEPT ![f] = [state |-> "Ready", reply |-> up[1]]]
    BY <1>1, <1>3, <1>10, <2>2 DEF Set
  <2>5. /\ future'[f] = [state |-> "Ready", reply |-> up[1]]
        /\ \A g \in Futures : g # f => future'[g] = future[g]
    BY <2>3, <2>4, Zenon
  <2>6. future' \in [Futures -> [state : {"none", "Busy", "Ready", "Timeout"}, reply : Replies]]
    BY <1>3, <2>3, <2>4, Zenon
  <2>7. FrameTypes' BY <1>1, <1>3, <2>6, TypesSplit DEF FrameTypes, IInv
  <2>8. up[1].kind \in Kinds(f) /\ (f = "branch" => Informative(up[1])) BY <2>2, Zenon DEF ReplyFor
  <2>9. Awaited(f)' BY <1>1, <1>7, <2>2, <2>5, SMTT(30) DEF Awaited
  <2>10. \A g \in Futures : future'[g].state # "Busy"
    <3>1. \A g \in Futures : future[g].state = "Busy" => futures = <<g>>
      BY Zenon DEF IInv, OneTransaction
    <3>2. \A g \in Futures : futures = <<g>> => g = f BY <2>2, Zenon
    <3> QED BY <2>5, <3>1, <3>2
  <2>11. \A g \in Futures : future'[g].state = "Ready" => future'[g].reply.kind \in Kinds(g)
    <3>1. \A g \in Futures : future[g].state = "Ready" => future[g].reply.kind \in Kinds(g)
      BY Zenon DEF IInv, OneTransaction
    <3>2. future'[f].reply.kind \in Kinds(f) BY <2>5, <2>8
    <3>3. ASSUME NEW g \in Futures, future'[g].state = "Ready", g # f
          PROVE  future'[g].reply.kind \in Kinds(g)
      <4>1. future'[g] = future[g] BY <2>5, <3>3, Zenon
      <4> QED BY <3>1, <3>3, <4>1, Zenon
    <3> QED BY <3>2, <3>3, Zenon
  <2>12. pc # "search" /\ (pc = "wait_branch" => f = "branch") BY <2>2, Zenon DEF Own
  <2>13. \A g \in Futures \ Gets : Own(g) => g = f BY <2>2, Zenon DEF Own
  <2>14. pc' = "wait_branch" => Informative(future["branch"].reply)'
    <3>1. PICK z : z = up[1] BY Zenon
    <3>2. f = "branch" => Informative(z)' BY <1>8, <2>8, <3>1, Zenon
    <3>3. f = "branch" => future'["branch"].reply = z BY <2>5, <3>1
    <3> QED BY <1>4, <2>12, <3>2, <3>3, Zenon DEF Informative
  <2>15. OneTransaction'
    <3>1. down' = <<>> /\ up' = <<>> /\ futures' # <<>> /\ pc' # "search"
      BY <1>1, <1>2, <1>3, <1>4, <2>2, <2>12, Zenon
    <3>2. \E g \in Futures : Awaited(g)' BY <2>9, Zenon
    <3>3. \A g \in Futures \ Gets : Own(g)' => future'[g].state \in {"Busy", "Ready"}
      <4>1. future'[f].state = "Ready" BY <2>5
      <4> QED BY <1>7, <2>13, <4>1, Zenon
    <3>4. \A g \in Futures : future'[g].state = "Ready" => future'[g].reply.kind \in Kinds(g)'
      BY <1>7, <2>11, Zenon
    <3> QED BY <2>10, <2>14, <3>1, <3>2, <3>3, <3>4, Zenon DEF OneTransaction
  <2> QED BY <1>5, <1>6, <2>7, <2>15, TypesSplitPrime, Zenon DEF IInv
<1> QED BY <1>9, <1>10, Zenon

\* Clearing the list forgets only the future that has its reply.
LEMMA HandleClearStep == ASSUME IInv, Orderly, handle_clear PROVE IInv'
<1> USE ConstantFacts
<1>1. /\ handling /\ ~ handling' /\ futures' = <<>> /\ handling' \in BOOLEAN
      /\ UNCHANGED <<client, future, wire, bus>>
  BY Zenon DEF handle_clear
<1>2. down = <<>> /\ up = <<>> BY <1>1, Zenon DEF IInv, OneTransaction
<1>3. UNCHANGED <<pc, range, searchSpace, searchCount, found, discovered, wanted, uid, muted, down, up>>
  BY <1>1, Zenon DEF client, bus, wire
<1>4. ClientTypes' BY <1>3, TypesSplit, Zenon DEF ClientTypes, IInv
<1>5. FrameTypes' BY <1>1, <1>3, TypesSplit DEF FrameTypes, IInv
<1>6. Searching'
  <2>1. UidsOnBus' = UidsOnBus /\ InSearch' = InSearch BY <1>3, Zenon DEF UidsOnBus, InSearch
  <2>2. StillCovered' BY <1>3 DEF IInv, Searching, StillCovered, Members, Covers
  <2> QED BY <1>2, <1>3, <2>1, <2>2, Zenon DEF IInv, Searching, Members
<1>7. \A g : Own(g)' = Own(g) /\ Kinds(g)' = Kinds(g) BY <1>3, Zenon DEF Own, Kinds
<1>8. \A r : Informative(r)' = Informative(r) BY <1>3, Zenon DEF Informative, UidsOnBus, Covers
<1>9. \A g \in Futures : future[g].state # "Busy"
  <2>1. ASSUME NEW g \in Futures, future[g].state = "Busy" PROVE FALSE
    <3>1. futures = <<g>> BY <2>1, Zenon DEF IInv, OneTransaction
    <3>2. PICK f \in Futures : Awaited(f) BY <3>1, Zenon DEF IInv, OneTransaction
    <3>3. f = g /\ future[f].state = "Ready" BY <1>1, <3>1, <3>2, SMTT(30) DEF Awaited
    <3> QED BY <2>1, <3>3, Zenon
  <2> QED BY <2>1, Zenon
<1>10. OneTransaction'
  BY <1>1, <1>2, <1>3, <1>7, <1>8, <1>9, Zenon DEF IInv, OneTransaction, Quiet
<1> QED BY <1>4, <1>5, <1>6, <1>10, TypesSplitPrime, Zenon DEF IInv

\* Only a SET that carries a UID changes one.
LEMMA UidsStay ==
  ASSUME IInv, NEW q \in Requests, q.pid = "set" => q.from = Any
  PROVE  [d \in Devices |-> UidAfter(d, q)] = uid
<1>1. \A d \in Devices : UidAfter(d, q) = uid[d] BY Zenon DEF UidAfter
<1>2. uid \in [Devices -> Uids] BY Zenon DEF IInv, TypeOK
<1> QED BY <1>1, <1>2, Zenon

\* Whatever the bus sends back is a frame with a legal UID and kind.
LEMMA BusReplyTypes ==
  ASSUME IInv, NEW q \in Requests, NEW r \in BusReplies(q)
  PROVE  r \in Replies
<1>1. uid \in [Devices -> Uids] BY Zenon DEF IInv, TypeOK
<1>2. ReplyKind(q) \in {"none", "branch", "mute", "unmute", "device_info"}
  BY Zenon DEF ReplyKind, Requests
<1>3. \A d \in Devices : ReplyOf(d, q) \in Replies BY <1>1, <1>2, Zenon DEF ReplyOf, Replies
<1>4. {[src |-> IF Repliers(q) = {} THEN Any ELSE Broadcast, kind |-> "branch"]} \subseteq Replies
  BY ConstantFacts DEF Replies
<1>5. {ReplyOf(d, q) : d \in {e \in Repliers(q) : \A o \in Repliers(q) : e <= o}} \subseteq Replies
  <2>1. Repliers(q) \subseteq Devices BY Zenon DEF Repliers
  <2> QED BY <1>3, <2>1, Zenon
<1> QED BY <1>4, <1>5, Zenon DEF BusReplies

\* The bus answers a DISC_UNIQUE_BRANCH, and the answer is true.
LEMMA BranchAnswer ==
  ASSUME IInv, NEW q, q = buildDiscoveryRequest(range)
  PROVE  /\ BusReplies(q) # {}
         /\ \A r \in BusReplies(q) : r.kind = "branch" /\ Informative(r)
<1> USE ConstantFacts
<1>1. q.pid = "branch" /\ q.dst = Broadcast /\ q.from = range[1] /\ q.to = range[2]
  BY UidOfUid, Zenon DEF buildDiscoveryRequest, Request, IInv, TypeOK
<1>2. uid \in [Devices -> 1 .. Broadcast - 1] BY Zenon DEF IInv, Searching
<1>3. Repliers(q) = {d \in Devices : ~ muted[d] /\ Covers(range, uid[d])}
  BY <1>1, Zenon DEF Repliers, ItIsForMe, Covers
<1> DEFINE ds == Repliers(q)
<1>4. CASE \E d \in Devices : ds = {d}
  <2>1. PICK d \in Devices : ds = {d} BY <1>4, Zenon
  <2>2. d <= d BY BusAssumption
  <2>3. {e \in ds : \A o \in ds : e <= o} = {d} BY <2>1, <2>2, Zenon
  <2>4. BusReplies(q) = {ReplyOf(d, q)} BY <1>4, <2>3, Zenon DEF BusReplies
  <2>5. ReplyOf(d, q) = [src |-> uid[d], kind |-> "branch"] BY <1>1, Zenon DEF ReplyOf, ReplyKind
  <2>6. uid[d] # Any /\ uid[d] # Broadcast BY <1>2 DEF Any
  <2>7. Informative([src |-> uid[d], kind |-> "branch"]) BY <2>6, Zenon DEF Informative, UidsOnBus
  <2> QED BY <2>4, <2>5, <2>7
<1>5. CASE ~ \E d \in Devices : ds = {d}
  <2>1. BusReplies(q) = {[src |-> IF ds = {} THEN Any ELSE Broadcast, kind |-> "branch"]}
    BY <1>1, <1>5, Zenon DEF BusReplies
  <2>2. Any # Broadcast BY DEF Any
  <2>3. CASE ds = {}
    <3>1. \A d \in Devices : Covers(range, uid[d]) => muted[d] BY <1>3, <2>3, Zenon
    <3>2. Informative([src |-> Any, kind |-> "branch"]) BY <2>2, <3>1, Zenon DEF Informative
    <3> QED BY <2>1, <2>3, <3>2
  <2>4. CASE ds # {}
    <3>1. \E d \in Devices : Covers(range, uid[d]) BY <1>3, <2>4, Zenon
    <3>2. Informative([src |-> Broadcast, kind |-> "branch"]) BY <2>2, <3>1, Zenon DEF Informative
    <3> QED BY <2>1, <2>4, <3>2
  <2> QED BY <2>3, <2>4, Zenon
<1> QED BY <1>4, <1>5, Zenon

\* A request for one device is answered by that device alone.
LEMMA UnicastAnswer ==
  ASSUME IInv, Orderly, NEW q \in Requests, q.dst \in UidsOnBus, q.pid # "branch"
  PROVE  /\ BusReplies(q) # {} /\ q.dst # Broadcast
         /\ \A r \in BusReplies(q) : r.kind = ReplyKind(q)
<1> USE ConstantFacts
<1>1. PICK d \in Devices : q.dst = uid[d] BY Zenon DEF UidsOnBus
<1>2. uid \in [Devices -> 1 .. Broadcast - 1] BY Zenon DEF IInv, Searching
<1>3. uid[d] \in 1 .. Broadcast - 1 BY <1>2, Zenon
<1>4. q.dst # Broadcast BY <1>1, <1>3
<1>5. \A e \in Devices : uid[e] = uid[d] => e = d BY Zenon DEF IInv, Searching, Orderly
<1>6. Repliers(q) = {d} BY <1>1, <1>4, <1>5, Zenon DEF Repliers, ItIsForMe
<1>7. d <= d BY BusAssumption
<1>8. BusReplies(q) = {ReplyOf(d, q)} BY <1>6, <1>7 DEF BusReplies
<1> QED BY <1>4, <1>8 DEF ReplyOf

\* What the bus does with a request, in the terms of the lemmas above.
LEMMA BusEffect ==
  ASSUME IInv, handleMaster
  PROVE  /\ down[1] \in Requests /\ ~ handling /\ down' = <<>> /\ down # <<>> /\ up = <<>>
         /\ BusReplies(down[1]) # {} => \E r \in BusReplies(down[1]) : up' = <<r>>
         /\ BusReplies(down[1]) = {} => up' = <<>>
         /\ muted' = [d \in Devices |-> MutedAfter(d, down[1])]
         /\ uid' = [d \in Devices |-> UidAfter(d, down[1])]
         /\ UNCHANGED <<pc, range, searchSpace, searchCount, found, discovered, wanted,
                        future, futures, handling>>
<1> USE ConstantFacts
<1>1. down # <<>> BY Zenon DEF handleMaster
<1>2. Len(down) = 1 /\ up = <<>> /\ ~ handling /\ down \in Seq(Requests)
  BY <1>1, Zenon DEF IInv, OneTransaction, TypeOK
<1>3. Head(down) = down[1] /\ Tail(down) = <<>> /\ down[1] \in Requests BY <1>2, OneFrame, Zenon
<1>4. \A r : Transmit(up, r) = <<r>> BY <1>2 DEF Transmit
<1> QED BY <1>1, <1>2, <1>3, <1>4, Zenon DEF handleMaster, client

\* A request on the bus preserves the invariant.
LEMMA HandleMasterStep == ASSUME IInv, Orderly, handleMaster PROVE IInv'
<1> USE ConstantFacts
<1>1. PICK q \in Requests : q = down[1] BY BusEffect, Zenon
<1>2. /\ ~ handling /\ down' = <<>> /\ down # <<>> /\ up = <<>>
      /\ BusReplies(q) # {} => \E r \in BusReplies(q) : up' = <<r>>
      /\ BusReplies(q) = {} => up' = <<>>
      /\ muted' = [d \in Devices |-> MutedAfter(d, q)]
      /\ uid' = [d \in Devices |-> UidAfter(d, q)]
      /\ UNCHANGED <<pc, range, searchSpace, searchCount, found, discovered, wanted, future, futures, handling>>
  BY <1>1, BusEffect, Zenon
<1>3. futures = <<>> => FireAndForget(q) /\ pc = "idle"
  BY <1>1, <1>2, Zenon DEF IInv, OneTransaction, Quiet
<1>4. ASSUME NEW f \in Futures, Awaited(f) PROVE RequestFor(f, q) /\ futures = <<f>> /\ Own(f)
  BY <1>1, <1>2, <1>4, Zenon DEF Awaited
<1>5. futures = <<>> \/ \E f \in Futures : Awaited(f) BY Zenon DEF IInv, OneTransaction
<1>6. q.pid = "set" => q.from = Any
  <2>1. CASE futures = <<>> BY <1>3, <2>1, Zenon DEF FireAndForget
  <2>2. ASSUME NEW f \in Futures, Awaited(f) PROVE q.pid # "set"
    BY <1>4, <2>2 DEF RequestFor, Own, buildDiscoveryRequest, Request
  <2> QED BY <1>5, <2>1, <2>2, Zenon
<1>7. uid' = uid BY <1>2, <1>6, UidsStay, Zenon
<1>8. muted' \in [Devices -> BOOLEAN]
  <2>1. muted \in [Devices -> BOOLEAN] BY Zenon DEF IInv, TypeOK
  <2>2. \A d \in Devices : MutedAfter(d, q) \in BOOLEAN BY <2>1, Zenon DEF MutedAfter
  <2> QED BY <1>2, <2>2, Zenon
<1>9. ClientTypes' BY <1>2, <1>7, <1>8, TypesSplit, Zenon DEF ClientTypes, IInv
<1>10. \A r \in BusReplies(q) : r \in Replies BY BusReplyTypes, Zenon
<1>11. up' = <<>> \/ \E r \in Replies : up' = <<r>> BY <1>2, <1>10, Zenon
<1>12. FrameTypes'
  <2>1. ASSUME up' = <<>> PROVE up' \in Seq(Replies) BY <2>1
  <2>2. ASSUME NEW r \in Replies, up' = <<r>> PROVE up' \in Seq(Replies) BY <2>2
  <2>3. up' \in Seq(Replies) BY <1>11, <2>1, <2>2, Zenon
  <2> QED BY <1>2, <2>3, TypesSplit DEF FrameTypes, IInv
<1>13. Searching'
  <2>1. UidsOnBus' = UidsOnBus /\ InSearch' = InSearch BY <1>2, <1>7, Zenon DEF UidsOnBus, InSearch
  <2>2. StillCovered' BY <1>2, ZenonT(60) DEF IInv, Searching, StillCovered, Members, Covers
  <2>3. Members(found') = Members(found) /\ Members(searchSpace') = Members(searchSpace)
        /\ Members(discovered') = Members(discovered)
    BY <1>2, Zenon
  <2>4. ASSUME InSearch
        PROVE  \A d \in Devices : /\ uid[d] \in wanted /\ muted'[d] => uid[d] \in Members(found)
                                  /\ uid[d] \in Members(found) => muted'[d]
    <3>1. PICK f \in Futures : Awaited(f) BY <1>3, <1>5, <2>4, Zenon DEF InSearch
    <3>2. RequestFor(f, q) /\ Own(f) BY <1>4, <3>1, Zenon
    <3>3. (f = "branch" /\ pc = "wait_branch") \/ (f = "mute" /\ pc = "wait_mute")
      <4>1. pc # "idle" /\ pc # "wait_command" BY <2>4, Zenon DEF InSearch
      <4> QED BY <3>2, <4>1, Zenon DEF Own
    <3>4. CASE f = "branch"
      <4>1. q.pid = "branch" BY <3>2, <3>4 DEF RequestFor, buildDiscoveryRequest, Request
      <4>2. \A d \in Devices : muted'[d] = muted[d] BY <1>2, <4>1, Zenon DEF MutedAfter
      <4> QED BY <2>4, <3>3, <3>4, <4>2, Zenon DEF IInv, Searching
    <3>5. CASE f = "mute"
      <4>1. q.pid = "mute" /\ q.dst \in UidsOnBus /\ q.dst \in Members(found)
        BY <3>2, <3>5, Zenon DEF RequestFor
      <4>2. q.dst # Broadcast BY <4>1, UnicastAnswer, Zenon
      <4>3. \A d \in Devices : /\ uid[d] = q.dst => muted'[d]
                               /\ uid[d] # q.dst => (muted'[d] <=> muted[d])
        BY <1>2, <4>1, <4>2, Zenon DEF MutedAfter, ItIsForMe
      <4> QED BY <1>1, <2>4, <4>1, <4>3, Zenon DEF IInv, Searching
    <3> QED BY <3>3, <3>4, <3>5, Zenon
  <2> QED BY <1>2, <1>7, <2>1, <2>2, <2>3, <2>4, Zenon DEF IInv, Searching
<1>14. \A g : Own(g)' = Own(g) /\ Kinds(g)' = Kinds(g) BY <1>2, Zenon DEF Own, Kinds
<1>15. CASE futures = <<>>
  <2>1. OneTransaction'
    BY <1>2, <1>3, <1>11, <1>14, <1>15, Zenon DEF IInv, OneTransaction
  <2> QED BY <1>9, <1>12, <1>13, <2>1, TypesSplitPrime, Zenon DEF IInv
<1>16. CASE futures # <<>>
  <2>1. PICK f \in Futures : Awaited(f) BY <1>5, <1>16, Zenon
  <2>2. RequestFor(f, q) /\ futures = <<f>> /\ Own(f) /\ future[f].state = "Busy"
    BY <1>2, <1>4, <2>1, Zenon DEF Awaited
  <2>3. \E r \in BusReplies(q) : up' = <<r>> /\ ReplyFor(f, r)'
    <3>1. CASE f = "branch"
      <4>1. q = buildDiscoveryRequest(range) BY <2>2, <3>1, Zenon DEF RequestFor
      <4>2. PICK r \in BusReplies(q) : up' = <<r>> /\ r.kind = "branch" /\ Informative(r)
        BY <1>2, <4>1, BranchAnswer, Zenon
      <4>3. q.pid = "branch" BY <4>1, Zenon DEF buildDiscoveryRequest, Request
      <4>4. \A d \in Devices : muted'[d] = muted[d] BY <1>2, <4>3, Zenon DEF MutedAfter
      <4>5. Informative(r)'
        <5>1. range' = range /\ uid' = uid BY <1>2, <1>7, Zenon
        <5> QED BY <4>2, <4>4, <5>1, Zenon DEF Informative, UidsOnBus, Covers
      <4> QED BY <1>14, <3>1, <4>2, <4>5, Zenon DEF ReplyFor, Kinds
    <3>2. CASE f # "branch"
      <4>1. q.pid # "branch" /\ q.dst \in UidsOnBus /\ ReplyKind(q) \in Kinds(f)
        BY <2>2, <3>2, Zenon DEF RequestFor, Own, ReplyKind, Kinds
      <4>2. PICK r \in BusReplies(q) : up' = <<r>> /\ r.kind = ReplyKind(q)
        BY <1>2, <4>1, UnicastAnswer, Zenon
      <4> QED BY <1>14, <3>2, <4>1, <4>2, Zenon DEF ReplyFor
    <3> QED BY <3>1, <3>2, Zenon
  <2>4. PICK r \in BusReplies(q) : up' = <<r>> /\ ReplyFor(f, r)' BY <2>3, Zenon
  <2>5. up' # <<>> /\ up'[1] = r BY <2>4, Zenon
  <2>6. ReplyFor(f, up[1])' BY <2>4, <2>5, Zenon DEF ReplyFor, Informative
  <2>7. Awaited(f)' BY <1>2, <1>14, <2>2, <2>5, <2>6, Zenon DEF Awaited
  <2>8. pc # "search" /\ (pc = "wait_branch" => f = "branch") BY <2>2, Zenon DEF Own
  <2>9. OneTransaction'
    BY <1>2, <1>11, <1>14, <2>2, <2>7, <2>8, Zenon DEF IInv, OneTransaction
  <2> QED BY <1>9, <1>12, <1>13, <2>9, TypesSplitPrime, Zenon DEF IInv
<1> QED BY <1>15, <1>16, Zenon

-----------------------------------------------------------------------------
\* Every step of the master, of the bus, and of nobody preserves the invariant.
LEMMA NextIInv == ASSUME IInv, Orderly, [Next]_vars PROVE IInv'
<1>1. CASE UNCHANGED vars
  <2>1. UNCHANGED <<pc, range, searchSpace, searchCount, found, discovered, wanted,
                    future, futures, handling, down, up, uid, muted>>
    BY <1>1, Zenon DEF vars, client, wire, bus
  <2>2. TypeOK' BY <2>1, Zenon DEF IInv, TypeOK
  <2>3. OneTransaction'
    <3>1. \A f : /\ Own(f)' <=> Own(f)
                 /\ Kinds(f)' = Kinds(f)
      BY <2>1, Zenon DEF Own, Kinds
    <3>2. UidsOnBus' = UidsOnBus /\ Members(found)' = Members(found) BY <2>1, Zenon DEF UidsOnBus, Members
    <3>3. Informative(future["branch"].reply)' <=> Informative(future["branch"].reply)
      BY <2>1, <3>2, Zenon DEF Informative, Covers
    <3>4. ASSUME NEW f \in Futures, Awaited(f) PROVE Awaited(f)'
      <4>1. RequestFor(f, down[1])' <=> RequestFor(f, down[1])
        BY <2>1, <3>2, Zenon DEF RequestFor, buildDiscoveryRequest, Request
      <4>2. ReplyFor(f, up[1])' <=> ReplyFor(f, up[1])
        BY <2>1, <3>1, <3>2, Zenon DEF ReplyFor, Informative, Covers
      <4> QED BY <2>1, <3>1, <3>4, <4>1, <4>2, Zenon DEF Awaited
    <3>5. FireAndForget(down[1])' <=> FireAndForget(down[1]) BY <2>1, Zenon DEF FireAndForget
    <3>6. OneTransaction BY Zenon DEF IInv
    <3> QED BY <2>1, <3>1, <3>3, <3>4, <3>5, <3>6, Zenon DEF OneTransaction, Quiet
  <2>4. Searching'
    BY <2>1, ZenonT(60) DEF IInv, Searching, InSearch, StillCovered, UidsOnBus, Members, Covers
  <2> QED BY <2>2, <2>3, <2>4, Zenon DEF IInv
<1>2. ASSUME NEW whom \in MuteTargets, mute(whom) \/ unmute(whom) PROVE IInv'
  BY <1>2, SendMuteStep, Zenon DEF mute, unmute
<1>3. ASSUME NEW f \in Gets, get_times_out(f) PROVE IInv'
  BY <1>3, NoTimeout, ConstantFacts, Zenon DEF get_times_out
<1>4. CASE branch_times_out BY <1>4, NoTimeout, ConstantFacts, Zenon DEF branch_times_out
<1>5. CASE SearchStep
  BY <1>4, <1>5, SearchStartsPass, SearchReturnsStep, BranchEmptyStep, BranchCollisionStep,
     BranchFoundStep, FoundMutedStep, Zenon DEF SearchStep
<1>6. CASE Client
  BY <1>2, <1>3, <1>5, <1>6, CommandReturnsStep, GetStep, SetStep, StartDiscoveryStep, Zenon DEF Client
<1> QED BY <1>1, <1>6, HandleStep, HandleClearStep, HandleMasterStep, Zenon DEF Next, Ingress

\* What the invariant says of the properties.
LEMMA IInvImplies ==
  ASSUME IInv
  PROVE  /\ TypeOK /\ AllFound /\ StillCovered /\ FoundDevicesMuted
         /\ ListedFuturesAlive /\ ReplyMatchesRequest /\ GetsAnswered
<1>1. TypeOK /\ StillCovered BY Zenon DEF IInv, Searching
<1>2. AllFound BY Zenon DEF IInv, Searching, AllFound, InSearch
<1>3. FoundDevicesMuted BY Zenon DEF IInv, Searching, FoundDevicesMuted, InSearch
<1>4. ListedFuturesAlive
  <2>1. CASE futures = <<>> BY <2>1 DEF ListedFuturesAlive, Members
  <2>2. ASSUME NEW f \in Futures, Awaited(f) PROVE ListedFuturesAlive
    <3>1. Members(futures) = {f} /\ future[f].state # "none" BY <2>2 DEF Awaited, Members
    <3> QED BY <3>1, Zenon DEF ListedFuturesAlive
  <2> QED BY <2>1, <2>2, Zenon DEF IInv, OneTransaction
<1>5. ReplyMatchesRequest BY Zenon DEF IInv, OneTransaction, ReplyMatchesRequest
<1>6. GetsAnswered
  <2>1. ASSUME Quiet, ~ handling, NEW f \in Gets, future[f].state = "Busy" PROVE FALSE
    <3>1. futures = <<f>> BY <2>1, ConstantFacts, Zenon DEF IInv, OneTransaction
    <3>2. PICK g \in Futures : Awaited(g) BY <3>1, Zenon DEF IInv, OneTransaction
    <3> QED BY <2>1, <3>2, Zenon DEF Awaited, Quiet
  <2> QED BY <2>1, Zenon DEF GetsAnswered
<1> QED BY <1>1, <1>2, <1>3, <1>4, <1>5, <1>6, Zenon

\* The invariant holds throughout.
LEMMA Invariance == ASSUME Orderly PROVE Spec => []IInv
<1>1. Init => IInv BY InitIInv, Zenon
<1>2. IInv /\ [Next]_vars => IInv' BY NextIInv, Zenon
<1> QED BY <1>1, <1>2, PTL DEF Spec

\* The variables of librdm keep their types.
THEOREM RdmTypes == ASSUME Orderly PROVE Spec => []TypeOK
<1>1. IInv => TypeOK BY IInvImplies, Zenon
<1> QED BY <1>1, Invariance, PTL

\* discoverDevices, whenever it empties its search space, has found every
\* device that was in its range and unmuted when it was called: the binary
\* search loses none, for any number of devices and any UIDs.
THEOREM DiscoveryFindsAll == ASSUME Orderly PROVE Spec => [](AllFound /\ StillCovered)
<1>1. IInv => AllFound /\ StillCovered BY IInvImplies, Zenon
<1> QED BY <1>1, Invariance, PTL

\* A device that discoverDevices has found stays silent for the rest of the
\* search.
THEOREM DiscoverySilencesFound == ASSUME Orderly PROVE Spec => []FoundDevicesMuted
<1>1. IInv => FoundDevicesMuted BY IInvImplies, Zenon
<1> QED BY <1>1, Invariance, PTL

\* RdmApi::handle never writes to a future that is out of scope, gives every
\* reply to the future that asked for it, and leaves no get without a reply.
THEOREM RepliesReachTheirFutures ==
  ASSUME Orderly PROVE Spec => []RepliesReachFutures
<1>1. IInv => RepliesReachFutures BY IInvImplies, Zenon DEF RepliesReachFutures
<1> QED BY <1>1, Invariance, PTL
-----------------------------------------------------------------------------
(***************************************************************************)
(* Late replies.  Without any assumption on the timing, replies reach the  *)
(* wrong futures and the search may miss devices; but what it lists exists *)
(* as long as no device is given another UID.  All that is needed is that  *)
(* every reply, wherever it is, names a device or none.                    *)
(***************************************************************************)
UidsKept == \A s \in Sets : s[2] = Any

\* Ranges of words, which a split after a late reply may leave as they are.
WordRanges == (0 .. Words - 1) \X (0 .. Words - 1)

HonestReplies == {r \in Replies : r.src \in UidsOnBus \union {Any, Broadcast}}

KeepingRequests == {q \in Requests : q.pid = "set" => q.from = Any}

FutureStates == {"none", "Busy", "Ready", "Timeout"}

HInv ==
  /\ range \in WordRanges /\ searchSpace \in Seq(WordRanges)
  /\ found \in Seq(Uids)
  /\ future \in [Futures -> [state : FutureStates, reply : HonestReplies]]
  /\ futures \in Seq(Futures)
  /\ down \in Seq(KeepingRequests) /\ up \in Seq(HonestReplies)
  /\ uid \in FactoryUids
  /\ FoundDevicesExist

\* A future without a reply.
LEMMA NoReplyHonest == NoReply \in HonestReplies
BY ConstantFacts, Zenon DEF NoReply, HonestReplies, Replies

\* A frame put on the wire.
LEMMA TransmitTyped ==
  ASSUME NEW T, NEW s \in Seq(T), NEW e \in T
  PROVE  Transmit(s, e) \in Seq(T)
BY DEF Transmit

\* A new future and its request.
LEMMA AskTyped ==
  ASSUME HInv, NEW f \in Futures, NEW q \in KeepingRequests, Ask(f, q)
  PROVE  /\ future' \in [Futures -> [state : FutureStates, reply : HonestReplies]]
         /\ futures' \in Seq(Futures) /\ down' \in Seq(KeepingRequests)
<1>1. future' \in [Futures -> [state : FutureStates, reply : HonestReplies]]
  BY NoReplyHonest, Zenon DEF Ask, HInv, FutureStates
<1>2. futures' \in Seq(Futures) BY DEF Ask, HInv
<1>3. down' \in Seq(KeepingRequests) BY TransmitTyped, Zenon DEF Ask, HInv
<1> QED BY <1>1, <1>2, <1>3, Zenon

\* Futures that go out of scope.
LEMMA DestroyTyped ==
  ASSUME HInv, NEW fs
  PROVE  Destroy(fs) \in [Futures -> [state : FutureStates, reply : HonestReplies]]
BY NoReplyHonest, Zenon DEF Destroy, HInv, FutureStates

\* The UIDs stay, and with them the
\* meaning of an honest reply.
LEMMA UidsStayHonest ==
  ASSUME UNCHANGED uid
  PROVE  HonestReplies' = HonestReplies /\ UidsOnBus' = UidsOnBus
BY Zenon DEF HonestReplies, UidsOnBus

\* What is listed stays what it is.
LEMMA FoundStays ==
  ASSUME HInv, found' = found, uid' = uid
  PROVE  FoundDevicesExist' /\ found' \in Seq(Uids)
<1>1. Members(found') = Members(found) BY Zenon
<1>2. UidsOnBus' = UidsOnBus BY UidsStayHonest, Zenon
<1>3. Members(found') \subseteq UidsOnBus'
  BY <1>1, <1>2, Zenon DEF HInv, FoundDevicesExist, UidsOnBus
<1>4. \A i, j \in 1 .. Len(found') : found'[i] = found'[j] => i = j
  BY Zenon DEF HInv, FoundDevicesExist
<1>5. found' \in Seq(Uids) BY Zenon DEF HInv
<1> QED BY <1>3, <1>4, <1>5, Zenon DEF FoundDevicesExist, UidsOnBus

\* Halves of a range of words are ranges of words, whatever the range.
LEMMA SplitWords ==
  ASSUME NEW r \in WordRanges
  PROVE  Lower(r) \in WordRanges /\ Upper(r) \in WordRanges
<1>1. Words \in Nat \ {0} BY BusAssumption DEF Any
<1>2. r[1] \in 0 .. Words - 1 /\ r[2] \in 0 .. Words - 1 BY Zenon DEF WordRanges
<1>3. (r[1] + r[2]) % Words \in 0 .. Words - 1 BY <1>1, <1>2
<1>4. \A x \in 0 .. Words - 1 : x \div 2 \in 0 .. Words - 1 BY <1>1
<1>5. Half(r) \in 0 .. Words - 1 BY <1>3, <1>4, Zenon DEF Half
<1>6. (Half(r) - 1) % Words \in 0 .. Words - 1 BY <1>1, <1>5
<1> QED BY <1>2, <1>5, <1>6, Zenon DEF Lower, Upper, WordRanges

\* UIDs are words, and a word makes a UID.
LEMMA UidsAreWords ==
  /\ Uids \subseteq 0 .. Words - 1
  /\ \A w \in 0 .. Words - 1 : Uid(w) \in Uids
BY BusAssumption DEF Uids, Uid, Any

\* The bus names a device of its own, or none, in whatever it sends back.
LEMMA BusHonest ==
  ASSUME HInv, NEW q \in Requests, NEW r \in BusReplies(q)
  PROVE  r \in HonestReplies
<1>1. uid \in [Devices -> Uids] BY ConstantFacts DEF HInv, Uids
<1>2. ReplyKind(q) \in {"none", "branch", "mute", "unmute", "device_info"}
  BY Zenon DEF ReplyKind, Requests
<1>3. \A d \in Devices : ReplyOf(d, q) \in HonestReplies
  BY <1>1, <1>2, Zenon DEF ReplyOf, Replies, HonestReplies, UidsOnBus
<1>4. [src |-> IF Repliers(q) = {} THEN Any ELSE Broadcast, kind |-> "branch"]
        \in HonestReplies
  BY ConstantFacts, Zenon DEF Replies, HonestReplies
<1>5. Repliers(q) \subseteq Devices BY Zenon DEF Repliers
<1> QED BY <1>3, <1>4, <1>5, Zenon DEF BusReplies

-----------------------------------------------------------------------------
\* The calls of a client other than a search.
LEMMA CallsHonest ==
  ASSUME HInv, UidsKept,
         \/ \E whom \in MuteTargets : mute(whom) \/ unmute(whom)
         \/ command_returns
         \/ \E who \in GetTargets, f \in Gets : get(who, f)
         \/ \E f \in Gets : get_times_out(f)
         \/ \E s \in Sets : set(s[1], s[2])
  PROVE  HInv'
<1> USE ConstantFacts
<1>1. \A pid \in {"mute", "unmute", "get"}, u \in Uids :
        Request(pid, u, Any, Any) \in KeepingRequests
  BY Zenon DEF Request, KeepingRequests, Requests
<1>2. ASSUME UNCHANGED << range, searchSpace, found, up, uid >>,
             future' \in [Futures -> [state : FutureStates, reply : HonestReplies]],
             futures' \in Seq(Futures), down' \in Seq(KeepingRequests)
      PROVE  HInv'
  <2>1. HonestReplies' = HonestReplies /\ UidsOnBus' = UidsOnBus BY <1>2, UidsStayHonest, Zenon
  <2>2. FoundDevicesExist' BY <1>2, FoundStays, Zenon
  <2> QED BY <1>2, <2>1, <2>2, Zenon DEF HInv, WordRanges, KeepingRequests, FutureStates
<1>3. ASSUME NEW whom \in MuteTargets, NEW pid \in {"mute", "unmute"}, SendMute(pid, whom)
      PROVE  HInv'
  <2> DEFINE q == Request(pid, whom, Any, Any)
  <2>1. whom \in Uids BY BusAssumption, Zenon
  <2>2. q \in KeepingRequests BY <1>1, <2>1, Zenon
  <2> HIDE DEF q
  <2>3. UNCHANGED << range, searchSpace, found, up, uid >>
    BY <1>3, Zenon DEF SendMute, client, bus
  <2>4. CASE Ask("command", q) BY <1>2, <2>2, <2>3, <2>4, AskTyped, Zenon
  <2>5. CASE down' = Transmit(down, q) /\ UNCHANGED << future, futures >>
    BY <1>2, <2>2, <2>3, <2>5, TransmitTyped, Zenon DEF HInv
  <2> QED BY <1>3, <2>4, <2>5, Zenon DEF SendMute, q
<1>4. CASE command_returns
  BY <1>2, <1>4, DestroyTyped, Zenon DEF command_returns, wire, bus, HInv
<1>5. ASSUME NEW who \in GetTargets, NEW f \in Gets, get(who, f) PROVE HInv'
  <2> DEFINE q == Request("get", who, Any, Any)
  <2>1. who \in Uids BY BusAssumption, Zenon
  <2>2. q \in KeepingRequests BY <1>1, <2>1, Zenon
  <2> HIDE DEF q
  <2>3. Ask(f, q) /\ UNCHANGED << range, searchSpace, found, up, uid >>
    BY <1>5, Zenon DEF get, client, bus, q
  <2> QED BY <1>2, <2>2, <2>3, AskTyped, Zenon
<1>6. ASSUME NEW f \in Gets, get_times_out(f) PROVE HInv'
  <2>1. future' = [future EXCEPT ![f].state = "Timeout"]
        /\ UNCHANGED << range, searchSpace, found, up, uid, futures, down >>
    BY <1>6, Zenon DEF get_times_out, client, wire, bus
  <2>2. future' \in [Futures -> [state : FutureStates, reply : HonestReplies]]
    BY <2>1, Zenon DEF HInv, FutureStates
  <2> QED BY <1>2, <2>1, <2>2, Zenon DEF HInv
<1>7. ASSUME NEW s \in Sets, set(s[1], s[2]) PROVE HInv'
  <2> DEFINE q == Request("set", s[1], s[2], s[2])
  <2>1. s[1] \in Uids /\ s[2] = Any BY BusAssumption, Zenon DEF UidsKept
  <2>2. q \in KeepingRequests BY <2>1, Zenon DEF Request, KeepingRequests, Requests
  <2> HIDE DEF q
  <2>3. /\ down' = Transmit(down, q)
        /\ UNCHANGED << range, searchSpace, found, up, uid, future, futures >>
    BY <1>7, Zenon DEF set, client, bus, q
  <2> QED BY <1>2, <2>2, <2>3, TransmitTyped, Zenon DEF HInv
<1> QED BY <1>3, <1>4, <1>5, <1>6, <1>7, Zenon DEF mute, unmute

\* A search that starts, takes a range, returns, or goes on with other ranges.
LEMMA SearchHonest ==
  ASSUME HInv,
         \/ \E s \in SearchRanges : startDiscovery(s[1], s[2], s[3])
         \/ search \/ search_returns
         \/ branch_times_out \/ branch_empty \/ branch_collision \/ found_muted
  PROVE  HInv'
<1> USE ConstantFacts
<1>0. range \in WordRanges /\ searchSpace \in Seq(WordRanges) BY Zenon DEF HInv
<1>1. ASSUME UNCHANGED << up, uid >>, found' = found \/ found' = << >>,
             range' \in WordRanges, searchSpace' \in Seq(WordRanges),
             future' \in [Futures -> [state : FutureStates, reply : HonestReplies]],
             futures' \in Seq(Futures), down' \in Seq(KeepingRequests)
      PROVE  HInv'
  <2>1. HonestReplies' = HonestReplies /\ UidsOnBus' = UidsOnBus BY <1>1, UidsStayHonest, Zenon
  <2>2. found' \in Seq(Uids)
    <3>1. found \in Seq(Uids) /\ << >> \in Seq(Uids) BY DEF HInv
    <3> QED BY <1>1, <3>1, Zenon
  <2>3. CASE found' = found
    <3>1. FoundDevicesExist' BY <1>1, <2>3, FoundStays, Zenon
    <3> QED BY <1>1, <2>1, <2>2, <3>1, Zenon DEF HInv, WordRanges, KeepingRequests, FutureStates
  <2>4. CASE found' = << >>
    <3>1. FoundDevicesExist' BY <2>4 DEF FoundDevicesExist, Members
    <3> QED BY <1>1, <2>1, <2>2, <3>1, Zenon DEF HInv, WordRanges, KeepingRequests, FutureStates
  <2> QED BY <1>1, <2>3, <2>4, Zenon
<1>2. ASSUME NEW ranges \in Seq(WordRanges), NextPass(ranges) PROVE HInv'
  BY <1>0, <1>1, <1>2, DestroyTyped, Zenon DEF NextPass, wire, bus, HInv
<1>3. ASSUME NEW s \in SearchRanges, startDiscovery(s[1], s[2], s[3]) PROVE HInv'
  <2>1. /\ searchSpace' = << << s[1], s[2] >> >> /\ found' = << >>
        /\ UNCHANGED << range, future, futures, up, down, uid >>
    BY <1>3, Zenon DEF startDiscovery, wire, bus
  <2>2. s[1] \in Uids /\ s[2] \in Uids BY BusAssumption DEF Uids
  <2>3. << s[1], s[2] >> \in WordRanges BY <2>2, UidsAreWords, Zenon DEF WordRanges
  <2>4. searchSpace' \in Seq(WordRanges) BY <2>1, <2>3
  <2>5. /\ future' \in [Futures -> [state : FutureStates, reply : HonestReplies]]
        /\ futures' \in Seq(Futures) /\ down' \in Seq(KeepingRequests)
    BY <2>1, Zenon DEF HInv
  <2> QED BY <1>0, <1>1, <2>1, <2>4, <2>5, Zenon
<1>4. CASE search
  <2> DEFINE q == buildDiscoveryRequest(Head(searchSpace))
  <2>1. /\ range' = Head(searchSpace) /\ searchSpace' = Tail(searchSpace)
        /\ searchSpace # << >> /\ Ask("branch", q)
        /\ UNCHANGED << found, up, uid >>
    BY <1>4 DEF search, MoreToSearch, bus
  <2>2. range' \in WordRanges /\ searchSpace' \in Seq(WordRanges)
    BY <1>0, <2>1, MembersTail, Zenon
  <2>3. Uid(range'[1]) \in Uids /\ Uid(range'[2]) \in Uids
    BY <2>2, UidsAreWords, Zenon DEF WordRanges
  <2>4. q \in KeepingRequests
    BY <2>1, <2>3, Zenon DEF buildDiscoveryRequest, Request, KeepingRequests, Requests
  <2> HIDE DEF q
  <2> QED BY <1>1, <2>1, <2>2, <2>4, AskTyped, Zenon
<1>5. CASE search_returns
  BY <1>0, <1>1, <1>5, Zenon DEF search_returns, wire, bus, HInv
<1>6. CASE branch_times_out \/ branch_empty
  BY <1>0, <1>2, <1>6, Zenon DEF branch_times_out, branch_empty
<1>7. CASE branch_collision
  <2>1. searchSpace \o << Lower(range), Upper(range) >> \in Seq(WordRanges)
    BY <1>0, SplitWords
  <2> QED BY <1>2, <1>7, <2>1, Zenon DEF branch_collision
<1>8. CASE found_muted
  <2>1. Append(searchSpace, range) \in Seq(WordRanges) BY <1>0
  <2> QED BY <1>2, <1>8, <2>1, Zenon DEF found_muted
<1> QED BY <1>3, <1>4, <1>5, <1>6, <1>7, <1>8, Zenon

\* A device is listed: it is on the bus, and it was not listed before.
LEMMA BranchFoundHonest == ASSUME HInv, branch_found PROVE HInv'
<1> DEFINE src == future["branch"].reply.src
           q == Request("mute", src, Any, Any)
<1> USE ConstantFacts
<1>1. /\ src \notin {Any, Broadcast}
      /\ found' = IF src \in Members(found) THEN found ELSE Append(found, src)
      /\ Ask("mute", q)
      /\ UNCHANGED << range, searchSpace, up, uid >>
  BY Zenon DEF branch_found, bus
<1>2. future["branch"].reply \in HonestReplies /\ found \in Seq(Uids) BY Zenon DEF HInv
<1>3. src \in UidsOnBus /\ src \in Uids BY <1>1, <1>2, Zenon DEF HonestReplies, Replies
<1>4. q \in KeepingRequests BY <1>3, Zenon DEF Request, KeepingRequests, Requests
<1> HIDE DEF src, q
<1>5. HonestReplies' = HonestReplies /\ UidsOnBus' = UidsOnBus BY <1>1, UidsStayHonest, Zenon
<1>6. FoundDevicesExist' /\ found' \in Seq(Uids)
  <2>1. CASE src \in Members(found)
    BY <1>1, <2>1, FoundStays, Zenon
  <2>2. CASE src \notin Members(found)
    <3>1. found' = Append(found, src) BY <1>1, <2>2, Zenon
    <3>2. Members(found') = Members(found) \union {src}
      BY <1>2, <1>3, <3>1, MembersAppend
    <3>3. Members(found') \subseteq UidsOnBus'
      BY <1>3, <1>5, <3>2, Zenon DEF HInv, FoundDevicesExist, UidsOnBus
    <3>4. /\ Len(found') = Len(found) + 1 /\ Len(found) \in Nat
          /\ found'[Len(found) + 1] = src
          /\ \A i \in 1 .. Len(found) : found'[i] = found[i]
      BY <1>2, <1>3, <3>1
    <3>5. \A i \in 1 .. Len(found) : found[i] # src BY <2>2, Zenon DEF Members
    <3>6. \A i, j \in 1 .. Len(found) : found[i] = found[j] => i = j
      BY Zenon DEF HInv, FoundDevicesExist
    <3>7. ASSUME NEW i \in 1 .. Len(found'), NEW j \in 1 .. Len(found'), found'[i] = found'[j]
          PROVE  i = j
      <4>1. /\ i \in 1 .. Len(found) \/ i = Len(found) + 1
            /\ j \in 1 .. Len(found) \/ j = Len(found) + 1
        BY <3>4
      <4> QED BY <3>4, <3>5, <3>6, <3>7, <4>1, Zenon
    <3> QED BY <1>2, <1>3, <3>1, <3>3, <3>7 DEF FoundDevicesExist, UidsOnBus
  <2> QED BY <2>1, <2>2, Zenon
<1>7. /\ future' \in [Futures -> [state : FutureStates, reply : HonestReplies]]
      /\ futures' \in Seq(Futures) /\ down' \in Seq(KeepingRequests)
  BY <1>1, <1>4, AskTyped, Zenon
<1> QED BY <1>1, <1>5, <1>6, <1>7, Zenon DEF HInv, WordRanges, KeepingRequests, FutureStates

\* RdmApi::handle gives some future an honest reply; the bus sends only such.
LEMMA FramesHonest ==
  ASSUME HInv, handle \/ handle_clear \/ handleMaster
  PROVE  HInv'
<1> USE ConstantFacts
<1>1. ASSUME UNCHANGED << range, searchSpace, found, uid >>,
             future' \in [Futures -> [state : FutureStates, reply : HonestReplies]],
             futures' \in Seq(Futures), down' \in Seq(KeepingRequests),
             up' \in Seq(HonestReplies)
      PROVE  HInv'
  <2>1. HonestReplies' = HonestReplies /\ UidsOnBus' = UidsOnBus BY <1>1, UidsStayHonest, Zenon
  <2>2. FoundDevicesExist' BY <1>1, FoundStays, Zenon
  <2> QED BY <1>1, <2>1, <2>2, Zenon DEF HInv, WordRanges, KeepingRequests, FutureStates
<1>2. CASE handle
  <2>1. /\ up # << >> /\ up' = Tail(up)
        /\ future' = IF futures = << >> THEN future ELSE Set(Head(futures), Head(up))
        /\ UNCHANGED << range, searchSpace, found, uid, futures, down >>
    BY <1>2, Zenon DEF handle, client, bus
  <2>2. Head(up) \in HonestReplies /\ up' \in Seq(HonestReplies)
    BY <2>1, MembersTail, Zenon DEF HInv
  <2>3. future' \in [Futures -> [state : FutureStates, reply : HonestReplies]]
    <3>1. futures # << >> => Head(futures) \in Futures BY MembersTail, Zenon DEF HInv
    <3> QED BY <2>1, <2>2, <3>1, Zenon DEF Set, HInv, FutureStates
  <2> QED BY <1>1, <2>1, <2>2, <2>3, Zenon DEF HInv
<1>3. CASE handle_clear
  <2>1. /\ futures' = << >> /\ future' = future
        /\ UNCHANGED << range, searchSpace, found, uid, down, up >>
    BY <1>3, Zenon DEF handle_clear, client, wire, bus
  <2>2. futures' \in Seq(Futures) BY <2>1
  <2>3. /\ future' \in [Futures -> [state : FutureStates, reply : HonestReplies]]
        /\ down' \in Seq(KeepingRequests) /\ up' \in Seq(HonestReplies)
    BY <2>1, Zenon DEF HInv
  <2> QED BY <1>1, <2>1, <2>2, <2>3, Zenon
<1>4. CASE handleMaster
  <2> DEFINE q == Head(down)
  <2>1. /\ down # << >> /\ down' = Tail(down)
        /\ up' \in IF BusReplies(q) = {} THEN {up} ELSE {Transmit(up, r) : r \in BusReplies(q)}
        /\ uid' = [d \in Devices |-> UidAfter(d, q)]
        /\ UNCHANGED << range, searchSpace, found, future, futures >>
    BY <1>4, Zenon DEF handleMaster, client
  <2>2. q \in KeepingRequests /\ down' \in Seq(KeepingRequests)
    BY <2>1, MembersTail, Zenon DEF HInv
  <2> HIDE DEF q
  <2>3. q \in Requests /\ (q.pid = "set" => q.from = Any) BY <2>2, Zenon DEF KeepingRequests
  <2>4. UNCHANGED uid
    <3>1. \A d \in Devices : UidAfter(d, q) = uid[d] BY <2>3, Zenon DEF UidAfter
    <3> QED BY <2>1, <3>1, Zenon DEF HInv
  <2>5. \A r \in BusReplies(q) : Transmit(up, r) \in Seq(HonestReplies)
    BY <2>3, BusHonest, TransmitTyped, Zenon DEF HInv
  <2>6. up' \in Seq(HonestReplies) BY <2>1, <2>5, Zenon DEF HInv
  <2> QED BY <1>1, <2>1, <2>2, <2>4, <2>6, Zenon DEF HInv
<1> QED BY <1>2, <1>3, <1>4, Zenon

\* discoverDevices lists only devices that are on the bus, and each once,
\* however late replies arrive and whichever future RdmApi::handle gives them
\* to.
THEOREM ListedDevicesExist == ASSUME UidsKept PROVE Spec => []FoundDevicesExist
<1>1. Init => HInv
  <2> SUFFICES ASSUME Init PROVE HInv BY Zenon
  <2>1. range \in WordRanges BY BusAssumption DEF Init, WordRanges, Any
  <2>2. future \in [Futures -> [state : FutureStates, reply : HonestReplies]]
    BY NoReplyHonest, Zenon DEF Init, FutureStates
  <2>3. FoundDevicesExist BY DEF Init, FoundDevicesExist, Members
  <2> QED BY <2>1, <2>2, <2>3 DEF Init, HInv
<1>2. HInv /\ [Next]_vars => HInv'
  <2> SUFFICES ASSUME HInv, [Next]_vars PROVE HInv' BY Zenon
  <2>1. CASE UNCHANGED vars
    <3>1. UNCHANGED << range, searchSpace, found, future, futures, down, up, uid >>
      BY <2>1, Zenon DEF vars, client, wire, bus
    <3>2. HonestReplies' = HonestReplies BY <3>1, UidsStayHonest, Zenon
    <3>3. FoundDevicesExist' BY <3>1, FoundStays, Zenon
    <3> QED BY <3>1, <3>2, <3>3, Zenon DEF HInv, WordRanges, KeepingRequests, FutureStates
  <2>2. CASE Client
    BY <2>2, CallsHonest, SearchHonest, BranchFoundHonest, Zenon DEF Client, SearchStep
  <2>3. CASE Ingress \/ handleMaster BY <2>3, FramesHonest, Zenon DEF Ingress
  <2> QED BY <2>1, <2>2, <2>3, Zenon DEF Next
<1>3. HInv => FoundDevicesExist BY Zenon DEF HInv
<1> QED BY <1>1, <1>2, <1>3, PTL DEF Spec
=============================================================================
