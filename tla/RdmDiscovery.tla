------------------------------ MODULE RdmDiscovery ------------------------------
(***************************************************************************)
(* The RDM stack of librdm: the RdmApi of a master (the thread that calls  *)
(* the API and the ingress thread that calls RdmApi::handle), the frames   *)
(* in flight in both directions, and a responder process in which a DmxBus *)
(* joins several RdmDevice objects.                                        *)
(*                                                                         *)
(* An RdmFuture is named by its address.  The future of discoverDevices    *)
(* and the ones of mute and unmute are locals: "branch" is the one of the  *)
(* search loop, "mute" the one of a mute called by the search, "command"   *)
(* the one of a mute or unmute called by the client.  Gets are the         *)
(* futures that get allocates and never frees.                             *)
(***************************************************************************)
EXTENDS Integers, Sequences

CONSTANTS Devices,       \* positions of the RdmDevice objects on the bus, 1..n
          FactoryUids,   \* the assignments of UIDs a responder may start with
          Broadcast,     \* 0xFFFFFFFFFFFF, the largest UID
          Words,         \* values of the uint64_t a range is kept in, 2^64
          SearchRanges,  \* <<from, to, maxSearchCount>> of the discovery calls
          MuteTargets,   \* UIDs given to mute and unmute
          GetTargets,    \* UIDs given to get
          Sets,          \* <<who, uid>> given to set; uid = Any: another parameter
          Gets,          \* the futures get may allocate; bounds the calls of get
          Preset,        \* the two UIDs the constructor lists as discovered
          WireSlots,     \* frames the kernel holds for one direction
          PromptWire,    \* replies arrive before the client goes on or times out
          PromptHandle   \* RdmApi::handle returns before wait() polls again

Any == 0

Uids == 0 .. Broadcast

ASSUME BusAssumption ==
  /\ Broadcast \in Nat /\ Broadcast > Any
  /\ Words \in Nat /\ Words > 2 * Broadcast
  /\ Devices \subseteq Nat
  /\ FactoryUids \subseteq [Devices -> 1 .. Broadcast - 1]
  /\ SearchRanges \subseteq (1 .. Broadcast - 1) \X (1 .. Broadcast - 1) \X Nat
  /\ MuteTargets \subseteq Uids /\ GetTargets \subseteq Uids
  /\ Sets \subseteq Uids \X (Uids \ {Broadcast})
  /\ Gets \cap {"branch", "mute", "command"} = {}
  /\ Preset \in Seq(Uids)
  /\ WireSlots \in Nat \ {0}
  /\ PromptWire \in BOOLEAN /\ PromptHandle \in BOOLEAN

Futures == {"branch", "mute", "command"} \union Gets

NoReply == [src |-> Any, kind |-> "none"]

VARIABLES pc,           \* where the client thread is
          range,        \* a: the range being asked for
          searchSpace,  \* ranges still to be searched
          searchCount,
          found,        \* the local discoveredDevices
          discovered,   \* m_discoveredDevices
          future,       \* state and buffer of every RdmFuture
          futures,      \* m_futures, pointers to RdmFutures, each address once:
                        \* handle reads the first one only, and clears the list
          handling,     \* the ingress thread is between set and clear in handle
          down, up,     \* frames in flight to the responder and back
          uid, muted,   \* of every RdmDevice
          wanted        \* ghost: the UIDs the running search has to find

client == <<pc, range, searchSpace, searchCount, found, discovered, wanted>>
wire == <<down, up>>
bus == <<uid, muted>>
vars == <<client, future, futures, handling, wire, bus>>

Quiet == down = <<>> /\ up = <<>>

\* The client thread may take its next step: nothing holds it back but the
\* timing the two constants assume.
ClientMayRun == PromptHandle => ~ handling

ClientMayCall == ClientMayRun /\ pc = "idle" /\ (PromptWire => Quiet)

Covers(r, u) == r[1] <= u /\ u <= r[2]

Members(s) == {s[i] : i \in 1 .. Len(s)}

Init ==
  /\ pc = "idle" /\ range = <<1, 1>> /\ searchSpace = <<>> /\ searchCount = 0
  /\ found = <<>> /\ discovered = Preset /\ wanted = {}
  /\ future = [f \in Futures |-> [state |-> "none", reply |-> NoReply]]
  /\ futures = <<>> /\ handling = FALSE
  /\ down = <<>> /\ up = <<>>
  /\ uid \in FactoryUids /\ muted = [d \in Devices |-> FALSE]

-----------------------------------------------------------------------------
(***************************************************************************)
(* Frames.  Dmx4Linux2Interface::handle writes a frame to a device opened  *)
(* with O_NONBLOCK: when the kernel has no entry left the write fails, and *)
(* the frame is gone.                                                      *)
(***************************************************************************)
Request(pid, dst, from, to) == [pid |-> pid, dst |-> dst, from |-> from, to |-> to]

\* A Uid is made of the lower 48 bits of a word.
Uid(word) == word % (Broadcast + 1)

buildDiscoveryRequest(r) == Request("branch", Broadcast, Uid(r[1]), Uid(r[2]))

Transmit(queue, frame) == IF Len(queue) < WireSlots THEN Append(queue, frame) ELSE queue

\* A new future, its address in the list of futures, and the request sent.
Ask(f, request) ==
  /\ future' = [future EXCEPT ![f] = [state |-> "Busy", reply |-> NoReply]]
  /\ futures' = IF f \in Members(futures) THEN futures ELSE Append(futures, f)
  /\ down' = Transmit(down, request)

\* RdmFuture::wait returns: TRUE with a reply, FALSE after a thousand polls.
Ready(f) == ClientMayRun /\ future[f].state = "Ready"
TimedOut(f) == ClientMayRun /\ future[f].state = "Busy" /\ (PromptWire => Quiet)

\* The futures in fs go out of scope; nothing removes them from the list.
Destroy(fs) == [f \in Futures |-> IF f \in fs THEN [state |-> "none", reply |-> NoReply] ELSE future[f]]

-----------------------------------------------------------------------------
(* Calls of the client other than the search. *)

\* mute and unmute: a broadcast is only sent, any other call waits for a reply.
SendMute(pid, whom) ==
  /\ ClientMayCall
  /\ \/ /\ whom = Broadcast
        /\ down' = Transmit(down, Request(pid, whom, Any, Any))
        /\ UNCHANGED <<client, future, futures>>
     \/ /\ whom # Broadcast
        /\ Ask("command", Request(pid, whom, Any, Any))
        /\ pc' = "wait_command"
        /\ UNCHANGED <<range, searchSpace, searchCount, found, discovered, wanted>>
  /\ UNCHANGED <<handling, up, bus>>

mute(whom) == SendMute("mute", whom)
unmute(whom) == SendMute("unmute", whom)

command_returns ==
  /\ pc = "wait_command"
  /\ Ready("command") \/ TimedOut("command")
  /\ pc' = "idle"
  /\ future' = Destroy({"command"})
  /\ UNCHANGED <<range, searchSpace, searchCount, found, discovered, wanted, futures, handling, wire, bus>>

get(who, f) ==
  /\ ClientMayCall
  /\ future[f].state = "none"
  /\ Ask(f, Request("get", who, Any, Any))
  /\ UNCHANGED <<client, handling, up, bus>>

get_times_out(f) ==
  /\ pc = "idle"
  /\ TimedOut(f)
  /\ future' = [future EXCEPT ![f].state = "Timeout"]
  /\ UNCHANGED <<client, futures, handling, wire, bus>>

\* commit sends the request; the reply finds no future.
set(who, new) ==
  /\ ClientMayCall
  /\ down' = Transmit(down, Request("set", who, new, new))
  /\ UNCHANGED <<client, future, futures, handling, up, bus>>

-----------------------------------------------------------------------------
(* The search. *)

startDiscovery(from, to, maxSearchCount) ==
  /\ ClientMayCall
  /\ pc' = "search"
  /\ searchSpace' = <<<<from, to>>>>
  /\ searchCount' = maxSearchCount
  /\ found' = <<>>
  /\ wanted' = {uid[d] : d \in {e \in Devices : ~ muted[e] /\ Covers(<<from, to>>, uid[e])}}
  /\ UNCHANGED <<range, discovered, future, futures, handling, wire, bus>>

MoreToSearch == Len(searchSpace) > 0 /\ searchCount > 0

search ==
  /\ pc = "search" /\ ClientMayRun
  /\ MoreToSearch
  /\ range' = Head(searchSpace)
  /\ searchSpace' = Tail(searchSpace)
  /\ searchCount' = searchCount - 1
  /\ Ask("branch", buildDiscoveryRequest(Head(searchSpace)))
  /\ pc' = "wait_branch"
  /\ UNCHANGED <<found, discovered, wanted, handling, up, bus>>

\* Mutant of search_returns: the result is not stored.
search_returns_unstored ==
  /\ pc = "search" /\ ClientMayRun
  /\ ~ MoreToSearch
  /\ pc' = "idle"
  /\ UNCHANGED <<range, searchSpace, searchCount, found, discovered, wanted, future, futures, handling, wire, bus>>

search_returns ==
  /\ pc = "search" /\ ClientMayRun
  /\ ~ MoreToSearch
  /\ discovered' = found
  /\ pc' = "idle"
  /\ UNCHANGED <<range, searchSpace, searchCount, found, wanted, future, futures, handling, wire, bus>>

\* One pass of the loop ends with these ranges still to search.
NextPass(ranges) ==
  /\ pc' = "search"
  /\ searchSpace' = ranges
  /\ future' = Destroy({"branch", "mute"})
  /\ UNCHANGED <<range, searchCount, found, discovered, wanted, futures, handling, wire, bus>>

\* The ends of a range are uint64_t: sum and difference are taken modulo Words.
Half(r) == ((r[1] + r[2]) % Words) \div 2

Lower(r) == <<r[1], (Half(r) - 1) % Words>>

Upper(r) == <<Half(r), r[2]>>

branch_times_out ==
  /\ pc = "wait_branch"
  /\ TimedOut("branch")
  /\ NextPass(searchSpace)

\* A reply of the wrong kind, or one that tells of no device.
branch_empty ==
  /\ pc = "wait_branch" /\ Ready("branch")
  /\ LET r == future["branch"].reply IN r.kind # "branch" \/ r.src = Any
  /\ NextPass(searchSpace)

branch_collision ==
  /\ pc = "wait_branch" /\ Ready("branch")
  /\ future["branch"].reply.kind = "branch" /\ future["branch"].reply.src = Broadcast
  /\ NextPass(searchSpace \o <<Lower(range), Upper(range)>>)

\* Mutant of branch_found: the device is listed without looking for it first.
branch_found_again ==
  LET r == future["branch"].reply IN
  /\ pc = "wait_branch" /\ Ready("branch")
  /\ r.kind = "branch" /\ r.src \notin {Any, Broadcast}
  /\ found' = Append(found, r.src)
  /\ Ask("mute", Request("mute", r.src, Any, Any))
  /\ pc' = "wait_mute"
  /\ UNCHANGED <<range, searchSpace, searchCount, discovered, wanted, handling, up, bus>>

branch_found ==
  LET r == future["branch"].reply IN
  /\ pc = "wait_branch" /\ Ready("branch")
  /\ r.kind = "branch" /\ r.src \notin {Any, Broadcast}
  /\ found' = IF r.src \in Members(found) THEN found ELSE Append(found, r.src)
  /\ Ask("mute", Request("mute", r.src, Any, Any))
  /\ pc' = "wait_mute"
  /\ UNCHANGED <<range, searchSpace, searchCount, discovered, wanted, handling, up, bus>>

found_muted ==
  /\ pc = "wait_mute"
  /\ Ready("mute") \/ TimedOut("mute")
  /\ NextPass(Append(searchSpace, range))

-----------------------------------------------------------------------------
(***************************************************************************)
(* RdmApi::handle, on the ingress thread.  The reply goes to the first     *)
(* future of the list, whatever it asked for; then the list is cleared.    *)
(* Setting a future that is out of scope writes to memory that is no       *)
(* longer a future, which no other part of the model reads.                *)
(***************************************************************************)
Set(f, r) ==
  IF future[f].state = "none" THEN future
  ELSE [future EXCEPT ![f] = [state |-> "Ready", reply |-> r]]

handle ==
  /\ ~ handling
  /\ up # <<>>
  /\ up' = Tail(up)
  /\ future' = IF futures = <<>> THEN future ELSE Set(Head(futures), Head(up))
  /\ handling' = TRUE
  /\ UNCHANGED <<client, futures, down, bus>>

\* Mutant of handle_clear: the list keeps the future that has its reply.
handle_clear_kept ==
  /\ handling
  /\ handling' = FALSE
  /\ UNCHANGED <<client, future, futures, wire, bus>>

handle_clear ==
  /\ handling
  /\ futures' = <<>>
  /\ handling' = FALSE
  /\ UNCHANGED <<client, future, wire, bus>>

-----------------------------------------------------------------------------
(***************************************************************************)
(* The responder.  DmxBusP::handleMaster passes a request to every device, *)
(* collects the replies they give meanwhile, and sends one frame back.     *)
(***************************************************************************)
ItIsForMe(d, q) == q.dst \in {uid[d], Broadcast}

\* The devices whose RdmDevice::handle calls sendReply.
Repliers(q) ==
  {d \in Devices : /\ ItIsForMe(d, q)
                   /\ q.pid = "branch" => ~ muted[d] /\ Covers(<<q.from, q.to>>, uid[d])
                   /\ q.pid \in {"mute", "unmute"} => q.dst # Broadcast}

\* Mutant of MutedAfter: DISC_MUTE takes effect only when it is a broadcast.
MutedAfter_broadcast(d, q) ==
  IF q.dst = Broadcast /\ q.pid \in {"mute", "unmute"} THEN q.pid = "mute" ELSE muted[d]

MutedAfter(d, q) ==
  IF ItIsForMe(d, q) /\ q.pid \in {"mute", "unmute"} THEN q.pid = "mute" ELSE muted[d]

\* PID 0xFEED sets the UID; the other parameters do not matter here.
UidAfter(d, q) ==
  IF ItIsForMe(d, q) /\ q.pid = "set" /\ q.from # Any THEN q.from ELSE uid[d]

\* Replies to GET and SET both say they answer a GET of DEVICE_INFO.
ReplyKind(q) == IF q.pid \in {"get", "set"} THEN "device_info" ELSE q.pid

ReplyOf(d, q) == [src |-> uid[d], kind |-> ReplyKind(q)]

\* The frame the bus may send back: a reply that is the only one is passed on;
\* none or several become one frame when the request was a
\* DISC_UNIQUE_BRANCH, otherwise the first one is passed on.
BusReplies(q) ==
  LET ds == Repliers(q) IN
  IF q.pid = "branch" /\ ~ \E d \in Devices : ds = {d}
  THEN {[src |-> IF ds = {} THEN Any ELSE Broadcast, kind |-> "branch"]}
  ELSE {ReplyOf(d, q) : d \in {e \in ds : \A o \in ds : e <= o}}

handleMaster ==
  /\ down # <<>>
  /\ LET q == Head(down) IN
     /\ up' \in IF BusReplies(q) = {} THEN {up} ELSE {Transmit(up, r) : r \in BusReplies(q)}
     /\ muted' = [d \in Devices |-> MutedAfter(d, q)]
     /\ uid' = [d \in Devices |-> UidAfter(d, q)]
  /\ down' = Tail(down)
  /\ UNCHANGED <<client, future, futures, handling>>

-----------------------------------------------------------------------------
\* What a thread inside discoverDevices does next.
SearchStep ==
  \/ search \/ search_returns
  \/ branch_times_out \/ branch_empty \/ branch_collision \/ branch_found
  \/ found_muted

Client ==
  \/ \E whom \in MuteTargets : mute(whom) \/ unmute(whom)
  \/ command_returns
  \/ \E who \in GetTargets, f \in Gets : get(who, f)
  \/ \E f \in Gets : get_times_out(f)
  \/ \E s \in Sets : set(s[1], s[2])
  \/ \E s \in SearchRanges : startDiscovery(s[1], s[2], s[3])
  \/ SearchStep

Ingress == handle \/ handle_clear

Next == Client \/ Ingress \/ handleMaster

Spec == Init /\ [][Next]_vars

\* Both threads of the master and the responder's loop keep running.
FairSpec ==
  Spec /\ WF_vars(SearchStep) /\ WF_vars(Ingress) /\ WF_vars(handleMaster)

-----------------------------------------------------------------------------
Replies == [src : Uids, kind : {"none", "branch", "mute", "unmute", "device_info"}]

Requests == [pid : {"branch", "mute", "unmute", "get", "set"}, dst : Uids, from : Uids, to : Uids]

\* The variables hold what the classes of librdm declare.
TypeOK ==
  /\ pc \in {"idle", "search", "wait_branch", "wait_mute", "wait_command"}
  /\ range \in Uids \X Uids /\ searchSpace \in Seq(Uids \X Uids)
  /\ searchCount \in Nat
  /\ found \in Seq(Uids) /\ discovered \in Seq(Uids) /\ wanted \subseteq Uids
  /\ future \in [Futures -> [state : {"none", "Busy", "Ready", "Timeout"}, reply : Replies]]
  /\ futures \in Seq(Futures) /\ handling \in BOOLEAN
  /\ down \in Seq(Requests) /\ up \in Seq(Replies)
  /\ uid \in [Devices -> Uids] /\ muted \in [Devices -> BOOLEAN]

\* "Make a binary search over the search space to find existing device": when
\* discoverDevices has emptied its search space, every device that was in the
\* range and not muted when it was called is in the list it returns.
AllFound == pc = "idle" /\ searchSpace = <<>> => wanted \subseteq Members(discovered)

\* The search asks about every device it has not found yet: such a device is
\* in a range that is still to be searched, or in the one being asked for.
StillCovered ==
  pc \in {"search", "wait_branch", "wait_mute"} =>
    \A u \in wanted \ Members(found) :
      \E r \in Members(searchSpace) \union (IF pc = "search" THEN {} ELSE {range}) : Covers(r, u)

\* discoverDevices lists no device that is not on the bus, and none twice,
\* even when it takes a late reply to an earlier request for the answer.
FoundDevicesExist ==
  /\ Members(found) \subseteq {uid[d] : d \in Devices}
  /\ \A i, j \in 1 .. Len(found) : found[i] = found[j] => i = j

\* What discoverDevices has found does not answer again: while a pass is not
\* in the middle of muting it, every device found is muted.
FoundDevicesMuted ==
  pc \in {"search", "wait_branch"} => \A d \in Devices : uid[d] \in Members(found) => muted[d]

\* "If it is removed, the instance in the list must be removed": the list of
\* futures that handle writes to names no future that is out of scope.
ListedFuturesAlive == \A f \in Members(futures) : future[f].state # "none"

\* "the future makes it possible to kick start multiple requests and handle
\* them later": once every reply has been handled, no get still waits for one.
GetsAnswered == Quiet /\ ~ handling => \A f \in Gets : future[f].state # "Busy"

\* The kinds of reply the owner of a future asks for.
Kinds(f) == IF f \in {"branch", "mute"} THEN {f}
            ELSE IF f = "command" THEN {"mute", "unmute"} ELSE {"device_info"}

\* A reply reaches the future of its own request: RdmApi::handle, which gives
\* it to the first future of the list, gives it to one that asked for its kind.
ReplyMatchesRequest ==
  \A f \in Futures : future[f].state = "Ready" => future[f].reply.kind \in Kinds(f)

\* A discovery that starts ends, with every range searched and not because it
\* ran out of requests.
SearchCompletes == pc = "search" ~> pc = "idle" /\ searchSpace = <<>>

\* Replies reach who asked for them: the futures RdmApi lists are alive, the
\* reply in flight answers the request of the future it will be given to, and
\* a get is never left without its answer.
RepliesReachFutures ==
  /\ ListedFuturesAlive
  /\ ReplyMatchesRequest
  /\ GetsAnswered

=============================================================================
