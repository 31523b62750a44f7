------------------------------ MODULE Channels ------------------------------
(***************************************************************************)
(* The input channels: the configuration made from a setup, the registers  *)
(* of the boards and of the controller, pausing from the 1553 bus, and     *)
(* publishing on the network.  The same channel is found by three routes:  *)
(* stopping, setting up and publishing each count the boards in a way of   *)
(* their own, and all of them go through the configuration of the moment.  *)
(* Left out: DM boards, whose channels are set up by a call that lacks its *)
(* last argument.                                                          *)
(***************************************************************************)
EXTENDS Integers, Sequences, FiniteSets

CONSTANTS
  BoardLists,   \* the boards a recorder may have, in the order of their slots
  Setups,       \* the configurations at hand: slot -> [id, on]
  Slots,        \* the entries of the channel arrays: <<kind, index>>
  Requests,     \* what .PUBLISH START and STOP may name: sets of ids, 0 a word
                \* that is no number
  Addresses,    \* the addresses .PUBLISH START may name
  Four          \* channels of a small board (four); a large one has twice as many

Kinds == {"time", "voice", "m1553", "pcm", "video"}
Small1553 == "M1553_4"
Large1553 == "M1553_8"
Types == {Small1553, Large1553, "PCM_4", "PCM_8", "VIDEO"}

ASSUME ChannelsAssumption ==
  /\ Four \in Nat \ {0}
  /\ Requests \subseteq SUBSET Nat
  /\ Slots \subseteq Kinds \X Nat
  /\ \A s \in Slots : s[1] = "time" => s = <<"time", 0>>
  /\ Setups \subseteq [Slots -> [id : Nat \ {0}, on : BOOLEAN]]
  /\ \A b \in BoardLists : b \in Seq(Types)

VARIABLES
  boards,     \* MP_*_Board
  config,     \* Config
  hw,         \* channel registers: [id, run, bcast] of each port
  pcmPause,   \* MP_PCM_PAUSE of the PCM boards
  go,         \* CONTROLLER_GLOBAL_GO
  marked,     \* ids whose health word has the PAUSED bit
  step,       \* of a .SETUP
  publish,    \* the table of published ids: set of [id, type]
  address,    \* publish.IP, and the destination in ETHERNET_DUAL_PORT
  pubbed,     \* pubbed: no START may name another address
  asked,      \* what the last accepted START asked for, less what was stopped:
              \* set of [id, to]
  event,      \* pause or resume event of the bus not yet worked off
  stale       \* the registers are from before a setup that failed

publishing == <<publish, address, pubbed, asked>>
vars == <<boards, config, hw, pcmPause, go, marked, step, publishing, event, stale>>

Eight == 2 * Four
Ids == {config[s].id : s \in Slots}
Width(type) == IF type \in {Large1553, "PCM_8"} THEN Eight ELSE Four
Is1553(b) == boards[b] \in {Small1553, Large1553}
IsPcm(b) == boards[b] \in {"PCM_4", "PCM_8"}

\* Ports of the controller have board 0.
PortsOf(bs) ==
  [board : {0}, slot : {<<"time", 0>>, <<"voice", 0>>, <<"voice", 1>>}]
  \union UNION {[board : {b}, slot : {"port"} \X (1..Width(bs[b]))] : b \in DOMAIN bs}
PortSets == [bs \in BoardLists |-> PortsOf(bs)]
Ports == PortSets[boards]
None == <<"none", 0>>

\* The entry of an array for port p, when `before` channels of the kind are on
\* the boards before it.
Entry(kind, p, before) == <<kind, p.slot[2] - 1 + before>>
Before(bs, p, types) == Cardinality({k \in 1..(p.board - 1) : bs[k] \in types})

\* SetupHardware: one counter for both sizes of 1553 boards, one each for PCM.
SetupSlots == [bs \in BoardLists |-> [p \in PortsOf(bs) |->
  CASE p.board = 0 -> p.slot
    [] p.board # 0 /\ bs[p.board] \in {Small1553, Large1553} ->
         Entry("m1553", p, Eight * Before(bs, p, {Small1553, Large1553}))
    [] p.board # 0 /\ bs[p.board] = "PCM_4" -> Entry("pcm", p, Four * Before(bs, p, {"PCM_4"}))
    [] p.board # 0 /\ bs[p.board] = "PCM_8" -> Entry("pcm", p, Eight * Before(bs, p, {"PCM_8"}))
    [] p.board # 0 /\ bs[p.board] = "VIDEO" -> Entry("video", p, Four * Before(bs, p, {"VIDEO"}))]]
SetupSlot(p) == SetupSlots[boards][p]

\* M23_Start...Broadcast, M23_PauseAllHealth: 1553 boards are counted by size.
PublishSlots == [bs \in BoardLists |-> [p \in PortsOf(bs) |->
  CASE p.board # 0 /\ bs[p.board] = Small1553 -> Entry("m1553", p, Four * Before(bs, p, {Small1553}))
    [] p.board # 0 /\ bs[p.board] = Large1553 -> Entry("m1553", p, Eight * Before(bs, p, {Large1553}))
    [] OTHER -> SetupSlots[bs][p]]]
PublishSlot(p) == PublishSlots[boards][p]

\* M23_StopRecorder: small 1553 boards by the number of the board, of large ones
\* and of PCM boards always the first entries, and four channels of PCM boards.
StopSlot(p) ==
  LET b == p.board
  IN  CASE b = 0 -> None
        [] boards[b] = Small1553 -> Entry("m1553", p, Four * (b - 1))
        [] boards[b] = Large1553 -> Entry("m1553", p, 0)
        [] IsPcm(b) /\ p.slot[2] <= Four -> Entry("pcm", p, 0)
        [] OTHER -> None

On(s) == s \in Slots /\ config[s].on

\* The program comes up with the setup of the last session.
Init ==
  /\ boards \in BoardLists
  /\ config \in Setups
  /\ hw = [p \in PortsOf(boards) |->
             IF On(SetupSlot(p))
             THEN [id |-> config[SetupSlot(p)].id, run |-> TRUE, bcast |-> FALSE]
             ELSE [id |-> 0, run |-> FALSE, bcast |-> FALSE]]
  /\ pcmPause = FALSE
  /\ go = TRUE
  /\ marked = {}
  /\ step = "ready"
  /\ publish = {} /\ asked = {} /\ stale = FALSE
  /\ address = "" /\ pubbed = FALSE
  /\ event = "none"

-----------------------------------------------------------------------------
(* A setup: .SETUP, the rotary switch.                                     *)

\* (Mutant: the channels of video boards only.)
StopRecorderVideo ==
  hw' = [p \in Ports |-> IF p.board # 0 /\ boards[p.board] = "VIDEO" /\ On(SetupSlot(p))
                         THEN [hw[p] EXCEPT !.run = FALSE] ELSE hw[p]]

\* The channels that are on, and the time code generator.
StopRecorder ==
  hw' = [p \in Ports |-> IF On(StopSlot(p)) \/ p.slot = <<"time", 0>>
                         THEN [hw[p] EXCEPT !.run = FALSE] ELSE hw[p]]

\* M23_Setup, first part; M23_InitializeHealth forgets every health word.
SetupStops ==
  /\ step = "ready"
  /\ StopRecorder
  /\ go' = FALSE
  /\ marked' = {}
  /\ step' = "stopped"
  /\ UNCHANGED <<boards, config, pcmPause, event, stale, publishing>>

\* ProcessSetup.  When it fails the configuration may have been written already.
ProcessSetup ==
  /\ step = "stopped"
  /\ config' \in Setups
  /\ step' = "parsed"
  /\ UNCHANGED <<boards, hw, go, marked, pcmPause, event, stale, publishing>>

SetupFails ==
  /\ step = "stopped"
  /\ config' \in Setups
  /\ step' = "ready"
  /\ stale' = TRUE
  /\ UNCHANGED <<boards, hw, go, marked, pcmPause, event, publishing>>

InitializeChannelHealth == {}

\* (Mutant: what was published stays published.)
InitializedKeepsMask(p, s) == [hw[p] EXCEPT !.id = config[s].id, !.run = TRUE]

\* What a port is when its channel has been set up: identified, enabled, not
\* published.  The routine of every kind of board, and the code for voice and time,
\* writes the id with the broadcast mask.
Initialized(p, s) == [id |-> config[s].id, run |-> TRUE, bcast |-> FALSE]

\* Of a channel that is off these registers are not written, although the routine of
\* 1553 boards is called for it, too, to exclude all messages.  A voice channel is
\* identified and switched off.
SetupHardware ==
  hw' = [p \in Ports |->
           LET s == SetupSlot(p)
           IN  IF On(s) THEN Initialized(p, s)
               ELSE IF s[1] = "voice" /\ s \in Slots
               THEN [id |-> config[s].id, run |-> FALSE, bcast |-> FALSE]
               ELSE hw[p]]

\* SetupChannels, M23_SetGo.
SetupChannels ==
  /\ step = "parsed"
  /\ SetupHardware
  /\ marked' = InitializeChannelHealth
  /\ go' = TRUE
  /\ step' = "ready"
  /\ stale' = FALSE
  /\ asked' = {}
  /\ UNCHANGED <<boards, config, pcmPause, event, publish, address, pubbed>>

-----------------------------------------------------------------------------
(* Pausing by a message on the 1553 bus: the logic stops its channels itself *)
(* and reports the event; the event thread marks them and pauses the others. *)

IdsOf(slots) == {config[s].id : s \in {t \in slots : On(t)}}
M1553Ids == IdsOf({PublishSlot(p) : p \in {q \in Ports : q.board # 0 /\ Is1553(q.board)}})
PcmIds == IdsOf({SetupSlot(p) : p \in {q \in Ports : q.board # 0 /\ IsPcm(q.board)}})

EventMessage ==
  /\ event = "none"
  /\ event' \in {"pause", "resume"}
  /\ UNCHANGED <<boards, config, hw, pcmPause, marked, go, step, stale, publishing>>

Marks(ids, paused) == IF paused THEN marked \union ids ELSE marked \ ids

\* M23_M1553_Process_PauseResume: the health words, then the PCM boards.
ProcessPauseResume ==
  /\ event # "none"
  /\ event' = "none"
  /\ marked' = Marks(M1553Ids, event = "pause")
  /\ pcmPause' = (event = "pause")
  /\ UNCHANGED <<boards, config, hw, go, step, stale, publishing>>

\* (Mutants: a mark is only ever set; marks go by the index, not the id.)
MarkPcmByIndex == IF pcmPause THEN marked \union {s[2] : s \in Slots} ELSE marked
MarkPcmOnly == IF pcmPause THEN marked \union PcmIds ELSE marked

\* The health thread marks the PCM channels as their boards are.
MarkPcm == Marks(PcmIds, pcmPause)

CheckStatus ==
  /\ marked' = MarkPcm
  /\ UNCHANGED <<boards, config, hw, pcmPause, go, step, event, stale, publishing>>

-----------------------------------------------------------------------------
(* .PUBLISH.                                                               *)

\* FindPubType: the kind of the channel that has the id.
FindPubType(id) ==
  IF id \in Ids THEN (CHOOSE s \in Slots : config[s].id = id)[1] ELSE "none"

\* M23_Start...Broadcast, M23_Stop...Broadcast: only a large 1553 board looks at
\* whether the channel is on; time has one channel.
Reached(table, p) ==
  LET s == PublishSlot(p)
  IN  \E e \in table :
        /\ e.type = s[1]
        /\ s[1] = "time" \/ (s \in Slots /\ config[s].id = e.id)
        /\ p.board # 0 /\ boards[p.board] = Large1553 => On(s)

Broadcast(registers, table, value) ==
  [p \in Ports |-> IF Reached(table, p) THEN [registers[p] EXCEPT !.bcast = value] ELSE registers[p]]

\* What publishing takes for granted: an id is of one kind, and a small 1553 board is
\* the only 1553 board.  Neither is checked; elsewhere an id finds another channel.
IdsOfOneKind == \A c \in Setups : \A s, t \in Slots : c[s].id = c[t].id => s[1] = t[1]
OneSize ==
  \A bs \in BoardLists : \A j, k \in DOMAIN bs :
    bs[j] = Small1553 /\ bs[k] \in {Small1553, Large1553} => j = k

Typed(ids) == {[id |-> i, type |-> FindPubType(i)] : i \in ids}

\* M23_StopAllPublish, by the table of the last START.
StopOld == Broadcast(hw, publish, FALSE)

\* The packets' header; the other fields depend on the recorder alone.
FillPublishDualPort(to) == address' = to

To(ids, to) == [id : ids, to : {to}]

\* START: refused while something is published to another address.  All that was
\* published is stopped and the table emptied before the words are looked at; the
\* first bad one ends the command with some of the words before it in the table
\* and nothing published.
PublishStart ==
  \E request \in Requests, to \in Addresses :
    /\ pubbed => to = address
    /\ FillPublishDualPort(to)
    /\ IF 0 \in request
       THEN \E ids \in SUBSET (request \ {0}) :
              /\ publish' = Typed(ids)
              /\ hw' = StopOld
              /\ asked' = {}
              /\ UNCHANGED pubbed
       ELSE /\ publish' = Typed(request)
            /\ hw' = Broadcast(StopOld, publish', TRUE)
            /\ asked' = To(request, to)
            /\ pubbed' = TRUE
    /\ UNCHANGED <<boards, config, pcmPause, go, marked, step, event, stale>>

\* STOP: the ids of a table of its own; the published table is left as it is.
\* What still goes out does not hold the address any more.
PublishStop ==
  \E request \in Requests :
    /\ 0 \notin request
    /\ hw' = Broadcast(hw, Typed(request), FALSE)
    /\ asked' = {a \in asked : a.id \notin request}
    /\ pubbed' = FALSE
    /\ UNCHANGED <<boards, config, pcmPause, go, marked, step, event, stale, publish, address>>

\* STOP ALL stops the published table.
PublishStopAll ==
  /\ hw' = StopOld
  /\ asked' = {}
  /\ pubbed' = FALSE
  /\ UNCHANGED <<boards, config, pcmPause, go, marked, step, event, stale, publish, address>>

-----------------------------------------------------------------------------
\* A setup is one call of the console, which publishes before or after it.
Setup == ProcessSetup \/ SetupFails \/ SetupChannels
Publishing == step = "ready" /\ (PublishStart \/ PublishStop \/ PublishStopAll)

Next ==
  \/ SetupStops \/ Setup \/ Publishing
  \/ EventMessage \/ ProcessPauseResume \/ CheckStatus

\* The two threads never stop.
Fairness == WF_vars(CheckStatus) /\ WF_vars(ProcessPauseResume)

Spec == Init /\ [][Next]_vars /\ Fairness

-----------------------------------------------------------------------------
\* The state is well typed.
TypeOK ==
  /\ boards \in BoardLists /\ config \in Setups
  /\ hw \in [Ports -> [id : Nat, run : BOOLEAN, bcast : BOOLEAN]]
  /\ {go, stale, pcmPause} \subseteq BOOLEAN
  /\ step \in {"ready", "stopped", "parsed"}
  /\ event \in {"none", "pause", "resume"}
  /\ marked \subseteq UNION {{c[s].id : s \in Slots} : c \in Setups}
  /\ asked \subseteq [id : Nat, to : Addresses]
  /\ address \in Addresses \union {""} /\ pubbed \in BOOLEAN
  /\ publish \subseteq [id : Nat, type : Kinds \union {"none"}]

Ready == step = "ready" /\ ~stale

\* The boards whose entries StopSlot finds: the first of their kind, a small 1553
\* board only in the first place; and the first four channels of a PCM board.
FirstOfKind(b) ==
  \A k \in 1..(b - 1) : ~(Is1553(k) /\ Is1553(b)) /\ ~(IsPcm(k) /\ IsPcm(b))
StopReaches(p) ==
  /\ p.board # 0 /\ FirstOfKind(p.board)
  /\ \/ boards[p.board] = Small1553 /\ p.board = 1
     \/ boards[p.board] = Large1553
     \/ IsPcm(p.board) /\ p.slot[2] <= Four

\* A 1553 or PCM channel of such a board that a setup drops has stopped when the
\* setup is made, though M23_StopRecorder goes by the configuration of the moment
\* and setups may have failed in between.
DroppedStops ==
  [][SetupChannels =>
       \A p \in Ports : StopReaches(p) /\ hw'[p].run => On(SetupSlot(p))]_vars

\* What goes out on the network are, of the channels that are on, those that the
\* last START asked for and no STOP took back, over setups that change the ids, and
\* it goes where that START said.
PublishedIsAsked ==
  Ready => \A p \in Ports : On(SetupSlot(p)) =>
             (hw[p].bcast <=> [id |-> hw[p].id, to |-> address] \in asked)

\* Again and again, outside a setup, every channel of a paused PCM board is marked
\* as paused and of one that records as not paused: the event thread sets the
\* boards, the health thread the marks, and a pause or resume that stays is seen.
PauseIsSeen ==
  []<>(\/ step # "ready"
       \/ IF pcmPause THEN PcmIds \subseteq marked ELSE PcmIds \intersect marked = {})
=============================================================================
