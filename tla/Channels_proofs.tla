--------------------------- MODULE Channels_proofs ---------------------------
(***************************************************************************)
(* Proofs about Channels, for any boards, any configurations, any requests *)
(* to publish, and setups that fail.                                       *)
(***************************************************************************)
EXTENDS Channels, FiniteSetTheorems, TLAPS

-----------------------------------------------------------------------------
(* Types.                                                                  *)

LEMMA SetupIds ==
  ASSUME NEW c \in Setups, NEW s \in Slots
  PROVE  c[s].id \in Nat \ {0} /\ c[s].on \in BOOLEAN
BY ChannelsAssumption

\* A channel that is on has an id.
LEMMA OnHasId ==
  ASSUME TypeOK, NEW s, On(s)
  PROVE  s \in Slots /\ config[s].id \in Nat \ {0} /\ config[s].id \in Ids
BY SetupIds DEF TypeOK, On, Ids

\* The ids that a configuration gives to channels that are on.
LEMMA IdsOfSetup ==
  ASSUME TypeOK, NEW slots
  PROVE  IdsOf(slots) \subseteq UNION {{c[s].id : s \in Slots} : c \in Setups}
<1>1. SUFFICES ASSUME NEW s \in slots, On(s)
               PROVE  config[s].id \in UNION {{c[t].id : t \in Slots} : c \in Setups}
  BY DEF IdsOf
<1>2. config[s].id \in {config[t].id : t \in Slots} /\ config \in Setups
  BY <1>1 DEF On, TypeOK
<1>3. QED
  BY <1>2

LEMMA TypedTypes ==
  ASSUME NEW ids \in SUBSET Nat
  PROVE  Typed(ids) \subseteq [id : Nat, type : Kinds \union {"none"}]
<1>1. ASSUME NEW id \in ids
      PROVE  FindPubType(id) \in Kinds \union {"none"}
  <2>1. CASE id \in Ids
    <3>1. (CHOOSE s \in Slots : config[s].id = id) \in Slots
      BY <2>1 DEF Ids
    <3>2. QED
      BY <2>1, <3>1, ChannelsAssumption DEF FindPubType
  <2>2. CASE id \notin Ids
    BY <2>2 DEF FindPubType
  <2>3. QED
    BY <2>1, <2>2
<1>2. QED
  BY <1>1 DEF Typed

LEMMA BroadcastTypes ==
  ASSUME NEW registers \in [Ports -> [id : Nat, run : BOOLEAN, bcast : BOOLEAN]],
         NEW table, NEW value \in BOOLEAN
  PROVE  Broadcast(registers, table, value) \in [Ports -> [id : Nat, run : BOOLEAN, bcast : BOOLEAN]]
BY DEF Broadcast

LEMMA ChannelsInit ==
  ASSUME Init
  PROVE  TypeOK
<1>1. ASSUME NEW p \in Ports, On(SetupSlot(p))
      PROVE  config[SetupSlot(p)].id \in Nat
  BY <1>1, SetupIds DEF Init, On
<1>2. Ports = PortsOf(boards)
  BY DEF Init, Ports, PortSets
<1>3. hw \in [Ports -> [id : Nat, run : BOOLEAN, bcast : BOOLEAN]]
  BY <1>1, <1>2 DEF Init
<1>4. QED
  BY <1>3 DEF Init, TypeOK

LEMMA PublishingTypes ==
  ASSUME TypeOK, Publishing
  PROVE  TypeOK'
<1> DEFINE Registers == [Ports -> [id : Nat, run : BOOLEAN, bcast : BOOLEAN]]
<1>1. StopOld \in Registers /\ Ports' = Ports
  BY BroadcastTypes DEF StopOld, TypeOK, Ports, Publishing, PublishStart, PublishStop, PublishStopAll
<1>2. \A request \in Requests : request \subseteq Nat
  BY ChannelsAssumption
<1>3. CASE PublishStart
  <2>1. PICK request \in Requests, to \in Addresses :
          /\ address' = to
          /\ IF 0 \in request
             THEN \E ids \in SUBSET (request \ {0}) :
                    publish' = Typed(ids) /\ hw' = StopOld /\ asked' = {} /\ UNCHANGED pubbed
             ELSE /\ publish' = Typed(request) /\ hw' = Broadcast(StopOld, publish', TRUE)
                  /\ asked' = To(request, to) /\ pubbed' = TRUE
    BY <1>3 DEF PublishStart, FillPublishDualPort
  <2>2. asked' \subseteq [id : Nat, to : Addresses] /\ pubbed' \in BOOLEAN
    <3>1. To(request, to) \subseteq [id : Nat, to : Addresses]
      BY <1>2 DEF To
    <3>2. asked' = {} \/ asked' = To(request, to)
      BY <2>1
    <3>3. pubbed' \in BOOLEAN
      BY <2>1 DEF TypeOK
    <3>4. QED
      BY <3>1, <3>2, <3>3
  <2>3. publish' \subseteq [id : Nat, type : Kinds \union {"none"}]
    <3>1. \A ids \in SUBSET Nat : Typed(ids) \subseteq [id : Nat, type : Kinds \union {"none"}]
      BY TypedTypes
    <3>2. PICK ids \in SUBSET Nat : publish' = Typed(ids)
      BY <1>2, <2>1
    <3>3. QED
      BY <3>1, <3>2
  <2>4. hw' \in Registers
    <3>1. hw' = StopOld \/ hw' = Broadcast(StopOld, publish', TRUE)
      BY <2>1
    <3>2. Broadcast(StopOld, publish', TRUE) \in Registers
      BY <1>1, BroadcastTypes
    <3>3. QED
      BY <1>1, <3>1, <3>2
  <2>5. QED
    BY <1>1, <1>3, <2>1, <2>2, <2>3, <2>4 DEF TypeOK, PublishStart
<1>4. CASE PublishStop
  <2>1. hw' \in Registers
    <3>1. PICK request \in Requests : hw' = Broadcast(hw, Typed(request), FALSE)
      BY <1>4 DEF PublishStop
    <3>2. Broadcast(hw, Typed(request), FALSE) \in Registers
      BY BroadcastTypes DEF TypeOK
    <3>3. QED
      BY <3>1, <3>2
  <2>2. QED
    BY <1>1, <1>4, <2>1 DEF TypeOK, PublishStop
<1>5. CASE PublishStopAll
  BY <1>1, <1>5 DEF TypeOK, PublishStopAll
<1>6. QED
  BY <1>3, <1>4, <1>5 DEF Publishing

LEMMA SetupStepTypes ==
  ASSUME TypeOK, SetupStops \/ Setup
  PROVE  TypeOK'
<1>1. Ports' = Ports /\ boards' = boards
  BY DEF Ports, SetupStops, Setup, ProcessSetup, SetupFails, SetupChannels
<1>2. CASE SetupStops
  <2>1. hw' \in [Ports -> [id : Nat, run : BOOLEAN, bcast : BOOLEAN]]
    BY <1>2 DEF SetupStops, StopRecorder, TypeOK
  <2>2. QED
    BY <1>1, <1>2, <2>1 DEF SetupStops, TypeOK, publishing
<1>3. CASE ProcessSetup \/ SetupFails
  BY <1>1, <1>3 DEF ProcessSetup, SetupFails, TypeOK, publishing
<1>4. CASE SetupChannels
  <2>1. \A s \in Slots : config[s].id \in Nat
    BY SetupIds DEF TypeOK
  <2>2. \A s : On(s) => s \in Slots
    BY DEF On
  <2>3. hw' \in [Ports -> [id : Nat, run : BOOLEAN, bcast : BOOLEAN]]
    BY <1>4, <2>1, <2>2 DEF SetupChannels, SetupHardware, Initialized, TypeOK
  <2>4. QED
    BY <1>1, <1>4, <2>3 DEF SetupChannels, InitializeChannelHealth, TypeOK
<1>5. QED
  BY <1>2, <1>3, <1>4 DEF Setup

LEMMA ThreadTypes ==
  ASSUME TypeOK, EventMessage \/ ProcessPauseResume \/ CheckStatus \/ UNCHANGED vars
  PROVE  TypeOK'
<1>1. /\ UNCHANGED <<boards, config, hw, step, publish, address, pubbed, asked, go, stale>>
      /\ Ports' = Ports
  BY DEF EventMessage, ProcessPauseResume, CheckStatus, vars, publishing, Ports
<1>2. M1553Ids \union PcmIds \subseteq UNION {{c[s].id : s \in Slots} : c \in Setups}
  BY IdsOfSetup DEF M1553Ids, PcmIds
<1>3. marked' \subseteq marked \union M1553Ids \union PcmIds
  BY DEF EventMessage, ProcessPauseResume, CheckStatus, MarkPcm, Marks, vars
<1>4. marked' \subseteq UNION {{c[s].id : s \in Slots} : c \in Setups}
  BY <1>2, <1>3 DEF TypeOK
<1>5. pcmPause' \in BOOLEAN /\ event' \in {"none", "pause", "resume"}
  BY DEF EventMessage, ProcessPauseResume, CheckStatus, vars, TypeOK
<1>6. QED
  BY <1>1, <1>4, <1>5 DEF TypeOK

LEMMA ChannelsTypesStep == TypeOK /\ [Next]_vars => TypeOK'
BY PublishingTypes, SetupStepTypes, ThreadTypes, Zenon DEF Next

\* The registers, the table of published ids and the marks are well typed in every
\* reachable state, for any boards, configurations and requests (TypeOK of Channels).
THEOREM ChannelsTypeCorrect == Spec => []TypeOK
<1>1. Init => TypeOK
  BY ChannelsInit
<1>2. QED
  BY <1>1, ChannelsTypesStep, PTL DEF Spec

-----------------------------------------------------------------------------
(* What is published.                                                      *)

\* Boards without a 1553 board before them on which another board could count: setting
\* up and publishing find the same entry.
LEMMA SameRoute ==
  ASSUME OneSize, boards \in BoardLists, NEW p \in Ports
  PROVE  PublishSlot(p) = SetupSlot(p)
<1> DEFINE bs == boards
           any == {k \in 1..(p.board - 1) : bs[k] \in {Small1553, Large1553}}
           small == {k \in 1..(p.board - 1) : bs[k] \in {Small1553}}
           large == {k \in 1..(p.board - 1) : bs[k] \in {Large1553}}
<1>1. p \in PortsOf(bs) /\ bs \in Seq(Types)
  BY ChannelsAssumption DEF Ports, PortSets
<1>2. PublishSlot(p) =
        CASE p.board # 0 /\ bs[p.board] = Small1553 -> Entry("m1553", p, Four * Cardinality(small))
          [] p.board # 0 /\ bs[p.board] = Large1553 -> Entry("m1553", p, Eight * Cardinality(large))
          [] OTHER -> SetupSlot(p)
  BY <1>1 DEF PublishSlot, PublishSlots, SetupSlot, Before
<1>3. ASSUME p.board # 0, bs[p.board] \in {Small1553, Large1553}
      PROVE  SetupSlot(p) = Entry("m1553", p, Eight * Cardinality(any))
  BY <1>1, <1>3 DEF SetupSlot, SetupSlots, Before, Small1553, Large1553
<1>4. p.board = 0 \/ p.board \in DOMAIN bs
  BY <1>1 DEF PortsOf
<1>5. DOMAIN bs = 1..Len(bs) /\ Len(bs) \in Nat
  BY <1>1
<1>6. CASE p.board # 0 /\ bs[p.board] = Small1553
  <2>1. \A k \in 1..(p.board - 1) : k \in DOMAIN bs /\ k # p.board
    BY <1>4, <1>5, <1>6
  <2>2. any = {} /\ small = {}
    BY <1>4, <1>6, <2>1 DEF OneSize
  <2>3. Four * 0 = 0 /\ Eight * 0 = 0
    BY ChannelsAssumption DEF Eight
  <2>4. QED
    BY <1>2, <1>3, <1>6, <2>2, <2>3, FS_EmptySet
<1>7. CASE p.board # 0 /\ bs[p.board] = Large1553
  <2>1. \A k \in 1..(p.board - 1) : k \in DOMAIN bs /\ k # p.board
    BY <1>4, <1>5, <1>7
  <2>2. \A k \in 1..(p.board - 1) : bs[k] # Small1553
    BY <1>4, <1>7, <2>1 DEF OneSize
  <2>3. any = large
    BY <2>2
  <2>4. bs[p.board] # Small1553
    BY <1>7 DEF Small1553, Large1553
  <2>5. QED
    BY <1>2, <1>3, <1>7, <2>3, <2>4
<1>8. CASE ~(p.board # 0 /\ bs[p.board] \in {Small1553, Large1553})
  BY <1>2, <1>8
<1>9. QED
  BY <1>6, <1>7, <1>8

\* A channel that is on is reached by its id, and by no other.
LEMMA ReachedById ==
  ASSUME OneSize, IdsOfOneKind, TypeOK, NEW ids, NEW p \in Ports, On(SetupSlot(p))
  PROVE  Reached(Typed(ids), p) <=> config[SetupSlot(p)].id \in ids
<1> DEFINE s == SetupSlot(p)
<1>1. PublishSlot(p) = s /\ s \in Slots /\ config \in Setups /\ config[s].id \in Ids
  BY SameRoute, OnHasId DEF TypeOK
<1>2. ASSUME NEW t \in Slots
      PROVE  FindPubType(config[t].id) = t[1]
  <2> DEFINE found == CHOOSE r \in Slots : config[r].id = config[t].id
  <2>1. found \in Slots /\ config[found].id = config[t].id
    OBVIOUS
  <2>2. found[1] = t[1]
    BY <1>1, <2>1 DEF IdsOfOneKind
  <2>3. config[t].id \in Ids
    BY DEF Ids
  <2>4. QED
    BY <2>2, <2>3 DEF FindPubType
<1>3. ASSUME config[s].id \in ids
      PROVE  Reached(Typed(ids), p)
  <2>1. [id |-> config[s].id, type |-> s[1]] \in Typed(ids)
    BY <1>1, <1>2, <1>3 DEF Typed
  <2>2. QED
    BY <1>1, <2>1 DEF Reached
<1>4. ASSUME Reached(Typed(ids), p)
      PROVE  config[s].id \in ids
  <2>1. PICK i \in ids : FindPubType(i) = s[1] /\ (s[1] = "time" \/ config[s].id = i)
    BY <1>1, <1>4 DEF Reached, Typed
  <2>2. CASE s[1] = "time"
    <3>1. i \in Ids
      BY <2>1, <2>2 DEF FindPubType
    <3>2. PICK t \in Slots : config[t].id = i
      BY <3>1 DEF Ids
    <3>3. t[1] = "time"
      BY <1>2, <2>1, <2>2, <3>2
    <3>4. t = s
      BY <1>1, <2>2, <3>3, ChannelsAssumption
    <3>5. QED
      BY <3>2, <3>4
  <2>3. QED
    BY <2>1, <2>2
<1>5. QED
  BY <1>3, <1>4

\* What a port that is on publishes, after a setup that succeeded: it has the id of its
\* channel, what it sends was asked for, and the published table still reaches it.
PublishedPort(p) ==
  /\ hw[p].id = config[SetupSlot(p)].id
  /\ hw[p].bcast <=> [id |-> hw[p].id, to |-> address] \in asked
  /\ hw[p].bcast => Reached(publish, p)

PublishedInv == Ready => \A p \in Ports : On(SetupSlot(p)) => PublishedPort(p)

\* A broadcast changes no more than the bit that publishes.
LEMMA BroadcastKeeps ==
  ASSUME NEW registers \in [Ports -> [id : Nat, run : BOOLEAN, bcast : BOOLEAN]],
         NEW table, NEW value \in BOOLEAN, NEW p \in Ports
  PROVE  /\ Broadcast(registers, table, value)[p].id = registers[p].id
         /\ Broadcast(registers, table, value)[p].run = registers[p].run
BY DEF Broadcast

LEMMA BroadcastPort ==
  ASSUME NEW registers \in [Ports -> [id : Nat, run : BOOLEAN, bcast : BOOLEAN]],
         NEW table, NEW p \in Ports
  PROVE  /\ Broadcast(registers, table, TRUE)[p].bcast <=> registers[p].bcast \/ Reached(table, p)
         /\ Broadcast(registers, table, FALSE)[p].bcast <=> registers[p].bcast /\ ~Reached(table, p)
<1>1. registers[p] \in [id : Nat, run : BOOLEAN, bcast : BOOLEAN]
  OBVIOUS
<1>2. CASE Reached(table, p)
  BY <1>1, <1>2 DEF Broadcast
<1>3. CASE ~Reached(table, p)
  BY <1>1, <1>3 DEF Broadcast
<1>4. QED
  BY <1>2, <1>3

\* The table of the last START, when it is stopped, leaves nothing published.
LEMMA StopOldStops ==
  ASSUME TypeOK, PublishedInv, Ready, NEW p \in Ports, On(SetupSlot(p))
  PROVE  StopOld[p].id = config[SetupSlot(p)].id /\ ~StopOld[p].bcast
<1>1. hw[p].id = config[SetupSlot(p)].id /\ (hw[p].bcast => Reached(publish, p))
  BY DEF PublishedInv, PublishedPort
<1>2. hw \in [Ports -> [id : Nat, run : BOOLEAN, bcast : BOOLEAN]]
  BY DEF TypeOK
<1>3. StopOld[p].id = hw[p].id
  BY <1>2, BroadcastKeeps, Zenon DEF StopOld
<1>4. StopOld[p].bcast <=> hw[p].bcast /\ ~Reached(publish, p)
  BY <1>2, BroadcastPort, Zenon DEF StopOld
<1>5. QED
  BY <1>1, <1>3, <1>4

LEMMA PublishStartAsked ==
  ASSUME OneSize, IdsOfOneKind, TypeOK, PublishedInv, step = "ready", PublishStart
  PROVE  PublishedInv'
<1>1. UNCHANGED <<boards, config, step, stale>>
  BY DEF PublishStart
<1>2. SUFFICES ASSUME Ready, NEW p \in Ports, On(SetupSlot(p))
               PROVE  PublishedPort(p)'
  BY <1>1 DEF PublishedInv, Ready, Ports, On, SetupSlot
<1>3. PICK request \in Requests, to \in Addresses :
        /\ address' = to
        /\ IF 0 \in request
           THEN \E ids \in SUBSET (request \ {0}) :
                  publish' = Typed(ids) /\ hw' = StopOld /\ asked' = {} /\ UNCHANGED pubbed
           ELSE /\ publish' = Typed(request) /\ hw' = Broadcast(StopOld, publish', TRUE)
                /\ asked' = To(request, to) /\ pubbed' = TRUE
  BY DEF PublishStart, FillPublishDualPort
<1>4. StopOld[p].id = config[SetupSlot(p)].id /\ ~StopOld[p].bcast
  BY <1>2, StopOldStops
<1>5. SetupSlot(p)' = SetupSlot(p) /\ Reached(publish, p)' = Reached(publish', p)
  BY <1>1 DEF SetupSlot, Reached, PublishSlot, On
<1>6. CASE 0 \in request
  BY <1>1, <1>3, <1>4, <1>5, <1>6 DEF PublishedPort
<1>7. CASE 0 \notin request
  <2>1. hw' = Broadcast(StopOld, Typed(request), TRUE)
    BY <1>3, <1>7
  <2>2. StopOld \in [Ports -> [id : Nat, run : BOOLEAN, bcast : BOOLEAN]]
    BY BroadcastTypes DEF StopOld, TypeOK
  <2>3. /\ hw'[p].id = config[SetupSlot(p)].id
        /\ hw'[p].bcast <=> Reached(Typed(request), p)
    <3>1. hw'[p].id = StopOld[p].id
      BY <2>1, <2>2, BroadcastKeeps, Zenon
    <3>2. hw'[p].bcast <=> StopOld[p].bcast \/ Reached(Typed(request), p)
      BY <2>1, <2>2, BroadcastPort, Zenon
    <3>3. QED
      BY <1>4, <3>1, <3>2
  <2>4. Reached(Typed(request), p) <=> config[SetupSlot(p)].id \in request
    BY <1>2, ReachedById
  <2>5. [id |-> hw'[p].id, to |-> address'] \in asked' <=> hw'[p].id \in request
    <3>1. asked' = To(request, to) /\ address' = to
      BY <1>3, <1>7
    <3>2. \A i : [id |-> i, to |-> to] \in To(request, to) <=> i \in request
      BY DEF To
    <3>3. QED
      BY <3>1, <3>2
  <2>6. publish' = Typed(request)
    BY <1>3, <1>7
  <2>7. QED
    BY <1>1, <1>5, <2>3, <2>4, <2>5, <2>6 DEF PublishedPort
<1>8. QED
  BY <1>6, <1>7

LEMMA PublishStopAsked ==
  ASSUME OneSize, IdsOfOneKind, TypeOK, PublishedInv, step = "ready",
         PublishStop \/ PublishStopAll
  PROVE  PublishedInv'
<1>1. UNCHANGED <<boards, config, step, stale, publish, address>>
  BY DEF PublishStop, PublishStopAll
<1>2. SUFFICES ASSUME Ready, NEW p \in Ports, On(SetupSlot(p))
               PROVE  PublishedPort(p)'
  BY <1>1 DEF PublishedInv, Ready, Ports, On, SetupSlot
<1>3. SetupSlot(p)' = SetupSlot(p) /\ Reached(publish, p)' = Reached(publish, p)
  BY <1>1 DEF SetupSlot, Reached, PublishSlot, On
<1>4. PublishedPort(p)
  BY <1>2 DEF PublishedInv
<1>5. CASE PublishStop
  <2>1. PICK request \in Requests : /\ hw' = Broadcast(hw, Typed(request), FALSE)
                                    /\ asked' = {a \in asked : a.id \notin request}
    BY <1>5 DEF PublishStop
  <2>2. /\ hw'[p].id = hw[p].id
        /\ hw'[p].bcast <=> hw[p].bcast /\ ~Reached(Typed(request), p)
    <3>1. hw \in [Ports -> [id : Nat, run : BOOLEAN, bcast : BOOLEAN]]
      BY DEF TypeOK
    <3>2. hw'[p].id = hw[p].id
      BY <2>1, <3>1, BroadcastKeeps, Zenon
    <3>3. hw'[p].bcast <=> hw[p].bcast /\ ~Reached(Typed(request), p)
      BY <2>1, <3>1, BroadcastPort, Zenon
    <3>4. QED
      BY <3>2, <3>3
  <2>3. Reached(Typed(request), p) <=> hw[p].id \in request
    BY <1>2, <1>4, ReachedById DEF PublishedPort
  <2>4. QED
    BY <1>1, <1>3, <1>4, <2>1, <2>2, <2>3 DEF PublishedPort
<1>6. CASE PublishStopAll
  <2>1. hw'[p].id = config[SetupSlot(p)].id /\ ~hw'[p].bcast /\ asked' = {}
    BY <1>2, <1>6, StopOldStops DEF PublishStopAll
  <2>2. QED
    BY <1>1, <1>3, <2>1 DEF PublishedPort
<1>7. QED
  BY <1>5, <1>6

\* A setup that is made leaves nothing published on the channels that are on; during a
\* setup, and after one that failed, nothing is claimed.
LEMMA SetupAsked ==
  ASSUME TypeOK, PublishedInv, SetupStops \/ Setup
  PROVE  PublishedInv'
<1>1. CASE SetupStops \/ ProcessSetup \/ SetupFails
  BY <1>1 DEF SetupStops, ProcessSetup, SetupFails, PublishedInv, Ready
<1>2. CASE SetupChannels
  <2>1. UNCHANGED <<boards, config>> /\ asked' = {} /\ SetupHardware
    BY <1>2 DEF SetupChannels
  <2>2. Ports' = Ports /\ (\A p : SetupSlot(p)' = SetupSlot(p)) /\ (\A s : On(s)' = On(s))
    BY <2>1 DEF Ports, SetupSlot, On
  <2>3. ASSUME NEW p \in Ports, On(SetupSlot(p))
        PROVE  PublishedPort(p)'
    <3>1. hw'[p] = [id |-> config[SetupSlot(p)].id, run |-> TRUE, bcast |-> FALSE]
      BY <2>1, <2>3 DEF SetupHardware, Initialized
    <3>2. QED
      BY <2>1, <2>2, <3>1 DEF PublishedPort
  <2>4. QED
    BY <2>2, <2>3 DEF PublishedInv
<1>3. QED
  BY <1>1, <1>2 DEF Setup

LEMMA ThreadsAsked ==
  ASSUME PublishedInv, EventMessage \/ ProcessPauseResume \/ CheckStatus \/ UNCHANGED vars
  PROVE  PublishedInv'
<1>1. UNCHANGED <<boards, config, hw, step, stale, publish, address, asked>>
  BY DEF EventMessage, ProcessPauseResume, CheckStatus, vars, publishing
<1>2. QED
  BY <1>1 DEF PublishedInv, PublishedPort, Ready, Ports, SetupSlot, PublishSlot, On, Reached

\* Whatever setups, publications and bus events come in any order, the channels that are
\* on and go out on the network are those that the last START asked for and no STOP took
\* back, and they go where it said: for any boards of one 1553 size and any
\* configurations whose ids are each of one kind (PublishedIsAsked of Channels).
THEOREM PublishesWhatIsAsked ==
  ASSUME OneSize, IdsOfOneKind
  PROVE  Spec => []PublishedIsAsked
<1>1. Init => TypeOK /\ PublishedInv
  <2>1. ASSUME Init, NEW p \in Ports, On(SetupSlot(p))
        PROVE  PublishedPort(p)
    <3>1. Ports = PortsOf(boards)
      BY <2>1 DEF Init, Ports, PortSets
    <3>2. hw[p] = [id |-> config[SetupSlot(p)].id, run |-> TRUE, bcast |-> FALSE] /\ asked = {}
      BY <2>1, <3>1 DEF Init
    <3>3. QED
      BY <3>2 DEF PublishedPort
  <2>2. QED
    BY <2>1, ChannelsInit DEF PublishedInv
<1>2. TypeOK /\ PublishedInv /\ [Next]_vars => PublishedInv'
  BY PublishStartAsked, PublishStopAsked, SetupAsked, ThreadsAsked, Zenon DEF Next, Publishing
<1>3. PublishedInv => PublishedIsAsked
  BY DEF PublishedInv, PublishedPort, PublishedIsAsked
<1>4. QED
  BY <1>1, <1>2, <1>3, ChannelsTypesStep, PTL DEF Spec

-----------------------------------------------------------------------------
(* What a setup drops.                                                     *)

\* Stopping and setting up count the boards alike where nothing of the kind comes before.
LEMMA StopFindsSlot ==
  ASSUME boards \in BoardLists, NEW p \in Ports, StopReaches(p)
  PROVE  StopSlot(p) = SetupSlot(p)
<1> DEFINE bs == boards
<1>1. p \in PortsOf(bs) /\ p.board # 0 /\ FirstOfKind(p.board)
  BY DEF Ports, PortSets, StopReaches
<1>2. ASSUME NEW types, \A k \in 1..(p.board - 1) : bs[k] \notin types
      PROVE  Before(bs, p, types) = 0
  BY <1>2, FS_EmptySet DEF Before
<1>3. Four * 0 = 0 /\ Eight * 0 = 0
  BY ChannelsAssumption DEF Eight
<1>4. CASE bs[p.board] = Small1553 /\ p.board = 1
  <2>1. Before(bs, p, {Small1553, Large1553}) = 0
    BY <1>2, <1>4
  <2>2. SetupSlot(p) = Entry("m1553", p, 0)
    BY <1>1, <1>3, <1>4, <2>1 DEF SetupSlot, SetupSlots, Small1553
  <2>3. StopSlot(p) = Entry("m1553", p, 0)
    BY <1>3, <1>4 DEF StopSlot, IsPcm, Small1553, Large1553
  <2>4. QED
    BY <2>2, <2>3
<1>5. CASE bs[p.board] = Large1553
  <2>1. Before(bs, p, {Small1553, Large1553}) = 0
    BY <1>1, <1>2, <1>5 DEF FirstOfKind, Is1553
  <2>2. SetupSlot(p) = Entry("m1553", p, 0)
    BY <1>1, <1>3, <1>5, <2>1 DEF SetupSlot, SetupSlots, Small1553, Large1553
  <2>3. StopSlot(p) = Entry("m1553", p, 0)
    BY <1>1, <1>5 DEF StopSlot, IsPcm, Small1553, Large1553
  <2>4. QED
    BY <2>2, <2>3
<1>6. CASE IsPcm(p.board) /\ p.slot[2] <= Four
  <2>1. Before(bs, p, {bs[p.board]}) = 0
    BY <1>1, <1>2, <1>6 DEF FirstOfKind, IsPcm
  <2>2. SetupSlot(p) = Entry("pcm", p, 0)
    BY <1>1, <1>3, <1>6, <2>1 DEF SetupSlot, SetupSlots, IsPcm, Small1553, Large1553
  <2>3. StopSlot(p) = Entry("pcm", p, 0)
    BY <1>1, <1>6 DEF StopSlot, IsPcm, Small1553, Large1553
  <2>4. QED
    BY <2>2, <2>3
<1>7. QED
  BY <1>4, <1>5, <1>6 DEF StopReaches

\* Between setups a channel that is stopped by the next one runs only when it is on;
\* from the stop to the end of a setup it does not run at all.
RunsWhenOn ==
  \A p \in Ports : StopReaches(p) /\ hw[p].run => step = "ready" /\ On(SetupSlot(p))

\* Stopping finds every channel that runs, because it is on.
LEMMA StopsRunning ==
  ASSUME TypeOK, RunsWhenOn, SetupStops
  PROVE  RunsWhenOn'
<1>1. UNCHANGED boards /\ StopRecorder
  BY DEF SetupStops
<1>2. Ports' = Ports /\ \A p : StopReaches(p)' = StopReaches(p)
  BY <1>1 DEF Ports, StopReaches, FirstOfKind, IsPcm, Is1553
<1>3. ASSUME NEW p \in Ports, StopReaches(p), hw'[p].run
      PROVE  FALSE
  <2>1. hw[p] \in [id : Nat, run : BOOLEAN, bcast : BOOLEAN]
    BY DEF TypeOK
  <2>2. hw'[p] = hw[p] /\ ~On(StopSlot(p))
    BY <1>1, <1>3, <2>1 DEF StopRecorder
  <2>3. On(SetupSlot(p))
    BY <1>3, <2>2 DEF RunsWhenOn
  <2>4. QED
    BY <1>3, <2>2, <2>3, StopFindsSlot DEF TypeOK
<1>4. QED
  BY <1>2, <1>3 DEF RunsWhenOn

\* Setting up starts the channels that are on and no other.
LEMMA StartsWhatIsOn ==
  ASSUME TypeOK, RunsWhenOn, SetupChannels
  PROVE  /\ \A p \in Ports : StopReaches(p) /\ hw'[p].run => On(SetupSlot(p))
         /\ RunsWhenOn'
<1>1. UNCHANGED <<boards, config>> /\ SetupHardware /\ step = "parsed" /\ step' = "ready"
  BY DEF SetupChannels
<1>2. /\ Ports' = Ports /\ \A p : StopReaches(p)' = StopReaches(p)
      /\ \A p : On(SetupSlot(p))' = On(SetupSlot(p))
  BY <1>1 DEF Ports, StopReaches, FirstOfKind, IsPcm, Is1553, On, SetupSlot
<1>3. ASSUME NEW p \in Ports, StopReaches(p), hw'[p].run, ~On(SetupSlot(p))
      PROVE  FALSE
  <2>1. ~hw[p].run
    BY <1>1, <1>3 DEF RunsWhenOn
  <2>2. \/ hw'[p] = hw[p]
        \/ hw'[p] = [id |-> config[SetupSlot(p)].id, run |-> FALSE, bcast |-> FALSE]
    BY <1>1, <1>3 DEF SetupHardware
  <2>3. QED
    BY <1>3, <2>1, <2>2
<1>4. QED
  BY <1>1, <1>2, <1>3 DEF RunsWhenOn

\* Whatever is published, the channels run as before.
LEMMA PublishingKeepsRun ==
  ASSUME TypeOK, Publishing, NEW p \in Ports
  PROVE  hw'[p].run = hw[p].run
<1>1. StopOld \in [Ports -> [id : Nat, run : BOOLEAN, bcast : BOOLEAN]]
  BY BroadcastTypes DEF StopOld, TypeOK
<1>2. hw \in [Ports -> [id : Nat, run : BOOLEAN, bcast : BOOLEAN]]
  BY DEF TypeOK
<1>3. StopOld[p].run = hw[p].run
  BY <1>2, BroadcastKeeps, Zenon DEF StopOld
<1>4. CASE PublishStart
  <2>1. hw' = StopOld \/ hw' = Broadcast(StopOld, publish', TRUE)
    BY <1>4 DEF PublishStart
  <2>2. Broadcast(StopOld, publish', TRUE)[p].run = StopOld[p].run
    BY <1>1, BroadcastKeeps
  <2>3. QED
    BY <1>3, <2>1, <2>2
<1>5. CASE PublishStop
  <2>1. PICK request \in Requests : hw' = Broadcast(hw, Typed(request), FALSE)
    BY <1>5 DEF PublishStop
  <2>2. Broadcast(hw, Typed(request), FALSE)[p].run = hw[p].run
    BY <1>2, BroadcastKeeps, Zenon
  <2>3. QED
    BY <2>1, <2>2
<1>6. CASE PublishStopAll
  BY <1>3, <1>6 DEF PublishStopAll
<1>7. QED
  BY <1>4, <1>5, <1>6 DEF Publishing

LEMMA OthersKeepRun ==
  ASSUME TypeOK, RunsWhenOn,
         \/ ProcessSetup \/ SetupFails \/ Publishing
         \/ EventMessage \/ ProcessPauseResume \/ CheckStatus \/ UNCHANGED vars
  PROVE  RunsWhenOn'
<1>1. boards' = boards
  BY DEF ProcessSetup, SetupFails, Publishing, PublishStart, PublishStop, PublishStopAll,
         EventMessage, ProcessPauseResume, CheckStatus, vars
<1>2. Ports' = Ports /\ \A p : StopReaches(p)' = StopReaches(p)
  BY <1>1 DEF Ports, StopReaches, FirstOfKind, IsPcm, Is1553
<1>3. CASE ProcessSetup \/ SetupFails
  <2>1. step = "stopped" /\ hw' = hw
    BY <1>3 DEF ProcessSetup, SetupFails
  <2>2. QED
    BY <1>2, <2>1 DEF RunsWhenOn
<1>4. CASE Publishing
  <2>1. UNCHANGED <<config, step>>
    BY <1>4 DEF Publishing, PublishStart, PublishStop, PublishStopAll
  <2>2. \A p : On(SetupSlot(p))' = On(SetupSlot(p))
    BY <1>1, <2>1 DEF On, SetupSlot
  <2>3. QED
    BY <1>2, <1>4, <2>1, <2>2, PublishingKeepsRun DEF RunsWhenOn
<1>5. CASE EventMessage \/ ProcessPauseResume \/ CheckStatus \/ UNCHANGED vars
  <2>1. UNCHANGED <<config, step, hw>>
    BY <1>5 DEF EventMessage, ProcessPauseResume, CheckStatus, vars
  <2>2. \A p : On(SetupSlot(p))' = On(SetupSlot(p))
    BY <1>1, <2>1 DEF On, SetupSlot
  <2>3. QED
    BY <1>2, <2>1, <2>2 DEF RunsWhenOn
<1>6. QED
  BY <1>3, <1>4, <1>5

\* After any setup that is made, the 1553 and PCM channels of the first board of their
\* kind that it does not name have stopped, whatever setups were made or failed before
\* and whatever was published meanwhile (DroppedStops of Channels).
THEOREM SetupStopsWhatItDrops == Spec => DroppedStops
<1>1. Init => TypeOK /\ RunsWhenOn
  <2>1. ASSUME Init, NEW p \in Ports, hw[p].run
        PROVE  On(SetupSlot(p))
    <3>1. Ports = PortsOf(boards)
      BY <2>1 DEF Init, Ports, PortSets
    <3>2. QED
      BY <2>1, <3>1 DEF Init
  <2>2. QED
    BY <2>1, ChannelsInit DEF RunsWhenOn, Init
<1>2. TypeOK /\ RunsWhenOn /\ [Next]_vars => RunsWhenOn'
  BY StopsRunning, StartsWhatIsOn, OthersKeepRun, Zenon DEF Next, Setup
<1>3. TypeOK /\ RunsWhenOn /\ SetupChannels =>
        \A p \in Ports : StopReaches(p) /\ hw'[p].run => On(SetupSlot(p))
  BY StartsWhatIsOn
<1>4. QED
  <2>1. Spec => [](TypeOK /\ RunsWhenOn)
    BY <1>1, <1>2, ChannelsTypesStep, PTL DEF Spec
  <2>2. TypeOK /\ RunsWhenOn /\ [Next]_vars =>
          [SetupChannels => \A p \in Ports : StopReaches(p) /\ hw'[p].run => On(SetupSlot(p))]_vars
    BY <1>3
  <2>3. QED
    BY <2>1, <2>2, PTL DEF Spec, DroppedStops

=============================================================================
