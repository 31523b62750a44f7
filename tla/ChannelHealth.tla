--------------------------- MODULE ChannelHealth ---------------------------
(***************************************************************************)
(* The health words of the channels and the lamps of the panel.  The       *)
(* health thread makes a pass over the boards five times a second, notes   *)
(* in words and counters what it reads, and sets the lamps at the end;     *)
(* meanwhile the console may make a setup, which forgets the words, writes *)
(* another configuration and prepares the words of its channels.           *)
(***************************************************************************)
EXTENDS Integers, FiniteSets

CONSTANTS
  HwStates,      \* what the registers of a channel may show: slot -> set
  SilentPasses,  \* M1553_HealthTimes at which a silent channel is reported (4)
  SyncLoopMax,   \* passes without time sync before another training (50)
  Critical,      \* M23_CriticalMasks, of every feature
  Sites          \* recorders: the size of their 1553 boards, and the setups made:
                 \* slot -> [id, on, included, watch, source]; source is that of the
                 \* time, or the code of a PCM channel: "nrz", "sync" (with the bit
                 \* synchronizer), "uart", "pulse"

Kinds == {"m1553", "pcm", "video", "time"}
UartBits == {"UART_FRAME", "UART_PARITY", "UART_DROP_PACKET", "UART_NO_PACKET"}
Bits == {"ENABLED", "CONFIG_FAIL", "NO_SIGNAL", "WATCH_WORD", "NO_CLOCK", "MAJOR_LOCK",
         "MINOR_LOCK", "NO_PACKETS", "NO_CARRIER", "SYNC_ERROR", "FLYWHEEL"} \union UartBits
AllSlots == DOMAIN HwStates
Time == <<"time", 0>>

ASSUME HealthAssumption ==
  /\ AllSlots \subseteq Kinds \X Nat
  /\ \A s \in AllSlots : HwStates[s] # {}
  /\ Time \in AllSlots => HwStates[Time] \subseteq {"none", "carrier", "sync"}
  /\ \A x \in Sites : /\ x.large \in BOOLEAN
                     /\ \A c, d \in x.setups : DOMAIN c \subseteq AllSlots /\ DOMAIN c = DOMAIN d
  /\ SilentPasses \in Nat /\ SyncLoopMax \in Nat
  /\ Critical \subseteq Bits

VARIABLES
  config,   \* Config
  types,    \* HealthArrayTypes: what kind of channel an id is
  word,     \* HealthStatusArr
  times,    \* M1553_HealthTimes
  hw,       \* the status registers of the boards, and of the time code
  ok,       \* M1553OK, PCMOK, VideosOK of the pass, and the channels counted
  pass,     \* where the pass of the health thread is
  loops,    \* SyncLoops
  train,    \* the last pass trained the time code
  lamps,    \* the lamps
  step,     \* where a setup is
  site      \* the recorder, one of Sites

thread == <<ok, pass, loops, train, lamps>>
healthVars == <<config, types, word, times, hw, step, site, thread>>

Slots == DOMAIN config
SlotsOf(kind) == {s \in Slots : s[1] = kind}
Id(s) == config[s].id
On(s) == config[s].on
Setups == UNION {x.setups : x \in Sites}
Ids == UNION {{c[s].id : s \in DOMAIN c} : c \in Setups}
Enabled(kind) == {s \in SlotsOf(kind) : On(s)}
Has(s, bit) == bit \in word[Id(s)]

\* HealthStatusArr with some bits of a channel set and others cleared.
Noted(w, s, set, cleared) == [w EXCEPT ![Id(s)] = (@ \ cleared) \union set]

\* The words after a step of the pass: of every channel s of a kind that is on,
\* bits(s) are cleared and bad(s) set.
Note(kind, bad(_), bits(_)) ==
  [i \in Ids |->
     IF \E s \in Enabled(kind) : Id(s) = i
     THEN LET s == CHOOSE t \in Enabled(kind) : Id(t) = i
          IN  (word[i] \ bits(s)) \union bad(s)
     ELSE word[i]]

\* The kinds of the ids, as a setup file names them.
TypesOf(c) ==
  [i \in Ids |-> IF \E s \in DOMAIN c : c[s].id = i THEN (CHOOSE s \in DOMAIN c : c[s].id = i)[1]
                ELSE "none"]

\* The ids of a configuration ascend with the entries of the array of their kind,
\* as InitializeChannelHealth takes for granted.
Ascending(c) ==
  \A s \in DOMAIN c :
    LET kind == TypesOf(c)[c[s].id]
    IN  s = <<kind, Cardinality({j \in Ids : j < c[s].id /\ TypesOf(c)[j] = kind})>>
IdsAscend == \A c \in Setups : Ascending(c)

NoPass == [m1553 |-> TRUE, live |-> 0, pcm |-> TRUE, video |-> "none"]

\* A setup has begun, and forgotten what was known.
HealthInit ==
  /\ site \in Sites
  /\ config \in site.setups
  /\ types = [i \in Ids |-> "none"]
  /\ word = [i \in Ids |-> {}]
  /\ times = [s \in SlotsOf("m1553") |-> 0]
  /\ hw = [s \in Slots |-> CHOOSE x \in HwStates[s] : TRUE]
  /\ ok = NoPass
  /\ pass = "m1553"
  /\ loops = 0 /\ train = FALSE
  /\ lamps = [k \in Kinds \union {"fault"} |-> FALSE]
  /\ step = "cleared"

-----------------------------------------------------------------------------
(* A pass of the health thread, M23_CheckStatus.                           *)

Advance(from, to) == pass = from /\ pass' = to /\ UNCHANGED <<config, types, hw, step, site>>

\* A 1553 channel: the words received since the last pass, and its watch word;
\* hw is "data", "silent", "wrong" (data, watch word violated) or "dead" (both).
Silent(s) == hw[s] \in {"silent", "dead"}
WatchBad(s) == config[s].watch /\ hw[s] \in {"wrong", "dead"}
Reported(s) == Silent(s) /\ times[s] = SilentPasses

\* (Mutants: the count stops short; it does not stop.)
CountedShort(s) == IF ~Silent(s) THEN 0 ELSE IF times[s] + 1 < SilentPasses THEN times[s] + 1 ELSE times[s]
CountedOver(s) == IF ~Silent(s) THEN 0 ELSE times[s] + 1

\* The count of silent passes, which stops when the channel is reported.
Counted(s) == IF ~Silent(s) THEN 0 ELSE IF Reported(s) THEN times[s] ELSE times[s] + 1

\* What keeps the lamp off: of an included channel a bad watch word, or silence;
\* on small boards only where there is no watch word to look for.
Hides(s) ==
  /\ config[s].included
  /\ WatchBad(s) \/ (Reported(s) /\ (site.large \/ ~config[s].watch))

\* A channel that counts as a good one.
Live(s) == ~Silent(s) \/ (~WatchBad(s) /\ (site.large => config[s].watch))

CheckM1553 ==
  /\ Advance("m1553", "pcm")
  /\ word' = Note("m1553",
       LAMBDA s : (IF WatchBad(s) THEN {"WATCH_WORD"} ELSE {})
                  \union (IF Reported(s) \/ (Silent(s) /\ Has(s, "NO_SIGNAL")) THEN {"NO_SIGNAL"} ELSE {}),
       LAMBDA s : {"WATCH_WORD", "NO_SIGNAL"})
  /\ times' = [s \in DOMAIN times |-> IF On(s) THEN Counted(s) ELSE times[s]]
  /\ ok' = [NoPass EXCEPT !.m1553 = /\ ~\E s \in Enabled("m1553") : Hides(s)
                                    /\ \E s \in Enabled("m1553") : Live(s)]
  /\ UNCHANGED <<loops, train, lamps>>

\* A PCM channel of frames; hw is what is lost of "clock" (that of the bit
\* synchronizer, if there is one), "major", "minor" and "watch".  Without a clock
\* it is not asked for its frames, except that a bit synchronizer which is not
\* locked is not reported while both frames are.
FrameBits(s) ==
  IF "clock" \notin hw[s]
  THEN (IF "major" \in hw[s] THEN {"MAJOR_LOCK"} ELSE {})
       \union (IF "minor" \in hw[s] THEN {"MINOR_LOCK"} ELSE {})
  ELSE IF config[s].source = "sync" /\ {"major", "minor"} \intersect hw[s] = {} THEN {} ELSE {"NO_CLOCK"}

\* A UART channel has bits of its own, which are in hw; of pulses nothing is asked.
PcmBits(s) ==
  CASE config[s].source \in {"nrz", "sync"} -> FrameBits(s)
    [] config[s].source = "uart" -> hw[s] \intersect UartBits
    [] OTHER -> {}
PcmAsked(s) ==
  CASE config[s].source \in {"nrz", "sync"} -> {"NO_CLOCK", "MAJOR_LOCK", "MINOR_LOCK"}
    [] config[s].source = "uart" -> UartBits
    [] OTHER -> {}

\* What keeps the lamp off: a channel of frames without its clock, even one that
\* is not included, or an included one without its frames or its watch word.
PcmHides(s) ==
  /\ config[s].source \in {"nrz", "sync"}
  /\ \/ "clock" \in hw[s]
     \/ config[s].included /\ {"major", "minor"} \intersect hw[s] # {}
     \/ config[s].included /\ config[s].watch /\ "watch" \in hw[s]

CheckPcm ==
  /\ Advance("pcm", "video")
  /\ word' = Note("pcm", PcmBits, PcmAsked)
  /\ ok' = [ok EXCEPT !.pcm = ~\E s \in Enabled("pcm") : PcmHides(s)]
  /\ UNCHANGED <<times, loops, train, lamps>>

\* A video channel: its signal and its packets; hw names what is missing.
VideoBits(s) ==
  CASE hw[s] = "nosignal" -> {"NO_SIGNAL"}
    [] hw[s] = "nopackets" -> {"NO_PACKETS"}
    [] hw[s] = "dead" -> {"NO_SIGNAL", "NO_PACKETS"}
    [] OTHER -> {}

\* VideosOK after a channel: any signal makes it good, whatever the channels
\* before were; missing signal or packets of an included channel make it bad.
VideoAfter(seen, s) ==
  CASE ~On(s) -> seen
    [] On(s) /\ config[s].included /\ VideoBits(s) # {} -> "bad"
    [] On(s) /\ hw[s] \in {"good", "nopackets"} /\ ~(config[s].included /\ VideoBits(s) # {}) -> "good"
    [] OTHER -> seen
VideosOK ==
  LET n == Cardinality(SlotsOf("video"))
      f[k \in 0..n] == IF k = 0 THEN "none" ELSE VideoAfter(f[k - 1], <<"video", k - 1>>)
  IN  f[n]

\* Without a video board the lamp is left alone.
CheckVideo ==
  /\ Advance("video", "lamps")
  /\ word' = Note("video", VideoBits, LAMBDA s : {"NO_SIGNAL", "NO_PACKETS"})
  /\ lamps' = IF SlotsOf("video") = {} THEN lamps ELSE [lamps EXCEPT !["video"] = (VideosOK = "good")]
  /\ UNCHANGED <<times, ok, loops, train>>

\* No channel of the kind failed its setup.
Configured(kind) == ~\E s \in SlotsOf(kind) : Has(s, "CONFIG_FAIL")

SetLamps ==
  /\ Advance("lamps", "time")
  /\ lamps' = [lamps EXCEPT !["m1553"] = ok.m1553 /\ Configured("m1553"),
                          !["pcm"] = ok.pcm /\ Configured("pcm") /\ Enabled("pcm") # {}]
  /\ UNCHANGED <<word, times, ok, loops, train>>

\* With a carrier but no sync, a training is tried again after a number of passes.
Retrain(n) == IF n > SyncLoopMax THEN [loops |-> 0, train |-> TRUE]
              ELSE [loops |-> n + 1, train |-> FALSE]

\* IRIG time; hw is "none", "carrier" or "sync".  A carrier that comes back is
\* trained at once.
CheckIrig ==
  LET found == hw[Time] # "none"
      back == found /\ Has(Time, "NO_CARRIER")
      carrier == CASE ~found /\ ~Has(Time, "NO_CARRIER") -> Noted(word, Time, {"NO_CARRIER", "FLYWHEEL"}, {})
                   [] back -> Noted(word, Time, {}, {"NO_CARRIER", "FLYWHEEL"})
                   [] OTHER -> word
      again == CASE hw[Time] = "none" -> [loops |-> loops, train |-> FALSE]
                 [] hw[Time] = "carrier" -> Retrain(loops)
                 [] hw[Time] = "sync" -> [loops |-> 0, train |-> FALSE]
  IN  /\ config[Time].source = "irig"
      /\ word' = IF hw[Time] = "sync" THEN Noted(carrier, Time, {}, {"SYNC_ERROR"})
                 ELSE Noted(carrier, Time, {"SYNC_ERROR"}, {})
      /\ lamps' = [lamps EXCEPT !["time"] = (hw[Time] = "sync")]
      /\ loops' = again.loops
      /\ train' = (back \/ again.train)

\* GPS time: "carrier" is in sync but not jammed; the lamp is the GPS thread's.
CheckGps ==
  /\ config[Time].source = "gps"
  /\ word' = IF hw[Time] = "none"
             THEN Noted(word, Time, {"SYNC_ERROR", "NO_CARRIER", "FLYWHEEL"}, {})
             ELSE Noted(word, Time, IF hw[Time] = "sync" THEN {} ELSE {"FLYWHEEL"},
                        {"SYNC_ERROR", "NO_CARRIER", "FLYWHEEL"})
  /\ UNCHANGED <<lamps, loops, train>>

\* Time of the cartridge or of the 1553 bus, "sync" when jammed.  The one sets
\* FLYWHEEL until then, the other leaves what the setup noted.
CheckJammed ==
  /\ config[Time].source \in {"rmm", "bus"}
  /\ word' = IF hw[Time] = "sync"
             THEN Noted(word, Time, {}, {"SYNC_ERROR", "NO_CARRIER", "FLYWHEEL"})
             ELSE IF config[Time].source = "rmm"
             THEN Noted(word, Time, {"FLYWHEEL"}, {"SYNC_ERROR", "NO_CARRIER"})
             ELSE Noted(word, Time, {}, {"NO_CARRIER"})
  /\ lamps' = IF hw[Time] = "sync" THEN [lamps EXCEPT !["time"] = TRUE] ELSE lamps
  /\ UNCHANGED <<loops, train>>

\* No source but the clock of the recorder itself.
CheckInternal ==
  /\ config[Time].source = "internal"
  /\ word' = Noted(word, Time, {"FLYWHEEL"}, {"SYNC_ERROR", "NO_CARRIER"})
  /\ lamps' = [lamps EXCEPT !["time"] = TRUE]
  /\ UNCHANGED <<loops, train>>

CheckTime ==
  /\ Advance("time", "fault")
  /\ IF Time \in Slots THEN CheckIrig \/ CheckGps \/ CheckJammed \/ CheckInternal
     ELSE UNCHANGED <<word, lamps, loops, train>>
  /\ UNCHANGED <<times, ok>>

\* ReturnNumberOfCritical: of features that are enabled.
Criticals == {i \in Ids : "ENABLED" \in word[i] /\ word[i] \intersect Critical # {}}

Fault == Criticals # {}

SetFaultLamp ==
  /\ Advance("fault", "m1553")
  /\ lamps' = [lamps EXCEPT !["fault"] = Fault]
  /\ UNCHANGED <<word, times, ok, loops, train>>

CheckStatus == CheckM1553 \/ CheckPcm \/ CheckVideo \/ SetLamps \/ CheckTime \/ SetFaultLamp

-----------------------------------------------------------------------------
(* A setup, made by the console.                                           *)

\* M23_Setup: M23_InitializeHealth.
InitializeHealth ==
  /\ step = "ready"
  /\ word' = [i \in Ids |-> {}]
  /\ types' = [i \in Ids |-> "none"]
  /\ times' = [s \in DOMAIN times |-> 0]
  /\ step' = "cleared"
  /\ UNCHANGED <<config, hw, site, thread>>

\* ProcessSetup: the configuration and the types of its ids.
ProcessSetup ==
  /\ step = "cleared"
  /\ config' \in site.setups
  /\ types' = TypesOf(config')
  /\ step' = "parsed"
  /\ UNCHANGED <<word, times, hw, site, thread>>

\* It may fail when the configuration is written, as by an id used twice.
SetupFails ==
  /\ step = "cleared"
  /\ config' \in site.setups
  /\ types' = [i \in Ids |-> "none"]
  /\ step' = "failed"
  /\ UNCHANGED <<word, times, hw, site, thread>>

\* (Mutant: the words of before are kept.)
PreparedOver(i, on) == IF on THEN word[i] \union {"ENABLED", "CONFIG_FAIL"} ELSE word[i]
Prepared(i, on) == IF on THEN {"ENABLED", "CONFIG_FAIL"} ELSE {}

\* The words by ascending id: the n-th id of a kind gets what the n-th entry of
\* the array of the kind says.
InitializeChannelHealth ==
  /\ step = "parsed"
  /\ word' = [i \in Ids |->
       LET nth == <<types[i], Cardinality({j \in Ids : j < i /\ types[j] = types[i]})>>
       IN  Prepared(i, nth \in Slots /\ On(nth))]
  /\ step' = "prepared"
  /\ UNCHANGED <<config, types, times, hw, site, thread>>

\* (Mutant: PCM channels are forgotten.)
ConfirmedNoPcm(s) == s[1] # "pcm" /\ (On(s) \/ s[1] = "m1553")

\* The channels whose CONFIG_FAIL SetupHardware takes back.
Confirmed(s) == On(s) \/ s[1] = "m1553"

\* SetupHardware: the channels are set up one after the other, 1553 channels
\* also those that are off; the time code gets the bits of its source.
SetupHardware ==
  /\ step = "prepared"
  /\ word' = [i \in Ids |->
       LET mine == {s \in Slots : Id(s) = i}
           source == IF Time \in mine /\ On(Time)
                     THEN CASE config[Time].source = "irig" -> {"NO_CARRIER"}
                            [] config[Time].source = "bus" -> {"SYNC_ERROR"}
                            [] OTHER -> {}
                     ELSE {}
       IN  (word[i] \ (IF \E s \in mine : Confirmed(s) THEN {"CONFIG_FAIL"} ELSE {})) \union source]
  /\ step' = "ready"
  /\ UNCHANGED <<config, types, times, hw, site, thread>>

\* After a failed setup the next one may be tried.
SetupAgain == step = "failed" /\ step' = "ready" /\ UNCHANGED <<config, types, word, times, hw, site, thread>>

Setup == ProcessSetup \/ SetupFails \/ InitializeChannelHealth \/ SetupHardware

-----------------------------------------------------------------------------
\* What is on the lines changes.
Line ==
  \E s \in Slots : \E x \in HwStates[s] :
    /\ hw' = [hw EXCEPT ![s] = x]
    /\ UNCHANGED <<config, types, word, times, step, site, thread>>

HealthNext == CheckStatus \/ InitializeHealth \/ Setup \/ SetupAgain \/ Line

\* The health thread never stops, nor does a setup once begun.
Fairness == WF_healthVars(CheckStatus) /\ WF_healthVars(Setup)

HealthSpec == HealthInit /\ [][HealthNext]_healthVars /\ Fairness

-----------------------------------------------------------------------------
\* The state is well typed; the count of silent passes stops at its limit.
HealthTypeOK ==
  /\ site \in Sites /\ config \in site.setups
  /\ types \in [Ids -> Kinds \union {"none"}]
  /\ word \in [Ids -> SUBSET Bits]
  /\ times \in [SlotsOf("m1553") -> 0..SilentPasses]
  /\ DOMAIN hw = Slots /\ \A s \in Slots : hw[s] \in HwStates[s]
  /\ pass \in {"m1553", "pcm", "video", "lamps", "time", "fault"}
  /\ loops \in 0..(SyncLoopMax + 1) /\ train \in BOOLEAN
  /\ lamps \in [Kinds \union {"fault"} -> BOOLEAN]
  /\ step \in {"ready", "cleared", "parsed", "prepared", "failed"}

\* After a setup that succeeded only channels of the configuration that are on,
\* and the time code, have anything in their words, though the health thread wrote
\* words of the configuration before while the setup went on.
OnlyConfigured ==
  step = "ready" /\ types = TypesOf(config) =>
    \A i \in Ids : word[i] # {} => \E s \in Slots : Id(s) = i /\ (On(s) \/ s = Time)

\* A silent 1553 channel that is included and has no watch word puts the lamp
\* out, however the health thread and setups interleave.
SilenceShows ==
  \A s \in AllSlots :
    LET bad == /\ s \in SlotsOf("m1553") /\ On(s)
               /\ config[s].included /\ Silent(s) /\ ~config[s].watch
    IN  bad ~> ~bad \/ ~lamps["m1553"] \/ step # "ready"

\* When every channel of a kind is good the lamp comes on, after a setup too:
\* no CONFIG_FAIL is left behind, no count or word of before holds it.
GoodShows ==
  \A kind \in {"m1553", "pcm"} :
    LET good == /\ Enabled(kind) # {} /\ step = "ready" /\ types = TypesOf(config)
                /\ \A s \in Enabled(kind) : IF kind = "pcm" THEN hw[s] = {} ELSE hw[s] = "data"
    IN  good ~> ~good \/ lamps[kind]
=============================================================================
