---------------------------- MODULE Panels_proofs ----------------------------
(***************************************************************************)
(* Proofs about Panels, for any set of panels, however many switches are   *)
(* moved, and however many of them between two scans; and about the health *)
(* words and the lamps (ChannelHealth), for any channels and setups.       *)
(***************************************************************************)
EXTENDS Panels, ChannelHealth, TLAPS

USE DEF vars, recorder, lamp, hand

-----------------------------------------------------------------------------
(* The type invariant.                                                     *)

\* TypeOK with what it needs of the switches of the last scan.
Words ==
  /\ panel \in Panels
  /\ switches \subseteq Switches(panel) /\ previous \subseteq Switches(panel)
  /\ seen \subseteq Switches(panel)
  /\ doing \in {"scan", "confirm", "own", "erase", "erased"}
  /\ state \in {"IDLE", "ERROR", "RECORD", "ERASE", "BIT", "DECLASSIFY", "FAIL"}
  /\ from \in {"nobody", "switch", "port", "auto"}

\* The hardware records in the state RECORD, and in no other.
Writes == writing \in BOOLEAN /\ (writing <=> state = "RECORD")

\* A scan that waits for the record switch has seen that one put on.
ConfirmsOne == doing = "confirm" => SwitchedOn(seen) = {"record"}

Types == Words /\ Writes /\ ConfirmsOne

LEMMA TypesGive == Types => TypeOK
<1> SUFFICES ASSUME Types
             PROVE  TypeOK
  OBVIOUS
<1>1. writing = (state = "RECORD")
  BY Zenon DEF Types, Writes
<1>2. QED
  BY <1>1, Zenon DEF Types, Words, ConfirmsOne, TypeOK

\* A recording begun, refused or failed keeps the two together.
LEMMA RecordTypes ==
  ASSUME Words, Writes, NEW able \in BOOLEAN, Record(able)
  PROVE  /\ state' \in {"IDLE", "ERROR", "RECORD", "ERASE", "BIT", "DECLASSIFY", "FAIL"}
         /\ Writes'
<1>1. CASE Idle /\ able
  <2>1. state' = "RECORD"
    BY <1>1 DEF Record
  <2>2. writing' = TRUE
    BY <1>1, Zenon DEF Record
  <2>3. QED
    BY <2>1, <2>2 DEF Writes
<1>2. CASE Idle /\ ~able
  <2>1. state' \in {"ERROR", state} /\ state \in {"IDLE", "ERROR"}
    BY <1>2 DEF Record, Idle
  <2>2. writing = FALSE
    BY <2>1 DEF Writes
  <2>3. writing' = FALSE
    BY <1>2, <2>2, Zenon DEF Record
  <2>4. QED
    BY <2>1, <2>3 DEF Writes
<1>3. CASE ~Idle
  BY <1>3 DEF Record, Words, Writes
<1>4. QED
  BY <1>1, <1>2, <1>3

\* The steps of a scan.
LEMMA ScanTypes ==
  ASSUME Types, Monitor
  PROVE  Types'
<1> USE DEF Types, Words, ConfirmsOne, Next1
<1>1. CASE ScanRecord
  BY <1>1 DEF ScanRecord, RecordAsked, SwitchedOn, Writes
<1>2. CASE Confirm
  <2>1. UNCHANGED <<panel, seen, from, switches>>
    BY <1>2 DEF Confirm
  <2>2. /\ doing' \in {"own", "erase", "scan"}
        /\ previous' \in {previous, seen}
        /\ state' \in {"IDLE", "ERROR", "RECORD", "ERASE", "BIT", "DECLASSIFY", "FAIL"}
        /\ Writes'
    <3>1. CASE "record" \in switches \/ panel = "lockheed"
      <4>1. PICK able \in BOOLEAN :
              /\ Record(able)
              /\ doing' = IF able THEN "own" ELSE IF EraseAsked(seen) THEN "erase" ELSE "scan"
              /\ previous' = IF ~able /\ EraseAsked(seen) THEN previous ELSE seen
        BY <1>2, <3>1, Zenon DEF Confirm, Recorded
      <4>2. QED
        BY <4>1, RecordTypes
    <3>2. CASE ~("record" \in switches \/ panel = "lockheed")
      <4>1. /\ doing' = IF EraseAsked(seen) THEN "erase" ELSE "scan"
            /\ previous' = IF EraseAsked(seen) THEN previous ELSE seen
            /\ state' = state /\ writing' = writing
        BY <1>2, <3>2, Zenon DEF Confirm, Recorded
      <4>2. QED
        BY <4>1 DEF Writes
    <3>3. QED
      BY <3>1, <3>2
  <2>3. QED
    BY <2>1, <2>2
<1>3. CASE Own
  BY <1>3 DEF Own, Writes
<1>4. CASE ScanErase \/ EraseAfterRecord
  <2>1. /\ UNCHANGED <<panel, writing, from, switches>>
        /\ doing' \in {"erased", "scan"} /\ seen' \in {switches, seen}
        /\ previous' \in {previous, switches, seen}
        /\ state' = state \/ (state \in {"IDLE", "ERROR"} /\ state' = "ERASE")
    BY <1>4 DEF ScanErase, EraseAfterRecord, ErasesNow, Idle
  <2>2. QED
    BY <2>1 DEF Writes
<1>5. CASE Erased
  BY <1>5 DEF Erased, Writes
<1>6. CASE ScanDeclass
  BY <1>6 DEF ScanDeclass, Idle, Writes
<1>7. CASE ScanBit
  BY <1>7 DEF ScanBit, Idle, Writes
<1>8. CASE ScanStop
  BY <1>8 DEF ScanStop, Stop, Writes
<1>9. CASE ScanDisowned \/ ScanRest
  BY <1>9 DEF ScanDisowned, ScanRest, Writes
<1>10. QED
  BY <1>1, <1>2, <1>3, <1>4, <1>5, <1>6, <1>7, <1>8, <1>9 DEF Monitor

\* The steps of the others.
LEMMA OthersTypes ==
  ASSUME Types, \/ CmdRecord \/ CmdStop \/ CmdStatus \/ StopOnFault \/ BitEnds \/ DeclassEnds
                \/ Health \/ FaultChanges \/ (\E s \in Switches(panel) : Move(s)) \/ UNCHANGED vars
  PROVE  Types'
<1> USE DEF Types, Words, ConfirmsOne, SwitchedOn
<1>1. CASE CmdRecord
  <2>1. UNCHANGED <<panel, switches, previous, seen, doing>> /\ from' = "port" /\ Record(TRUE)
    BY <1>1 DEF CmdRecord
  <2>2. QED
    BY <2>1, RecordTypes
<1>2. CASE CmdStop \/ StopOnFault
  BY <1>2 DEF CmdStop, StopOnFault, Stop, Writes
<1>3. CASE CmdStatus \/ BitEnds \/ DeclassEnds
  BY <1>3 DEF CmdStatus, BitEnds, DeclassEnds, Writes
<1>4. CASE Health
  <2>1. UNCHANGED <<panel, switches, previous, seen, doing, state, writing, from>>
    <3>1. CASE HealthCounts
      BY <3>1, Zenon DEF HealthCounts
    <3>2. CASE HealthSets \/ HealthClears
      BY <3>2 DEF HealthSets, HealthClears
    <3>3. QED
      BY <1>4, <3>1, <3>2 DEF Health
  <2>2. QED
    BY <2>1 DEF Writes
<1>5. CASE FaultChanges \/ UNCHANGED vars
  BY <1>5 DEF FaultChanges, Writes
<1>6. ASSUME NEW s \in Switches(panel), Move(s)
      PROVE  Types'
  <2>1. switches' \subseteq Switches(panel)
    BY <1>6 DEF Move
  <2>2. QED
    BY <1>6, <2>1 DEF Move, Writes
<1>7. QED
  BY <1>1, <1>2, <1>3, <1>4, <1>5, <1>6

\* The hardware of a panel's recorder writes in the state RECORD and in no other, and
\* the switches stay those of the panel (TypeOK of Panels), for any set of panels.
THEOREM TypeCorrect == Spec => []TypeOK
<1>1. Init => Types
  <2> SUFFICES ASSUME Init
               PROVE  Types
    OBVIOUS
  <2>1. switches \subseteq Switches(panel) /\ previous \subseteq Switches(panel)
    BY DEF Init, Switches, FirstPrevious
  <2>2. writing \in BOOLEAN
    BY Zenon DEF Init
  <2>3. Writes
    BY <2>2 DEF Init, Writes
  <2>4. from \in {"nobody", "switch", "port", "auto"} /\ state \in {"IDLE", "RECORD"}
    BY DEF Init
  <2>5. QED
    BY <2>1, <2>3, <2>4 DEF Init, Types, Words, ConfirmsOne
<1>2. Types /\ [Next]_vars => Types'
  BY ScanTypes, OthersTypes, Zenon DEF Next
<1>3. QED
  BY <1>1, <1>2, TypesGive, PTL DEF Spec

-----------------------------------------------------------------------------
(* The erase switches.                                                     *)

\* A scan that goes on to the erase switches was asked to erase by what it saw.
EraseIsAsked == doing = "erase" => EraseAsked(seen)

\* What the panels but P3 take for an order to erase: both switches, one of them new.
LEMMA AskedByBoth ==
  ASSUME NEW cur, panel # "P3", EraseAsked(cur)
  PROVE  /\ {"enable", "erase"} \subseteq cur
         /\ {"enable", "erase"} \intersect SwitchedOn(cur) # {}
BY DEF EraseAsked, EraseAskedStd, SwitchedOn

\* The record switch confirmed, the scan goes on to an erase only if asked.
LEMMA ConfirmKeeps ==
  ASSUME Confirm
  PROVE  EraseIsAsked' /\ (state' = "ERASE" => state = "ERASE")
<1>1. UNCHANGED <<panel, seen>>
  BY DEF Confirm
<1>2. /\ doing' = "own" \/ doing' = "scan" \/ (doing' = "erase" /\ EraseAsked(seen) /\ previous' = previous)
      /\ state' = "ERASE" => state = "ERASE"
  <2>1. CASE "record" \in switches \/ panel = "lockheed"
    <3>1. PICK able \in BOOLEAN :
            /\ Record(able)
            /\ doing' = IF able THEN "own" ELSE IF EraseAsked(seen) THEN "erase" ELSE "scan"
            /\ previous' = IF ~able /\ EraseAsked(seen) THEN previous ELSE seen
      BY <2>1, Zenon DEF Confirm, Recorded
    <3>2. state' = "ERASE" => state = "ERASE"
      BY <3>1 DEF Record, Idle
    <3>3. QED
      BY <3>1, <3>2
  <2>2. CASE ~("record" \in switches \/ panel = "lockheed")
    <3>1. /\ doing' = IF EraseAsked(seen) THEN "erase" ELSE "scan"
          /\ previous' = IF EraseAsked(seen) THEN previous ELSE seen
          /\ state' = state
      BY <2>2, Zenon DEF Confirm, Recorded
    <3>2. QED
      BY <3>1
  <2>3. QED
    BY <2>1, <2>2
<1>3. EraseIsAsked'
  BY <1>1, <1>2 DEF EraseIsAsked, EraseAsked, EraseAskedStd, EraseAskedP3, SwitchedOn
<1>4. QED
  BY <1>2, <1>3

\* An erase is begun by what the scan has seen.
LEMMA EraseKeeps ==
  ASSUME EraseIsAsked, ScanErase \/ EraseAfterRecord
  PROVE  /\ EraseIsAsked'
         /\ EraseAsked(seen')
<1>1. CASE ScanErase
  <2>1. seen' = switches /\ EraseAsked(switches) /\ doing' \in {"erased", "scan"}
    BY <1>1 DEF ScanErase, ErasesNow
  <2>2. QED
    BY <2>1 DEF EraseIsAsked
<1>2. CASE EraseAfterRecord
  <2>1. seen' = seen /\ doing = "erase" /\ doing' \in {"erased", "scan"}
    BY <1>2 DEF EraseAfterRecord, ErasesNow
  <2>2. QED
    BY <2>1 DEF EraseIsAsked
<1>3. QED
  BY <1>1, <1>2

\* The other steps of a scan.
LEMMA ScanKeeps ==
  ASSUME EraseIsAsked, \/ ScanRecord \/ Own \/ Erased \/ ScanDeclass \/ ScanBit
              \/ ScanStop \/ ScanDisowned \/ ScanRest
  PROVE  EraseIsAsked' /\ (state' = "ERASE" => state = "ERASE")
<1> USE DEF EraseIsAsked, Next1
<1>1. CASE ScanRecord
  BY <1>1 DEF ScanRecord, RecordAsked, SwitchedOn
<1>2. CASE Own
  BY <1>2 DEF Own
<1>3. CASE Erased
  BY <1>3 DEF Erased
<1>4. CASE ScanDeclass
  BY <1>4 DEF ScanDeclass
<1>5. CASE ScanBit
  BY <1>5 DEF ScanBit
<1>6. CASE ScanStop
  BY <1>6 DEF ScanStop, Stop
<1>7. CASE ScanDisowned
  BY <1>7 DEF ScanDisowned
<1>8. CASE ScanRest
  BY <1>8 DEF ScanRest
<1>9. QED
  BY <1>1, <1>2, <1>3, <1>4, <1>5, <1>6, <1>7, <1>8

\* The other threads and the operator leave the scan alone.
LEMMA OthersKeep ==
  ASSUME EraseIsAsked, \/ CmdRecord \/ CmdStop \/ CmdStatus \/ StopOnFault \/ BitEnds \/ DeclassEnds
              \/ Health \/ FaultChanges \/ (\E s \in Switches(panel) : Move(s)) \/ UNCHANGED vars
  PROVE  EraseIsAsked' /\ (state' = "ERASE" => state = "ERASE")
<1>1. UNCHANGED <<panel, previous, seen, doing>> /\ (state' = "ERASE" => state = "ERASE")
  <2>1. CASE CmdRecord
    BY <2>1 DEF CmdRecord, Record, Idle
  <2>2. CASE CmdStop \/ StopOnFault
    BY <2>2 DEF CmdStop, StopOnFault, Stop
  <2>3. CASE CmdStatus \/ BitEnds \/ DeclassEnds
    BY <2>3 DEF CmdStatus, BitEnds, DeclassEnds
  <2>4. CASE Health
    BY <2>4 DEF Health, HealthCounts, HealthSets, HealthClears
  <2>5. CASE FaultChanges \/ (\E s \in Switches(panel) : Move(s)) \/ UNCHANGED vars
    BY <2>5 DEF FaultChanges, Move
  <2>6. QED
    BY <2>1, <2>2, <2>3, <2>4, <2>5
<1>2. QED
  BY <1>1 DEF EraseIsAsked, EraseAsked, EraseAskedStd, EraseAskedP3, SwitchedOn

\* A cartridge is erased by the switches of a panel (but P3) only when the enable and the
\* erase switch are on and one of them was put on since the last scan, however
\* many switches are moved while the thread waits: EraseNeedsSwitches of Panels.
THEOREM EraseByBothSwitches == Spec => EraseNeedsSwitches
<1>1. Init => EraseIsAsked
  BY DEF Init, EraseIsAsked
<1>2. ASSUME EraseIsAsked, [Next]_vars
      PROVE  EraseIsAsked' /\ (panel # "P3" => BySwitches)
  <2>1. CASE Confirm
    BY <2>1, ConfirmKeeps DEF BySwitches
  <2>2. CASE ScanErase \/ EraseAfterRecord
    <3>1. EraseIsAsked' /\ EraseAsked(seen')
      BY <1>2, <2>2, EraseKeeps
    <3>2. QED
      BY <3>1, AskedByBoth DEF BySwitches
  <2>3. CASE \/ ScanRecord \/ Own \/ Erased \/ ScanDeclass \/ ScanBit
             \/ ScanStop \/ ScanDisowned \/ ScanRest
    BY <1>2, <2>3, ScanKeeps DEF BySwitches
  <2>4. CASE \/ CmdRecord \/ CmdStop \/ CmdStatus \/ StopOnFault \/ BitEnds \/ DeclassEnds
             \/ Health \/ FaultChanges \/ (\E s \in Switches(panel) : Move(s)) \/ UNCHANGED vars
    BY <1>2, <2>4, OthersKeep DEF BySwitches
  <2>5. QED
    BY <1>2, <2>1, <2>2, <2>3, <2>4, Zenon DEF Next, Monitor
<1>3. QED
  BY <1>1, <1>2, PTL DEF Spec, EraseNeedsSwitches

-----------------------------------------------------------------------------
(* ChannelHealth.                                                          *)

\* What the health thread notes for a channel is of the channel's bits.
OkType == ok.m1553 \in BOOLEAN /\ ok.pcm \in BOOLEAN

HealthTypes == HealthTypeOK /\ OkType

\* The channels of the configurations of a recorder.
LEMMA SameSlots ==
  ASSUME site \in Sites, NEW c \in site.setups, NEW d \in site.setups
  PROVE  /\ DOMAIN c = DOMAIN d
         /\ DOMAIN c \subseteq AllSlots
         /\ \A s \in DOMAIN c : c[s].id \in Ids
<1>1. DOMAIN c = DOMAIN d /\ DOMAIN c \subseteq AllSlots
  BY HealthAssumption
<1>2. c \in Setups
  BY DEF Setups
<1>3. QED
  BY <1>1, <1>2 DEF Ids

\* The count of silent passes goes no further than the limit at which it is reported.
LEMMA CountStops ==
  ASSUME SilentPasses \in Nat, NEW s, times[s] \in 0..SilentPasses
  PROVE  Counted(s) \in 0..SilentPasses
<1>1. CASE ~Silent(s)
  BY <1>1 DEF Counted
<1>2. CASE Silent(s) /\ times[s] = SilentPasses
  BY <1>2 DEF Counted, Reported
<1>3. CASE Silent(s) /\ times[s] # SilentPasses
  BY <1>3 DEF Counted, Reported
<1>4. QED
  BY <1>1, <1>2, <1>3

LEMMA M1553Types ==
  ASSUME HealthTypes, CheckM1553
  PROVE  HealthTypes'
<1> USE DEF HealthTypes, HealthTypeOK, OkType, CheckM1553, Advance
<1>1. word' \in [Ids -> SUBSET Bits]
  BY DEF Note, Bits
<1>2. times' \in [SlotsOf("m1553") -> 0..SilentPasses]
  <2>1. \A s \in SlotsOf("m1553") : Counted(s) \in 0..SilentPasses
    BY CountStops, HealthAssumption
  <2>2. times' = [s \in SlotsOf("m1553") |->
                    IF On(s) THEN Counted(s) ELSE times[s]]
    OBVIOUS
  <2>3. QED
    BY <2>1, <2>2
<1>3. ok'.m1553 \in BOOLEAN /\ ok'.pcm \in BOOLEAN
  BY DEF NoPass
<1>4. SlotsOf("m1553")' = SlotsOf("m1553") /\ Slots' = Slots
  BY DEF SlotsOf, Slots
<1>5. QED
  BY <1>1, <1>2, <1>3, <1>4

LEMMA PcmTypes ==
  ASSUME HealthTypes, CheckPcm
  PROVE  HealthTypes'
<1> USE DEF HealthTypes, HealthTypeOK, OkType, CheckPcm, Advance
<1>1. word' \in [Ids -> SUBSET Bits]
  BY DEF Note, Bits, UartBits, PcmBits, FrameBits
<1>2. ok'.m1553 \in BOOLEAN /\ ok'.pcm \in BOOLEAN
  OBVIOUS
<1>3. SlotsOf("m1553")' = SlotsOf("m1553") /\ Slots' = Slots
  BY DEF SlotsOf, Slots
<1>4. QED
  BY <1>1, <1>2, <1>3

LEMMA VideoTypes ==
  ASSUME HealthTypes, CheckVideo
  PROVE  HealthTypes'
<1> USE DEF HealthTypes, HealthTypeOK, OkType, CheckVideo, Advance
<1>1. word' \in [Ids -> SUBSET Bits]
  BY DEF Note, Bits, VideoBits
<1>2. lamps' \in [Kinds \union {"fault"} -> BOOLEAN]
  OBVIOUS
<1>3. SlotsOf("m1553")' = SlotsOf("m1553") /\ Slots' = Slots
  BY DEF SlotsOf, Slots
<1>4. QED
  BY <1>1, <1>2, <1>3

LEMMA LampTypes ==
  ASSUME HealthTypes, SetLamps \/ SetFaultLamp
  PROVE  HealthTypes'
<1> USE DEF HealthTypes, HealthTypeOK, OkType, SetLamps, SetFaultLamp, Advance
<1>1. lamps' \in [Kinds \union {"fault"} -> BOOLEAN]
  BY DEF Configured, Fault
<1>2. SlotsOf("m1553")' = SlotsOf("m1553") /\ Slots' = Slots
  BY DEF SlotsOf, Slots
<1>3. QED
  BY <1>1, <1>2

\* The time code has a word as long as it is a channel of the configuration.
LEMMA NotedTypes ==
  ASSUME NEW w \in [Ids -> SUBSET Bits], NEW s \in Slots,
         NEW set \in SUBSET Bits, NEW cleared
  PROVE  Noted(w, s, set, cleared) \in [Ids -> SUBSET Bits]
BY DEF Noted

LEMMA TimeTypes ==
  ASSUME HealthTypes, CheckTime
  PROVE  HealthTypes'
<1> USE DEF HealthTypes, HealthTypeOK, OkType, CheckTime, Advance
<1>1. SlotsOf("m1553")' = SlotsOf("m1553") /\ Slots' = Slots
  BY DEF SlotsOf, Slots
<1>2. CASE Time \notin Slots
  BY <1>1, <1>2
<1>3. CASE Time \in Slots /\ CheckIrig
  <2>1. word' \in [Ids -> SUBSET Bits]
    BY <1>3, NotedTypes DEF CheckIrig, Bits
  <2>2. lamps' \in [Kinds \union {"fault"} -> BOOLEAN]
    BY <1>3 DEF CheckIrig
  <2>3. loops' \in 0..(SyncLoopMax + 1) /\ train' \in BOOLEAN
    <3>1. hw[Time] \in {"none", "carrier", "sync"}
      BY <1>3, SameSlots, HealthAssumption DEF Slots
    <3>2. PICK again \in {[loops |-> loops, train |-> FALSE], Retrain(loops),
                          [loops |-> 0, train |-> FALSE]}, back \in BOOLEAN :
            loops' = again.loops /\ train' = (back \/ again.train)
      BY <1>3, <3>1 DEF CheckIrig, Has
    <3>3. /\ Retrain(loops).loops \in 0..(SyncLoopMax + 1)
          /\ Retrain(loops).train \in BOOLEAN
      BY HealthAssumption DEF Retrain
    <3>4. QED
      BY <3>2, <3>3, HealthAssumption
  <2>4. QED
    BY <1>1, <2>1, <2>2, <2>3
<1>4. CASE Time \in Slots /\ CheckGps
  <2>1. word' \in [Ids -> SUBSET Bits]
    BY <1>4, NotedTypes DEF CheckGps, Bits
  <2>2. QED
    BY <1>1, <1>4, <2>1 DEF CheckGps
<1>5. CASE Time \in Slots /\ CheckJammed
  <2>1. word' \in [Ids -> SUBSET Bits]
    BY <1>5, NotedTypes DEF CheckJammed, Bits
  <2>2. QED
    BY <1>1, <1>5, <2>1 DEF CheckJammed
<1>6. CASE Time \in Slots /\ CheckInternal
  <2>1. word' \in [Ids -> SUBSET Bits]
    BY <1>6, NotedTypes DEF CheckInternal, Bits
  <2>2. lamps' \in [Kinds \union {"fault"} -> BOOLEAN]
    BY <1>6 DEF CheckInternal
  <2>3. QED
    BY <1>1, <1>6, <2>1, <2>2 DEF CheckInternal
<1>7. QED
  BY <1>2, <1>3, <1>4, <1>5, <1>6

\* The types of the ids are kinds.
LEMMA TypesOfTypes ==
  ASSUME site \in Sites, NEW c \in site.setups
  PROVE  TypesOf(c) \in [Ids -> Kinds \union {"none"}]
<1>1. DOMAIN c \subseteq Kinds \X Nat
  BY SameSlots, HealthAssumption
<1>2. ASSUME NEW i \in Ids, \E s \in DOMAIN c : c[s].id = i
      PROVE  (CHOOSE s \in DOMAIN c : c[s].id = i)[1] \in Kinds
  BY <1>1, <1>2
<1>3. QED
  BY <1>2 DEF TypesOf

LEMMA SetupTypes ==
  ASSUME HealthTypes, ProcessSetup \/ SetupFails
  PROVE  HealthTypes'
<1> USE DEF HealthTypes, HealthTypeOK, OkType
<1>1. config' \in site.setups /\ UNCHANGED <<word, times, hw, site, thread>>
      /\ step' \in {"parsed", "failed"}
  BY DEF ProcessSetup, SetupFails
<1>2. types' \in [Ids -> Kinds \union {"none"}]
  BY <1>1, TypesOfTypes DEF ProcessSetup, SetupFails
<1>3. DOMAIN config' = DOMAIN config
  BY <1>1, SameSlots
<1>4. SlotsOf("m1553")' = SlotsOf("m1553") /\ Slots' = Slots
  BY <1>3 DEF SlotsOf, Slots
<1>5. QED
  BY <1>1, <1>2, <1>4 DEF thread

LEMMA WordTypes ==
  ASSUME HealthTypes,
         InitializeHealth \/ InitializeChannelHealth \/ SetupHardware
           \/ SetupAgain
  PROVE  HealthTypes'
<1> USE DEF HealthTypes, HealthTypeOK, OkType
<1>1. UNCHANGED <<config, hw, site, thread>> /\ step' \in {"ready", "cleared", "prepared"}
  BY DEF InitializeHealth, InitializeChannelHealth, SetupHardware,
         SetupAgain
<1>2. word' \in [Ids -> SUBSET Bits]
  <2>1. CASE SetupHardware
    BY <2>1 DEF SetupHardware, Bits
  <2>2. CASE InitializeHealth \/ SetupAgain
    BY <2>2 DEF InitializeHealth, SetupAgain
  <2>3. CASE InitializeChannelHealth
    <3>1. \A i, good : Prepared(i, good) \in SUBSET Bits
      BY DEF Prepared, Bits
    <3>2. QED
      BY <2>3, <3>1 DEF InitializeChannelHealth
  <2>4. QED
    BY <2>1, <2>2, <2>3
<1>3. types' \in [Ids -> Kinds \union {"none"}]
  BY DEF InitializeHealth, InitializeChannelHealth, SetupHardware,
         SetupAgain
<1>4. times' \in [SlotsOf("m1553") -> 0..SilentPasses]
  BY HealthAssumption DEF InitializeHealth, InitializeChannelHealth, SetupHardware, SetupAgain
<1>5. SlotsOf("m1553")' = SlotsOf("m1553") /\ Slots' = Slots
  BY <1>1 DEF SlotsOf, Slots
<1>6. QED
  BY <1>1, <1>2, <1>3, <1>4, <1>5 DEF thread

LEMMA LineTypes ==
  ASSUME HealthTypes, Line \/ UNCHANGED healthVars
  PROVE  HealthTypes'
<1> USE DEF HealthTypes, HealthTypeOK, OkType
<1>1. UNCHANGED <<config, types, word, times, step, site, thread>>
  BY DEF Line, healthVars
<1>2. DOMAIN hw' = DOMAIN hw /\ \A s \in Slots : hw'[s] \in HwStates[s]
  BY DEF Line, healthVars
<1>3. SlotsOf("m1553")' = SlotsOf("m1553") /\ Slots' = Slots
  BY <1>1 DEF SlotsOf, Slots
<1>4. QED
  BY <1>1, <1>2, <1>3 DEF thread

LEMMA HealthInitTypes ==
  ASSUME HealthInit
  PROVE  HealthTypes
<1>1. site \in Sites /\ config \in site.setups /\ Slots \subseteq AllSlots
  BY SameSlots DEF HealthInit, Slots
<1>2. \A s \in Slots : hw[s] \in HwStates[s]
  BY <1>1, HealthAssumption DEF HealthInit
<1>3. DOMAIN hw = Slots
  BY DEF HealthInit
<1>4. lamps \in [Kinds \union {"fault"} -> BOOLEAN] /\ OkType
  BY DEF HealthInit, NoPass, OkType
<1>5. /\ types \in [Ids -> Kinds \union {"none"}]
      /\ word \in [Ids -> SUBSET Bits]
  BY DEF HealthInit
<1>6. times \in [SlotsOf("m1553") -> 0..SilentPasses] /\ loops \in 0..(SyncLoopMax + 1)
  BY HealthAssumption DEF HealthInit
<1>7. pass = "m1553" /\ train = FALSE /\ step = "cleared"
  BY DEF HealthInit
<1>8. QED
  BY <1>1, <1>2, <1>3, <1>4, <1>5, <1>6, <1>7 DEF HealthTypes, HealthTypeOK

LEMMA HealthTypesStep ==
  HealthTypes /\ [HealthNext]_healthVars => HealthTypes'
BY M1553Types, PcmTypes, VideoTypes, LampTypes, TimeTypes, SetupTypes, WordTypes, LineTypes,
   Zenon DEF HealthNext, CheckStatus, Setup

\* The health words, counters and lamps are well typed in every reachable state, and the
\* count of silent passes stops at its limit, for any channels, configurations and lines,
\* while setups are made (HealthTypeOK of ChannelHealth).
THEOREM HealthTypeCorrect == HealthSpec => []HealthTypeOK
<1>1. HealthInit => HealthTypes
  BY HealthInitTypes
<1>2. HealthTypes /\ [HealthNext]_healthVars => HealthTypes'
  BY HealthTypesStep
<1>3. HealthTypes => HealthTypeOK
  BY DEF HealthTypes
<1>4. QED
  BY <1>1, <1>2, <1>3, PTL DEF HealthSpec

\* Every word with something in it is that of a channel that is on, or the time code's.
InConfig(i) ==
  \E s \in Slots : Id(s) = i /\ (On(s) \/ s = Time)
WordsConfigured == \A i \in Ids : word[i] # {} => InConfig(i)

\* From the moment a setup has prepared the words they are those of the configuration.
\* A setup that failed has left no types, and one without channels leaves no words.
WordsPrepared ==
  /\ step \in {"cleared", "failed"} => types = [i \in Ids |-> "none"]
  /\ step \in {"parsed", "prepared"} => types = TypesOf(config)
  /\ step = "prepared" => WordsConfigured
  /\ step = "ready" /\ types = TypesOf(config) => WordsConfigured
  /\ Slots = {} => \A i \in Ids : word[i] = {}

\* A pass of the health thread writes words of channels that are on, and the time code's.
LEMMA NoteWrites ==
  ASSUME NEW kind, NEW bits(_), NEW bad(_), NEW i \in Ids,
         Note(kind, bad, bits)[i] # {}, word[i] = {}
  PROVE  InConfig(i)
<1>1. PICK s \in Enabled(kind) : Id(s) = i
  BY DEF Note
<1>2. QED
  BY <1>1 DEF Enabled, SlotsOf, InConfig

LEMMA PassWrites ==
  ASSUME HealthTypes, CheckStatus
  PROVE  /\ UNCHANGED <<config, types, step>>
         /\ \A i \in Ids : word'[i] # {} => word[i] # {} \/ InConfig(i)
<1>1. UNCHANGED <<config, types, step>>
  BY DEF CheckStatus, CheckM1553, CheckPcm, CheckVideo, SetLamps,
         CheckTime, SetFaultLamp, Advance
<1>2. ASSUME NEW i \in Ids, word'[i] # {}, word[i] = {}
      PROVE  InConfig(i)
  <2>1. CASE CheckM1553
    BY <1>2, <2>1, NoteWrites DEF CheckM1553
  <2>2. CASE CheckPcm
    BY <1>2, <2>2, NoteWrites DEF CheckPcm
  <2>3. CASE CheckVideo
    BY <1>2, <2>3, NoteWrites DEF CheckVideo
  <2>4. CASE SetLamps \/ SetFaultLamp
    BY <1>2, <2>4 DEF SetLamps, SetFaultLamp
  <2>5. CASE CheckTime
    <3>1. word \in [Ids -> SUBSET Bits]
      BY DEF HealthTypes, HealthTypeOK
    <3>2. CASE Time \notin Slots
      BY <1>2, <2>5, <3>2 DEF CheckTime
    <3>3. CASE Time \in Slots
      <4>1. \A j \in Ids : j # Id(Time) => word'[j] = word[j]
        BY <2>5, <3>1, <3>3 DEF CheckTime, CheckIrig, CheckGps,
                                CheckJammed, CheckInternal, Noted
      <4>2. QED
        BY <1>2, <3>3, <4>1 DEF InConfig
    <3>4. QED
      BY <3>2, <3>3
  <2>6. QED
    BY <2>1, <2>2, <2>3, <2>4, <2>5 DEF CheckStatus
<1>3. QED
  BY <1>1, <1>2

\* What a configuration's ids are, when they ascend: the n-th id of a kind is the id of
\* the n-th channel of the kind, and there are types when there are channels.
LEMMA NthOfKind ==
  ASSUME IdsAscend, HealthTypes, types = TypesOf(config),
         NEW i \in Ids,
         NEW nth, nth = <<types[i], Cardinality({j \in Ids : j < i /\ types[j] = types[i]})>>,
         nth \in Slots
  PROVE  Id(nth) = i
<1>1. config \in Setups /\ Slots \subseteq Kinds \X Nat
  BY SameSlots, HealthAssumption DEF HealthTypes, HealthTypeOK, Setups, Slots
<1>2. types[i] \in Kinds /\ types[i] # "none"
  BY <1>1 DEF Kinds
<1>3. PICK s \in DOMAIN config : config[s].id = i
  BY <1>2 DEF TypesOf
<1>4. s = nth
  <2> DEFINE below(t, k) == {j \in Ids : j < k /\ t[j] = t[k]}
  <2>1. Ascending(config)
    BY <1>1 DEF IdsAscend
  <2>2. \A r \in DOMAIN config :
          r = <<TypesOf(config)[config[r].id],
                Cardinality(below(TypesOf(config), config[r].id))>>
    BY <2>1, Zenon DEF Ascending
  <2>3. s = <<types[i], Cardinality(below(types, i))>>
    BY <1>3, <2>2
  <2>4. QED
    BY <2>3, Zenon
<1>5. QED
  BY <1>3, <1>4 DEF Id

LEMMA NoTypesNoSlots ==
  ASSUME HealthTypes,
         TypesOf(config) = [i \in Ids |-> "none"]
  PROVE  Slots = {}
<1>1. SUFFICES ASSUME NEW s \in Slots
               PROVE  FALSE
  OBVIOUS
<1>2. config[s].id \in Ids /\ Slots \subseteq Kinds \X Nat
  BY SameSlots, HealthAssumption DEF HealthTypes, HealthTypeOK, Slots
<1>3. (CHOOSE r \in DOMAIN config : config[r].id = config[s].id) \in Slots
  BY DEF Slots
<1>4. TypesOf(config)[config[s].id] \in Kinds
  BY <1>2, <1>3 DEF TypesOf, Slots
<1>5. QED
  BY <1>2, <1>4 DEF Kinds

\* The words prepared are those of the channels that are on.
LEMMA PreparesWords ==
  ASSUME IdsAscend, HealthTypes, WordsPrepared,
         InitializeChannelHealth
  PROVE  WordsPrepared'
<1>1. /\ types = TypesOf(config) /\ step' = "prepared"
      /\ UNCHANGED <<config, types>>
  BY DEF WordsPrepared, InitializeChannelHealth
<1>2. ASSUME NEW i \in Ids, word'[i] # {}
      PROVE  InConfig(i)
  <2> DEFINE at(k) == <<types[k], Cardinality({j \in Ids : j < k /\ types[j] = types[k]})>>
             nth == at(i)
  <2>0. word' = [k \in Ids |->
                   Prepared(k, at(k) \in Slots /\ On(at(k)))]
    BY DEF InitializeChannelHealth
  <2> HIDE DEF at
  <2>1. word'[i] = Prepared(i, nth \in Slots /\ On(nth))
    BY <2>0
  <2> USE DEF at
  <2>2. nth \in Slots /\ On(nth)
    BY <1>2, <2>1 DEF Prepared
  <2>3. Id(nth) = i
    BY <1>1, <2>2, NthOfKind
  <2>4. QED
    BY <2>2, <2>3 DEF InConfig
<1>3. \A i \in Ids : InConfig(i)' = InConfig(i)
  BY <1>1 DEF InConfig, Slots, Id, On
<1>4. WordsConfigured'
  BY <1>2, <1>3 DEF WordsConfigured
<1>5. Slots' = {} => \A i \in Ids : word'[i] = {}
  BY <1>1, <1>2 DEF InConfig, Slots
<1>6. QED
  BY <1>1, <1>4, <1>5 DEF WordsPrepared

LEMMA ConfirmsWords ==
  ASSUME HealthTypes, WordsPrepared, SetupHardware
  PROVE  WordsPrepared'
<1>1. step = "prepared" /\ step' = "ready" /\ UNCHANGED <<config, types>>
  BY DEF SetupHardware
<1>2. ASSUME NEW i \in Ids, word'[i] # {}
      PROVE  InConfig(i)
  <2>1. word[i] # {} \/ Time \in {s \in Slots : Id(s) = i}
    BY <1>2 DEF SetupHardware
  <2>2. QED
    BY <1>1, <2>1 DEF InConfig, WordsPrepared, WordsConfigured
<1>3. \A i \in Ids : InConfig(i)' = InConfig(i)
  BY <1>1 DEF InConfig, Slots, Id, On
<1>4. WordsConfigured'
  BY <1>2, <1>3 DEF WordsConfigured
<1>5. Slots' = {} => \A i \in Ids : word'[i] = {}
  BY <1>1, <1>2 DEF InConfig, Slots
<1>6. QED
  BY <1>1, <1>4, <1>5 DEF WordsPrepared

\* A configuration written while the words are those of before.
LEMMA WritesConfig ==
  ASSUME HealthTypes, WordsPrepared,
         ProcessSetup \/ SetupFails
  PROVE  WordsPrepared'
<1>1. /\ config' \in site.setups /\ UNCHANGED word
      /\ \/ step' = "parsed" /\ types' = TypesOf(config')
         \/ step' = "failed" /\ types' = [i \in Ids |-> "none"]
  BY DEF ProcessSetup, SetupFails
<1>2. TypesOf(config)' = TypesOf(config')
  BY DEF TypesOf
<1>3. Slots' = Slots
  BY <1>1, SameSlots DEF HealthTypes, HealthTypeOK, Slots
<1>4. QED
  BY <1>1, <1>2, <1>3 DEF WordsPrepared

\* A setup begun forgets the words; one that failed is given up.
LEMMA BeginsSetup ==
  ASSUME HealthTypes, WordsPrepared,
         InitializeHealth \/ SetupAgain
  PROVE  WordsPrepared'
<1>1. UNCHANGED config /\ Slots' = Slots
  BY DEF InitializeHealth, SetupAgain, Slots
<1>2. CASE InitializeHealth
  BY <1>1, <1>2 DEF InitializeHealth, WordsPrepared
<1>3. CASE SetupAgain
  <2>1. /\ types = [i \in Ids |-> "none"] /\ step' = "ready"
        /\ UNCHANGED <<types, word>>
    BY <1>3 DEF SetupAgain, WordsPrepared
  <2>2. TypesOf(config)' = TypesOf(config)
    BY <1>1 DEF TypesOf
  <2>3. types' = TypesOf(config)' => \A i \in Ids : word'[i] = {}
    BY <2>1, <2>2, NoTypesNoSlots DEF WordsPrepared
  <2>4. QED
    BY <1>1, <2>1, <2>3 DEF WordsPrepared, WordsConfigured
<1>4. QED
  BY <1>2, <1>3

LEMMA PassKeeps ==
  ASSUME HealthTypes, WordsPrepared,
         CheckStatus \/ Line \/ UNCHANGED healthVars
  PROVE  WordsPrepared'
<1>1. /\ UNCHANGED <<config, types, step>>
      /\ \A i \in Ids : word'[i] # {} => word[i] # {} \/ InConfig(i)
  <2>1. CASE CheckStatus
    BY <2>1, PassWrites
  <2>2. CASE Line \/ UNCHANGED healthVars
    BY <2>2 DEF Line, healthVars
  <2>3. QED
    BY <2>1, <2>2
<1>2. \A i \in Ids : InConfig(i)' = InConfig(i)
  BY <1>1 DEF InConfig, Slots, Id, On
<1>3. WordsConfigured => WordsConfigured'
  BY <1>1, <1>2 DEF WordsConfigured
<1>4. Slots' = Slots /\ TypesOf(config)' = TypesOf(config)
  BY <1>1 DEF Slots, TypesOf
<1>5. Slots' = {} => \A i \in Ids : word'[i] = {}
  BY <1>1, <1>4 DEF InConfig, WordsPrepared
<1>6. QED
  BY <1>1, <1>3, <1>4, <1>5 DEF WordsPrepared

\* After a setup that succeeded nothing of the configuration before is left in the words,
\* though the health thread goes on writing them while the setup is made: for any
\* channels and configurations whose ids ascend (OnlyConfigured of ChannelHealth).
THEOREM WordsAreConfigured ==
  ASSUME IdsAscend
  PROVE  HealthSpec => []OnlyConfigured
<1>1. HealthInit => HealthTypes /\ WordsPrepared
  BY HealthInitTypes DEF HealthInit, WordsPrepared
<1>2. HealthTypes /\ [HealthNext]_healthVars => HealthTypes'
  BY HealthTypesStep
<1>3. HealthTypes /\ WordsPrepared /\ [HealthNext]_healthVars => WordsPrepared'
  BY PassKeeps, BeginsSetup, WritesConfig, PreparesWords, ConfirmsWords, Zenon
     DEF HealthNext, Setup
<1>4. WordsPrepared => OnlyConfigured
  BY DEF WordsPrepared, WordsConfigured, InConfig, OnlyConfigured
<1>5. QED
  BY <1>1, <1>2, <1>3, <1>4, PTL DEF HealthSpec
=============================================================================
