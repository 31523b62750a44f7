------------------------------- MODULE Panels -------------------------------
(***************************************************************************)
(* The discrete switches and the fault lamp, of every panel the recorder   *)
(* is built into (Config in the settings): M23_MonitorDiscretes compares    *)
(* the switches with those of its last scan and acts on the differences,    *)
(* and it does not scan while it acts.  The serial port records and stops,  *)
(* the control loop ends tests, declassifying and failed recordings, the    *)
(* health thread keeps its part of the fault lamp.  Recording is one step   *)
(* here (Recorder has it in detail).  Left out: the other lamps, the video   *)
(* select switches and the audio tone.                                     *)
(***************************************************************************)
EXTENDS Integers, FiniteSets

CONSTANTS
  Panels,      \* values of Config
  AutoRecords, \* values of AutoRecord, from the setup
  MaxChanges,  \* bound: switches that differ from the last scan
  MaxMoves     \* bound: how often switches are moved

Std == {"1", "2", "airbus", "4", "B1B", "B52"}
ASSUME PanelsAssumption ==
  /\ Panels \subseteq Std \union {"zero", "lockheed", "P3"} /\ AutoRecords \subseteq BOOLEAN
  /\ MaxChanges \in Nat \ {0} /\ MaxMoves \in Nat

VARIABLES
  panel, auto,
  switches,    \* those that are on
  previous,    \* PreviousSwitches
  seen,        \* CurrentSwitches, of the last scan
  doing,       \* what M23_MonitorDiscretes is at: "scan", "confirm", "own", "erase", "erased"
  state,       \* RecorderStatus
  writing,     \* the hardware records
  from,        \* CommandFrom
  lit,         \* the bit of the fault lamp
  critical, other,  \* Critical, OtherSet: who wants the fault lamp
  fault,       \* a critical bit is in the health words
  health,      \* what the health thread is at: "pass", "set", "clear"
  moves

vars == <<panel, auto, switches, previous, seen, doing, state, writing, from, lit, critical,
          other, fault, health, moves>>
recorder == <<state, writing, from>>
lamp == <<lit, critical, other>>
hand == <<switches, fault, moves>>

Switches(p) == {"record", "bit", "event", "enable", "erase"}
                 \union (IF p \in Std \union {"zero"} THEN {"declass"} ELSE {})

\* As if these had been on before the first scan.
FirstPrevious(p) ==
  CASE p = "zero" -> Switches(p)
    [] p = "lockheed" -> {"event", "bit", "erase", "enable"}
    [] OTHER -> Switches(p) \ {"record"}

\* A recorder that is powered up with the record switch on begins to record; with
\* AutoRecord, or a cartridge mounted then (CommandFrom is auto), without it.
Init ==
  /\ panel \in Panels /\ auto \in AutoRecords
  /\ switches \in {{}, {"record"}}
  /\ previous = FirstPrevious(panel) /\ seen = switches /\ doing = "scan"
  /\ writing = (panel = "2" \/ auto \/ "record" \in switches)
  /\ state = (IF writing THEN "RECORD" ELSE "IDLE")
  /\ from \in (IF "record" \in switches THEN {"switch"}
                ELSE IF auto THEN {"nobody", "auto"} ELSE {"nobody"})
  /\ lit = FALSE /\ critical = FALSE /\ other = FALSE /\ fault = FALSE /\ health = "pass"
  /\ moves = 0

-----------------------------------------------------------------------------
(* The recorder and the lamp, as these commands use them.                  *)

Idle == state \in {"IDLE", "ERROR"}
Inverted(p) == p \in {"4", "lockheed"}

\* The lamp of Lockheed and panel 4 says ready; panel 3 (Airbus) has none.
Showing(shows, bit) == IF panel = "airbus" THEN bit ELSE shows # Inverted(panel)
Shown == lit # Inverted(panel)

\* M23_SetFaultLED(0), M23_ClearFaultLED(0)
SetFault == lit' = Showing(TRUE, lit) /\ other' = TRUE /\ UNCHANGED critical
ClearFault ==
  /\ other' = FALSE /\ lit' = (IF critical THEN lit ELSE Showing(FALSE, lit))
  /\ UNCHANGED critical

\* Record: it may be refused, and it may fail.
Record(ok) ==
  IF Idle
  THEN state' \in (IF ok THEN {"RECORD"} ELSE {"ERROR", state}) /\ writing' = (writing \/ ok)
  ELSE ~ok /\ UNCHANGED <<state, writing>>

\* (Mutant: the hardware is not told.)
StopSoftly == state' = "IDLE" /\ UNCHANGED writing

Stop == state' = "IDLE" /\ writing' = FALSE

-----------------------------------------------------------------------------
(* M23_MonitorDiscretes.                                                   *)

SwitchedOn(cur) == cur \ previous
SwitchedOff(cur) == previous \ cur

RecordsBySwitch == ~auto /\ panel # "2"
StopsBySwitch == panel = "lockheed" \/ RecordsBySwitch

\* Both switches, the second one just put on.
EraseAskedStd(cur) ==
  IF "enable" \in SwitchedOn(cur) THEN "erase" \in cur
  ELSE "erase" \in SwitchedOn(cur) /\ "enable" \in cur

\* P3 tests the bits of its erase lamp (0xF7) instead of its erase switch (0x8).
EraseAskedP3(cur) ==
  IF "enable" \in SwitchedOn(cur) THEN "erase" \in cur
  ELSE SwitchedOn(cur) \ {"erase"} # {} /\ "enable" \in cur

\* (Mutant: the enable switch may have been put on long ago, and so the other.)
EraseAskedLevel(cur) == "enable" \in cur /\ SwitchedOn(cur) # {}

EraseAsked(cur) == IF panel = "P3" THEN EraseAskedP3(cur) ELSE EraseAskedStd(cur)

DeclassAsked(cur) ==
  /\ panel # "lockheed" /\ panel # "P3"
  /\ IF "enable" \in SwitchedOn(cur) THEN "erase" \notin cur /\ "declass" \in cur
     ELSE /\ "erase" \notin SwitchedOn(cur)
          /\ "declass" \in SwitchedOn(cur) /\ "enable" \in cur

\* Panel 0 and Lockheed look at these switches in no scan that begins in RECORD.
Looks == panel \in {"zero", "lockheed"} => state # "RECORD"

\* The record switch is looked at again after 250 ms (Lockheed: not).
RecordAsked(cur) ==
  /\ SwitchedOn(cur) = {"record"}
  /\ IF panel = "lockheed" THEN state # "RECORD"
     ELSE RecordsBySwitch /\ (panel \in Std => state # "RECORD")

BitAsked(cur) == SwitchedOn(cur) = {"bit"}

\* The switch ends what it began; on P3, Lockheed and panel 0 what auto record began,
\* too.  Panels 0 and P3 do so in REC_N_PLAY as well; playback is not modelled here.
StopAsked(cur) ==
  /\ SwitchedOff(cur) = {"record"}
  /\ from = "switch" \/ (panel \notin Std /\ from = "auto")
  /\ StopsBySwitch
  /\ state = "RECORD"

\* The switch is off, but nothing is being recorded any more.
Disowned(cur) ==
  /\ SwitchedOff(cur) = {"record"} /\ state # "RECORD"
  /\ (panel \in Std /\ from = "switch") \/ (panel = "lockheed" /\ from \in {"switch", "auto"})

Next1(next, cur) == doing' = next /\ seen' = cur

ScanRecord ==
  /\ doing = "scan" /\ RecordAsked(switches)
  /\ Next1("confirm", switches)
  /\ UNCHANGED <<panel, auto, previous, recorder, lamp, health, hand>>

\* What was not recorded goes on to the erase switches.
Recorded(read) ==
  IF "record" \in switches \/ panel = "lockheed"
  THEN \E ok \in BOOLEAN :
         /\ Record(ok)
         /\ doing' = IF ok THEN "own" ELSE IF EraseAsked(read) THEN "erase" ELSE "scan"
         /\ previous' = IF ~ok /\ EraseAsked(read) THEN previous ELSE read
  ELSE /\ doing' = IF EraseAsked(read) THEN "erase" ELSE "scan"
       /\ previous' = IF EraseAsked(read) THEN previous ELSE read
       /\ UNCHANGED <<state, writing>>

\* (Mutant: the scan ends with the switches of now.)
ConfirmNow ==
  /\ doing = "confirm"
  /\ Recorded(switches)
  /\ UNCHANGED <<panel, auto, seen, from, lamp, health, hand>>

\* 250 ms later; the scan ends with the switches seen at its beginning.
Confirm ==
  /\ doing = "confirm"
  /\ Recorded(seen)
  /\ UNCHANGED <<panel, auto, seen, from, lamp, health, hand>>

\* CommandFrom is set when Record has returned.
Own ==
  /\ doing = "own" /\ doing' = "scan" /\ from' = "switch"
  /\ UNCHANGED <<panel, auto, previous, seen, state, writing, lamp, health, hand>>

\* Without a cartridge (DiskIsConnected), or in another state, nothing is erased.
ErasesNow(read) ==
  /\ seen' = read
  /\ \/ Idle /\ state' = "ERASE" /\ ClearFault /\ doing' = "erased" /\ UNCHANGED previous
     \/ doing' = "scan" /\ previous' = read /\ UNCHANGED <<state, lamp>>
  /\ UNCHANGED <<panel, auto, writing, from, health, hand>>

ScanErase ==
  /\ doing = "scan" /\ Looks /\ EraseAsked(switches) /\ ~RecordAsked(switches) /\ ~BitAsked(switches)
  /\ ErasesNow(switches)

EraseAfterRecord == doing = "erase" /\ ErasesNow(seen)

\* The erase lamp has blinked.  P3 leaves the state as it is.
Erased ==
  /\ doing = "erased" /\ doing' = "scan" /\ previous' = seen
  /\ state' = IF panel = "P3" \/ state = "RECORD" THEN state ELSE "IDLE"
  /\ UNCHANGED <<panel, auto, seen, writing, from, lamp, health, hand>>

ScanDeclass ==
  /\ doing = "scan" /\ Looks /\ DeclassAsked(switches)
  /\ Next1("scan", switches) /\ previous' = switches
  /\ IF Idle THEN state' \in {"DECLASSIFY", state} ELSE UNCHANGED state
  /\ UNCHANGED <<panel, auto, writing, from, lamp, health, hand>>

\* Lockheed shows a fault during the test.
ScanBit ==
  /\ doing = "scan" /\ BitAsked(switches)
  /\ Next1("scan", switches) /\ previous' = switches
  /\ IF Idle \/ state = "FAIL"
     THEN state' = "BIT" /\ (IF panel = "lockheed" THEN SetFault ELSE UNCHANGED lamp)
     ELSE UNCHANGED <<state, lamp>>
  /\ UNCHANGED <<panel, auto, writing, from, health, hand>>

ScanStop ==
  /\ doing = "scan" /\ StopAsked(switches)
  /\ Next1("scan", switches) /\ previous' = switches
  /\ Stop /\ from' = "nobody"
  /\ UNCHANGED <<panel, auto, lamp, health, hand>>

ScanDisowned ==
  /\ doing = "scan" /\ Disowned(switches)
  /\ Next1("scan", switches) /\ previous' = switches /\ from' = "nobody"
  /\ UNCHANGED <<panel, auto, state, writing, lamp, health, hand>>

\* Everything else: the differences are taken note of.
ScanRest ==
  /\ doing = "scan" /\ previous # switches
  /\ ~RecordAsked(switches) /\ ~(Looks /\ (EraseAsked(switches) \/ DeclassAsked(switches)))
  /\ ~BitAsked(switches) /\ ~StopAsked(switches) /\ ~Disowned(switches)
  /\ Next1("scan", switches) /\ previous' = switches
  /\ UNCHANGED <<panel, auto, recorder, lamp, health, hand>>

Monitor == \/ ScanRecord \/ Confirm \/ Own \/ ScanErase \/ EraseAfterRecord \/ Erased \/ ScanDeclass \/ ScanBit
           \/ ScanStop \/ ScanDisowned \/ ScanRest

-----------------------------------------------------------------------------
(* The other threads.                                                      *)

CmdRecord ==
  /\ panel # "2" /\ ~auto /\ Record(TRUE) /\ from' = "port"
  /\ UNCHANGED <<panel, auto, previous, seen, doing, lamp, health, hand>>

CmdStop ==
  /\ panel # "2" /\ ~auto /\ state = "RECORD" /\ (from \in {"port", "auto"} \/ panel = "lockheed")
  /\ Stop /\ from' = "nobody"
  /\ UNCHANGED <<panel, auto, previous, seen, doing, lamp, health, hand>>

\* .STATUS and .HEALTH
CmdStatus ==
  /\ state \in {"ERROR", "FAIL"} /\ state' = "IDLE"
  /\ UNCHANGED <<panel, auto, previous, seen, doing, writing, from, lamp, health, hand>>

\* The control loop: a record fault or a full medium, the end of a test, the answer
\* of the cartridge to declassify.
StopOnFault ==
  /\ state = "RECORD" /\ Stop
  /\ UNCHANGED <<panel, auto, previous, seen, doing, from, lamp, health, hand>>

BitEnds ==
  /\ state = "BIT" /\ state' = "IDLE"
  /\ IF panel = "lockheed" THEN ClearFault ELSE UNCHANGED lamp
  /\ UNCHANGED <<panel, auto, previous, seen, doing, writing, from, health, hand>>

DeclassEnds ==
  /\ state = "DECLASSIFY" /\ state' \in {"IDLE", "FAIL"}
  /\ UNCHANGED lamp
  /\ UNCHANGED <<panel, auto, previous, seen, doing, writing, from, health, hand>>

\* (Mutant: a lamp that is wanted already is not written.)
HealthCountsOnce ==
  /\ health = "pass"
  /\ health' = IF fault THEN "set" ELSE "clear"
  /\ IF fault THEN lit' = (IF critical THEN lit ELSE Showing(TRUE, lit)) /\ UNCHANGED critical
     ELSE critical' = FALSE /\ UNCHANGED lit
  /\ UNCHANGED <<panel, auto, previous, seen, doing, recorder, other, hand>>

\* The health thread counts the critical bits, then SetFaultLED(1) or
\* ClearFaultLED(1), each in two steps: lamp, then flag; flag, then lamp.
HealthCounts ==
  /\ health = "pass"
  /\ health' = IF fault THEN "set" ELSE "clear"
  /\ IF fault THEN lit' = Showing(TRUE, lit) /\ UNCHANGED critical
     ELSE critical' = FALSE /\ UNCHANGED lit
  /\ UNCHANGED <<panel, auto, previous, seen, doing, recorder, other, hand>>

HealthSets ==
  /\ health = "set" /\ health' = "pass" /\ critical' = TRUE
  /\ UNCHANGED <<panel, auto, previous, seen, doing, recorder, lit, other, hand>>

HealthClears ==
  /\ health = "clear" /\ health' = "pass"
  /\ lit' = IF other \/ critical THEN lit ELSE Showing(FALSE, lit)
  /\ UNCHANGED <<panel, auto, previous, seen, doing, recorder, critical, other, hand>>

\* The operator, and the channels.
Move(s) ==
  /\ moves < MaxMoves /\ moves' = moves + 1
  /\ switches' = IF s \in switches THEN switches \ {s} ELSE switches \union {s}
  /\ doing # "scan" \/ previous = switches
  /\ Cardinality((switches' \ seen) \union (seen \ switches')) <= MaxChanges
  /\ UNCHANGED <<panel, auto, previous, seen, doing, recorder, lamp, fault, health>>

FaultChanges ==
  /\ moves < MaxMoves /\ moves' = moves + 1
  /\ fault' = ~fault
  /\ UNCHANGED <<panel, auto, switches, previous, seen, doing, recorder, lamp, health>>

Health == HealthCounts \/ HealthSets \/ HealthClears

Next ==
  \/ Monitor \/ CmdRecord \/ CmdStop \/ CmdStatus \/ StopOnFault \/ BitEnds \/ DeclassEnds
  \/ Health \/ FaultChanges \/ \E s \in Switches(panel) : Move(s)

\* The threads run; what a recording meets is not certain.
Spec == /\ Init /\ [][Next]_vars
        /\ WF_vars(Monitor) /\ WF_vars(Health) /\ WF_vars(BitEnds)

-----------------------------------------------------------------------------
(* Properties.                                                             *)

TypeOK ==
  /\ panel \in Panels /\ switches \subseteq Switches(panel) /\ previous \subseteq Switches(panel)
  /\ doing \in {"scan", "confirm", "own", "erase", "erased"}
  /\ state \in {"IDLE", "ERROR", "RECORD", "ERASE", "BIT", "DECLASSIFY", "FAIL"}
  /\ writing = (state = "RECORD")
  /\ from \in {"nobody", "switch", "port", "auto"}
  /\ doing = "confirm" => SwitchedOn(seen) = {"record"}

\* A step of the switches that erases does so by the enable and the erase switch,
\* one of them put on since the last scan.
BySwitches ==
  state' = "ERASE" /\ state # "ERASE" =>
    /\ {"enable", "erase"} \subseteq seen'
    /\ {"enable", "erase"} \intersect SwitchedOn(seen') # {}

(* No other switch that is moved while enable is on erases a cartridge     *)
(* (except on panel P3).                                                   *)
EraseNeedsSwitches == [][panel # "P3" => BySwitches]_vars

(* A recording that the record switch owns ends after the switch is put    *)
(* off, whatever commands, faults and other switches come in between, if   *)
(* no two switches are moved between two scans.  (AutoRecord goes on.)      *)
ReleasedEnds ==
  writing /\ StopsBySwitch /\ from = "switch" /\ "record" \notin switches
    ~> ~writing \/ from # "switch" \/ "record" \in switches

(* The fault lamp is shared: critical health bits come to be shown, and    *)
(* when they are gone and nobody else wants the lamp, it goes off, though   *)
(* erases and tests clear and set it between the steps of the health thread.*)
FaultShows ==
  panel # "airbus" =>
    /\ fault ~> Shown \/ ~fault
    /\ ~fault /\ ~other ~> ~Shown \/ fault \/ other
=============================================================================
