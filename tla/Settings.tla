------------------------------ MODULE Settings ------------------------------
(***************************************************************************)
(* The settings of the recorder (M2X_system_settings.c), the .SET, .SAVE,  *)
(* .CRITICAL and .SETUP commands that change and store them                *)
(* (M2X_cmd_ascii.c), and the settings file read when the power comes on.  *)
(*                                                                         *)
(* The settings live in memory; .SAVE writes them all.  Three commands     *)
(* store at once what they changed and nothing else: they read the file,   *)
(* truncate it, and write the copy back.  The power may fail between any   *)
(* two of these steps.                                                     *)
(*                                                                         *)
(* A value is abstracted to the one the program ships with, one an         *)
(* operator has chosen, or one nobody assigned.  The commands of one port  *)
(* are modelled; the file system itself does not fail.                     *)
(***************************************************************************)
EXTENDS Naturals, FiniteSets

CONSTANTS GoodSetups,    \* setups that configure the recorder
          BadSetups,     \* setups that do not
          WithChannel,   \* the good setups that have a data channel
          FirstConfigs,  \* configurations a stored file may begin with
          MaxSets,       \* bound: values given by the operator in one run
          MaxStores      \* bound: .SETUP and .CRITICAL commands in one run

ASSUME SetupsAssumption ==
  /\ GoodSetups \subseteq Nat /\ BadSetups \subseteq Nat
  /\ GoodSetups \cap BadSetups = {} /\ WithChannel \subseteq GoodSetups
  /\ 1 \in GoodSetups /\ 0 \in GoodSetups \cup BadSetups
  /\ MaxSets \in Nat /\ MaxStores \in Nat

VARIABLES memory,    \* Settings
          file,      \* ./Settings
          copy,      \* the local copy of a command that stores
          cmd,       \* what that command is about to do, and for whom
          masks,     \* M23_CriticalMasks
          types,     \* the features of HealthArrayTypes that are in use
          comm,      \* Serial_Config
          line,      \* what the serial ports were opened with
          selected,  \* SelectedSetup
          status,    \* RecorderStatus
          hw,        \* registers of the controller board
          label,     \* the setting the volume name of the cartridge came from
          on,        \* the power is on
          sets,      \* values given so far
          stores     \* .SETUP and .CRITICAL commands so far

vars == <<memory, file, copy, cmd, masks, types, comm, line, selected, status, hw,
          label, on, sets, stores>>

Shipped == "shipped"
Chosen == "chosen"
Undefined == "undefined"
Given == {Shipped, Chosen}
ComSettings == Given \cup {Undefined}
Closed == "closed"
Ports == 1..2
Features == {"recorder", "channel"}

-----------------------------------------------------------------------------
\* Settings that a command assigns and that act only when they are read.

\* .SET BINGO and .SET YEAR
Numbers == {"Bingo", "Year"}
\* .SET IGNORE and .SET SCRIPT
Switches == {"IgnorePresent", "Script"}
\* .SET MASKPCM and .SET MASK1553
StatusMasks == {"PCMStatusMask", "M1553StatusMask"}
\* .SET REMOTE and .SET IEEE1394B
Links == {"Remote", "LongCable"}
\* .SET TAIL
Tails == {"TailNumbers"}
\* .SET PCM_DAC
Dacs == {"PCM_DACS"}
\* .SET DEBUG and .SET GPS_DEBUG
Debugs == {"Debug", "GPSDebug"}
\* .SET FACTOR, kept for each format of the time code
Factors == {"Factor"}

Plain == Numbers \cup Switches \cup StatusMasks \cup Links \cup Tails
           \cup Dacs \cup Debugs \cup Factors

\* Settings with an action of their own, below.
Special == {"Verbose", "TimeDebug", "OnTime", "VolumeName", "UnitName",
            "RemoteTerminal", "Ssric", "LiveVid", "Serial1", "Serial2",
            "TempAndPower", "TimeMask", "TimeCodeOffset", "Multiplier", "DAC1"}

Names == Plain \cup Special

\* The configurations told apart: F15, Lockheed F16, B1B, and the others.
Configs == {"F15", "F16", "B1B", "other"}

ASSUME ConfigsAssumption == FirstConfigs \subseteq Configs

SYSTEM_SETTINGS ==
  [value : [Names -> Given \cup {Undefined}],
   Config : Configs,
   Setup : GoodSetups \cup BadSetups,
   Critical : [Features -> SUBSET {"memory", "other"}],
   CommConfig : [Ports -> ComSettings]]

get_default_settings ==
  [value |-> [n \in Names |-> Shipped],
   Config |-> "F15",
   Setup |-> 1,
   Critical |-> [f \in Features |-> {}],
   CommConfig |-> [p \in Ports |-> Shipped]]

Absent == [state |-> "absent", settings |-> get_default_settings]
Cut == [state |-> "cut", settings |-> get_default_settings]
Whole(s) == [state |-> "whole", settings |-> s]

\* The masks a file gives: on the recorder the full or missing cartridge and
\* the failed configuration are always critical, except on the B1B.
restore_settings(s) ==
  [f \in Features |->
     s.Critical[f] \cup
       IF f = "recorder" /\ s.Config # "B1B" THEN {"memory"} ELSE {}]

\* The masks of the features the setup does not have are stored as zero.
FeaturesCritical ==
  [f \in Features |-> IF f \in types THEN masks[f] ELSE {}]

\* The remote terminal is programmed only where the program does not use it
\* for itself.
ProgramRT(v, s) == IF s.Config \in {"F15", "F16"} THEN hw.rt ELSE v

\* ProcessSetup: the features in use afterwards.  A setup that fails may leave
\* those of the lines it read, except on the F15.
FeaturesOf(n, s) ==
  IF n \in GoodSetups
  THEN {{"recorder"} \cup IF n \in WithChannel THEN {"channel"} ELSE {}}
  ELSE {{"recorder"}} \cup IF s.Config = "F15" THEN {} ELSE {Features}

-----------------------------------------------------------------------------
Idle == [op |-> "none", at |-> "none"]

Init ==
  /\ \/ file = Absent
     \/ \E c \in FirstConfigs :
          file = Whole([get_default_settings EXCEPT !.Config = c])
  /\ memory = get_default_settings
  /\ copy = get_default_settings
  /\ cmd = Idle
  /\ masks = [f \in Features |-> {}]
  /\ types = {"recorder"}
  /\ comm = [p \in Ports |-> Shipped]
  /\ line = [p \in Ports |-> Closed]
  /\ selected = 0
  /\ status = "IDLE"
  /\ hw = [rt |-> Shipped, debug |-> FALSE, mask |-> Shipped]
  /\ label = "VolumeName"
  /\ on = FALSE
  /\ sets = 0
  /\ stores = 0

\* A port is closed and opened again: every rate, parity, number of bits and flow
\* control GetComSettings lets through has its own mode of the line.
SerialPortInitialize(c) == c

\* Both ports, also when one of them is set.
CmdAsciiInitialize(c) == [p \in Ports |-> SerialPortInitialize(c[p])]

PowerUpTrusting ==
  /\ ~on
  /\ on' = TRUE
  /\ memory' = file.settings
  /\ masks' = restore_settings(file.settings)
  /\ comm' = file.settings.CommConfig
  /\ line' = comm'
  /\ types' \in FeaturesOf(file.settings.Setup, file.settings)
  /\ selected' = file.settings.Setup
  /\ label' = "VolumeName"
  /\ status' = "IDLE"
  /\ cmd' = Idle
  /\ UNCHANGED <<file, copy, hw, sets, stores>>

\* The file read at the start: one that is not there or not whole is replaced
\* by the default settings.
settings_Initialize ==
  IF file.state = "whole" THEN file.settings ELSE get_default_settings

\* The setup processed at the start, and the one selected after it.
InitialSetup(s) ==
  /\ types' \in FeaturesOf(s.Setup, s)
  /\ selected' = IF s.Setup \in GoodSetups THEN s.Setup ELSE 0

\* StartControllerHardware, with a setup that works
InitialRT(s) ==
  IF s.Setup \in GoodSetups THEN ProgramRT(s.value["RemoteTerminal"], s)
                            ELSE hw.rt

\* The debug bit is set, and lost with the next write to its register.
M23_ProgramTimeValues == FALSE

M23_WriteTimeCodeOffset(s) == s.value["TimeMask"]

PowerUp ==
  /\ ~on
  /\ on' = TRUE
  /\ LET s == settings_Initialize
     IN /\ memory' = s
        /\ file' = Whole(s)
        /\ masks' = restore_settings(s)
        /\ comm' = s.CommConfig
        /\ line' = CmdAsciiInitialize(comm')
        /\ InitialSetup(s)
        /\ hw' = [rt |-> InitialRT(s), debug |-> M23_ProgramTimeValues,
                  mask |-> M23_WriteTimeCodeOffset(s)]
  /\ label' = "VolumeName"
  /\ status' = "IDLE"
  /\ cmd' = Idle
  /\ UNCHANGED <<copy, sets, stores>>

\* What is in memory is gone; the file stays as it is, whole or not.
PowerFails ==
  /\ on
  /\ on' = FALSE
  /\ memory' = get_default_settings
  /\ copy' = get_default_settings
  /\ cmd' = Idle
  /\ masks' = [f \in Features |-> {}]
  /\ types' = {"recorder"}
  /\ comm' = [p \in Ports |-> Shipped]
  /\ line' = [p \in Ports |-> Closed]
  /\ selected' = 0
  /\ status' = "IDLE"
  /\ hw' = [rt |-> Shipped, debug |-> FALSE, mask |-> Shipped]
  /\ UNCHANGED <<file, label, sets, stores>>

-----------------------------------------------------------------------------
\* The .SET commands.

Ready == on /\ cmd = Idle

Assign(n, v) ==
  /\ sets < MaxSets
  /\ sets' = sets + 1
  /\ memory' = [memory EXCEPT !.value[n] = v]

SetPlain ==
  /\ Ready
  /\ \E n \in Plain, v \in Given : Assign(n, v)
  /\ UNCHANGED <<file, copy, cmd, masks, types, comm, line, selected, status, hw,
                 label, on, stores>>

\* Without a value the command shows the setting, and then stores a variable
\* it has not assigned.
SetVerbose ==
  /\ Ready
  /\ \E v \in Given \cup {Undefined} : Assign("Verbose", v)
  /\ UNCHANGED <<file, copy, cmd, masks, types, comm, line, selected, status, hw,
                 label, on, stores>>

\* So it is here; the register follows only ON and OFF.
SetOnTimeCal ==
  /\ Ready
  /\ \E v \in Given \cup {Undefined} :
       /\ Assign("TimeDebug", v)
       /\ hw' = IF v = Undefined THEN hw
                ELSE [hw EXCEPT !.debug = (v = Chosen)]
  /\ UNCHANGED <<file, copy, cmd, masks, types, comm, line, selected, status,
                 label, on, stores>>

\* The value is written over the register, and its debug bit.
SetOnTimeVal ==
  /\ Ready
  /\ \E v \in Given : Assign("OnTime", v)
  /\ hw' = [hw EXCEPT !.debug = FALSE]
  /\ UNCHANGED <<file, copy, cmd, masks, types, comm, line, selected, status,
                 label, on, stores>>

\* With a cartridge connected the volume name is given to it.
SetVolume ==
  /\ Ready
  /\ \E v \in Given : Assign("VolumeName", v)
  /\ label' = "VolumeName"
  /\ UNCHANGED <<file, copy, cmd, masks, types, comm, line, selected, status, hw,
                 on, stores>>

\* The name of the unit too is given to the cartridge as its volume name.
SetUnitName ==
  /\ Ready
  /\ \E v \in Given : Assign("UnitName", v)
  /\ label' = "UnitName"
  /\ UNCHANGED <<file, copy, cmd, masks, types, comm, line, selected, status, hw,
                 on, stores>>

\* Without a value the setting is shown, and the undefined one programmed.
SetRtAddr ==
  /\ Ready
  /\ \E v \in Given \cup {Undefined} :
       /\ Assign("RemoteTerminal", v)
       /\ hw' = [hw EXCEPT !.rt = ProgramRT(v, memory)]
  /\ UNCHANGED <<file, copy, cmd, masks, types, comm, line, selected, status,
                 label, on, stores>>

SetSsric ==
  /\ Ready
  /\ \E v \in Given \cup {Undefined} : Assign("Ssric", v)
  /\ UNCHANGED <<file, copy, cmd, masks, types, comm, line, selected, status, hw,
                 label, on, stores>>

\* .SET LIVEVID, and .SET TMOUT for the F16
SetLiveVid ==
  /\ Ready
  /\ status # "PLAY"
  /\ \E v \in Given : Assign("LiveVid", v)
  /\ UNCHANGED <<file, copy, cmd, masks, types, comm, line, selected, status, hw,
                 label, on, stores>>

SetSerial ==
  /\ Ready
  /\ \E n \in {"Serial1", "Serial2"}, v \in Given \cup {Undefined} :
       Assign(n, v)
  /\ UNCHANGED <<file, copy, cmd, masks, types, comm, line, selected, status, hw,
                 label, on, stores>>

\* .SET TEMP asks for every board in turn: when a value is refused, those
\* given before it stay.
SetTempValues ==
  /\ Ready
  /\ Assign("TempAndPower", Chosen)
  /\ UNCHANGED <<file, copy, cmd, masks, types, comm, line, selected, status, hw,
                 label, on, stores>>

\* .SET POWER asks in the same way and refuses nothing.
SetPowerValues ==
  /\ Ready
  /\ Assign("TempAndPower", Chosen)
  /\ UNCHANGED <<file, copy, cmd, masks, types, comm, line, selected, status, hw,
                 label, on, stores>>

SetTimeMaskRaw ==
  /\ Ready
  /\ Assign("TimeMask", "raw")
  /\ hw' = [hw EXCEPT !.mask = "raw"]
  /\ UNCHANGED <<file, copy, cmd, masks, types, comm, line, selected, status,
                 label, on, stores>>

\* The upper bits of the mask are always set.
SetTimeMask ==
  /\ Ready
  /\ \E v \in Given :
       /\ Assign("TimeMask", v)
       /\ hw' = [hw EXCEPT !.mask = v]
  /\ UNCHANGED <<file, copy, cmd, masks, types, comm, line, selected, status,
                 label, on, stores>>

SetConfig ==
  /\ Ready
  /\ sets < MaxSets
  /\ \E c \in Configs : memory' = [memory EXCEPT !.Config = c]
  /\ sets' = sets + 1
  /\ UNCHANGED <<file, copy, cmd, masks, types, comm, line, selected, status, hw,
                 label, on, stores>>

\* A rate is rounded down to one there is.  Six values are expected, the number of
\* the port among them; with five the flow control is not assigned, with four the
\* stop bits are not either, and are refused unless they happen to be right.
GetComSettings(values) ==
  CASE values = 6 -> Given
    [] values = 5 -> {Undefined}
    [] values = 4 -> {Undefined, "refused"}
    [] OTHER -> {"refused"}

\* (What .ASSIGN and .DECLASSIFY left for later commands is forgotten then; those
\* commands are not part of this module.)
SetCom ==
  /\ Ready
  /\ sets < MaxSets
  /\ \E p \in Ports, values \in 3..6 : \E c \in GetComSettings(values) :
       /\ c # "refused"
       /\ comm' = [comm EXCEPT ![p] = c]
  /\ line' = CmdAsciiInitialize(comm')
  /\ sets' = sets + 1
  /\ UNCHANGED <<memory, file, copy, cmd, masks, types, selected, status, hw,
                 label, on, stores>>

\* The health thread trains the clock when a carrier does not come to sync, and so
\* does .SET DAC: a binary search by the clock's marks, which leaves the middle of
\* the two ends found.
TrainTimeCode ==
  /\ on
  /\ memory' = [memory EXCEPT !.value["DAC1"] = Chosen]
  /\ UNCHANGED <<file, copy, cmd, masks, types, comm, line, selected, status, hw,
                 label, on, sets, stores>>

\* A recording or a playback starts or ends.
Recorder ==
  /\ Ready
  /\ status' \in IF status \in {"IDLE", "ERROR"} THEN {"RECORD", "PLAY"}
                                                 ELSE {"IDLE"}
  /\ UNCHANGED <<memory, file, copy, cmd, masks, types, comm, line, selected, hw,
                 label, on, sets, stores>>

-----------------------------------------------------------------------------
\* Storing.

\* settings_Update: the file is opened without being truncated and written
\* over in one piece.
settings_UpdateStale == [memory EXCEPT !.Setup = selected, !.CommConfig = comm]

settings_Update ==
  [memory EXCEPT !.Setup = selected,
                 !.Critical = FeaturesCritical,
                 !.CommConfig = comm]

CmdSave ==
  /\ Ready
  /\ memory' = settings_Update
  /\ file' = Whole(memory')
  /\ UNCHANGED <<copy, cmd, masks, types, comm, line, selected, status, hw, label,
                 on, sets, stores>>

\* M23_Setup: refused while the recorder is busy.
M23_Setup(n) ==
  IF status = "PLAY" THEN UNCHANGED <<types, status, hw>>
  ELSE /\ types' \in FeaturesOf(n, memory)
       /\ IF n \in GoodSetups
          THEN /\ status' = "IDLE"
               /\ hw' = [hw EXCEPT !.mask = M23_WriteTimeCodeOffset(memory)]
          ELSE /\ status' = "ERROR"
               /\ UNCHANGED hw

\* .SETUP: a number that is refused, or whose setup fails, is selected all
\* the same; only one that works is stored.
CmdSetup ==
  /\ Ready
  /\ status # "RECORD"
  /\ stores < MaxStores
  /\ stores' = stores + 1
  /\ \E n \in GoodSetups \cup BadSetups :
       /\ M23_Setup(n)
       /\ selected' = n
       /\ cmd' = IF status # "PLAY" /\ n \in GoodSetups
                 THEN [op |-> "Setup", at |-> "read"] ELSE cmd
  /\ UNCHANGED <<memory, file, copy, masks, comm, line, label, on, sets>>

\* The recorder has to be idle, and is idle again after an error.
CriticalSet(f, mask) ==
  /\ status \in {"IDLE", "ERROR"}
  /\ masks' = [masks EXCEPT ![f] = mask]
  /\ status' = "IDLE"

\* .CRITICAL n mask
CmdCritical ==
  /\ Ready
  /\ stores < MaxStores
  /\ stores' = stores + 1
  /\ \E f \in Features, own \in {{}, {"other"}} :
       CriticalSet(f, own \cup IF f = "recorder" /\ memory.Config # "B1B"
                               THEN {"memory"} ELSE {})
  /\ cmd' = [op |-> "Critical", at |-> "read"]
  /\ UNCHANGED <<memory, file, copy, types, comm, line, selected, hw, label, on,
                 sets>>

\* The mean of ten readings, one a second
M23_SetTimeCodeOffset == Assign("TimeCodeOffset", Chosen)

\* .SET DRIFTCAL, when the time code is in sync
SetDriftcal ==
  /\ Ready
  /\ M23_SetTimeCodeOffset
  /\ cmd' = [op |-> "Driftcal", at |-> "read"]
  /\ UNCHANGED <<file, copy, masks, types, comm, line, selected, status, hw, label,
                 on, stores>>

\* The three that store at once read the file,
StoreRead ==
  /\ on /\ cmd.at = "read"
  /\ copy' = file.settings
  /\ cmd' = [cmd EXCEPT !.at = "open"]
  /\ UNCHANGED <<memory, file, masks, types, comm, line, selected, status, hw,
                 label, on, sets, stores>>

\* open it again for writing, which empties it,
StoreOpen ==
  /\ on /\ cmd.at = "open"
  /\ file' = Cut
  /\ cmd' = [cmd EXCEPT !.at = "write"]
  /\ UNCHANGED <<memory, copy, masks, types, comm, line, selected, status, hw,
                 label, on, sets, stores>>

\* and write the copy back with their own change.
Setup_SaveMemory == [memory EXCEPT !.Setup = selected]

Setup_Save == [copy EXCEPT !.Setup = selected]

Critical_Save == [copy EXCEPT !.Critical = FeaturesCritical]

SaveDriftcal(m) ==
  [copy EXCEPT !.value["TimeCodeOffset"] = memory.value["TimeCodeOffset"],
               !.value["Multiplier"] = m]

StoreWrite ==
  /\ on /\ cmd.at = "write"
  /\ \/ /\ cmd.op = "Setup"
        /\ file' = Whole(Setup_Save)
        /\ UNCHANGED memory
     \/ /\ cmd.op = "Critical"
        /\ file' = Whole(Critical_Save)
        /\ UNCHANGED memory
     \/ /\ cmd.op = "Driftcal"
        /\ \E m \in Given :
             /\ memory' = [memory EXCEPT !.value["Multiplier"] = m]
             /\ file' = Whole(SaveDriftcal(m))
  /\ cmd' = Idle
  /\ copy' = get_default_settings
  /\ UNCHANGED <<masks, types, comm, line, selected, status, hw, label, on, sets,
                 stores>>

Set ==
  \/ SetPlain \/ SetVerbose \/ SetOnTimeCal \/ SetOnTimeVal \/ SetVolume
  \/ SetUnitName \/ SetRtAddr \/ SetSsric \/ SetLiveVid \/ SetSerial
  \/ SetTempValues \/ SetPowerValues \/ SetTimeMask \/ SetConfig \/ SetCom

Next ==
  \/ PowerUp \/ PowerFails
  \/ Set \/ TrainTimeCode \/ Recorder
  \/ CmdSave \/ CmdSetup \/ CmdCritical \/ SetDriftcal
  \/ StoreRead \/ StoreOpen \/ StoreWrite

\* The unit is switched on again, and a command that stores goes on to its
\* end while the power lasts.
Fairness ==
  /\ WF_vars(PowerUp)
  /\ WF_vars(StoreRead) /\ WF_vars(StoreOpen) /\ WF_vars(StoreWrite)

Spec == Init /\ [][Next]_vars /\ Fairness

-----------------------------------------------------------------------------
\* The variables have their types.
TypeOK ==
  /\ memory \in SYSTEM_SETTINGS
  /\ file.state \in {"absent", "cut", "whole"}
  /\ file.settings \in SYSTEM_SETTINGS
  /\ copy \in SYSTEM_SETTINGS
  /\ cmd \in [op : {"none", "Setup", "Critical", "Driftcal"},
              at : {"none", "read", "open", "write"}]
  /\ masks \in [Features -> SUBSET {"memory", "other"}]
  /\ types \subseteq Features
  /\ comm \in [Ports -> ComSettings] /\ line \in [Ports -> ComSettings \cup {Closed}]
  /\ selected \in GoodSetups \cup BadSetups \cup {0}
  /\ status \in {"IDLE", "ERROR", "RECORD", "PLAY"}
  /\ hw \in [rt : Given \cup {Undefined}, debug : BOOLEAN,
             mask : Given \cup {Undefined}]
  /\ label \in {"VolumeName", "UnitName"}
  /\ on \in BOOLEAN
  /\ sets \in 0..MaxSets
  /\ stores \in 0..MaxStores

\* What .SAVE writes is what the recorder runs with when the power comes back:
\* the settings, the serial ports, the setup if it is one that works, and the
\* critical bits of the features the setup has (settings_Update against
\* restore_settings, which opens the ports anew).
SavedComesBack ==
  [][/\ CmdSave =>
         LET s == file'.settings
         IN /\ s.value = memory.value /\ s.Config = memory.Config
            /\ s.CommConfig = line
            /\ selected \in GoodSetups => s.Setup = selected
            /\ \A f \in types : masks[f] \subseteq restore_settings(s)[f]
     /\ PowerUp => memory' = file'.settings /\ line' = file'.settings.CommConfig]_vars

\* The settings the file holds, or will hold when a command has written back
\* the copy it read.
Stored == IF cmd.at = "write" THEN copy ELSE file.settings

\* A setting that was changed but not saved does not reach the file with
\* another command's change, and a saved one is not taken back: while the power
\* is on only .SAVE changes the settings stored, apart from the time code
\* offset (Setup_Save, Critical_Save and SaveDriftcal).
UnsavedStaysOut ==
  [][on /\ on' /\ ~CmdSave =>
       /\ Stored'.Config = Stored.Config
       /\ Stored'.CommConfig = Stored.CommConfig
       /\ \A n \in Names \ {"TimeCodeOffset", "Multiplier"} :
            Stored'.value[n] = Stored.value[n]]_vars

\* A settings file that was cut short is whole again in the end: its command
\* finishes it, or the next start replaces it (settings_Initialize).
FileMended == (file.state = "cut") ~> (file.state = "whole")
=============================================================================
