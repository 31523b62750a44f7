--------------------------- MODULE Settings_proofs ---------------------------
(***************************************************************************)
(* Proofs about Settings, for any setups and configurations, any number of *)
(* commands, and a power failure between any two steps; and about the      *)
(* setup files (Setups), for any texts and any number of commands.         *)
(***************************************************************************)
EXTENDS Settings, Setups, FiniteSetTheorems, WellFoundedInduction, TLAPS

Masks == [Features -> SUBSET {"memory", "other"}]
Registers == [rt : ComSettings, debug : BOOLEAN, mask : ComSettings]
Commands == [op : {"none", "Setup", "Critical", "Driftcal"},
             at : {"none", "read", "open", "write"}]

-----------------------------------------------------------------------------
(* What the operators on settings return.                                  *)

LEMMA HasNames ==
  /\ Plain \subseteq Names
  /\ {"Verbose", "TimeDebug", "OnTime", "VolumeName", "UnitName", "RemoteTerminal",
      "Ssric", "LiveVid", "Serial1", "Serial2", "TempAndPower", "TimeMask",
      "TimeCodeOffset", "Multiplier", "DAC1"} \subseteq Names
BY DEF Names, Special

LEMMA DefaultsAreSettings == get_default_settings \in SYSTEM_SETTINGS
<1>1. [n \in Names |-> Shipped] \in [Names -> Given \cup {Undefined}]
  BY DEF Given
<1>2. [f \in Features |-> {}] \in [Features -> SUBSET {"memory", "other"}]
  OBVIOUS
<1>3. [p \in Ports |-> Shipped] \in [Ports -> ComSettings]
  BY DEF ComSettings, Given
<1>4. "F15" \in Configs /\ 1 \in GoodSetups \cup BadSetups
  BY SetupsAssumption DEF Configs
<1>5. QED
  BY <1>1, <1>2, <1>3, <1>4 DEF get_default_settings, SYSTEM_SETTINGS

\* A setting given a value leaves the others as they are.
LEMMA ValueGiven ==
  ASSUME NEW s \in SYSTEM_SETTINGS, NEW n \in Names, NEW v \in ComSettings
  PROVE  LET t == [s EXCEPT !.value[n] = v]
         IN /\ t \in SYSTEM_SETTINGS
            /\ t.Config = s.Config /\ t.CommConfig = s.CommConfig
            /\ \A k \in Names \ {n} : t.value[k] = s.value[k]
BY DEF SYSTEM_SETTINGS, ComSettings

LEMMA Restored ==
  ASSUME NEW s \in SYSTEM_SETTINGS
  PROVE  restore_settings(s) \in Masks
BY DEF SYSTEM_SETTINGS, restore_settings, Masks

LEMMA FeaturesAreFeatures ==
  ASSUME NEW n, NEW s, NEW t \in FeaturesOf(n, s)
  PROVE  t \subseteq Features
BY DEF FeaturesOf, Features

-----------------------------------------------------------------------------
(* The type invariant.                                                     *)

LEMMA AssignTypes ==
  ASSUME TypeOK, NEW n \in Names, NEW v \in ComSettings, Assign(n, v)
  PROVE  memory' \in SYSTEM_SETTINGS /\ sets' \in 0..MaxSets
<1>1. memory' \in SYSTEM_SETTINGS
  BY ValueGiven DEF Assign, TypeOK
<1>2. sets' \in 0..MaxSets
  BY SetupsAssumption DEF Assign, TypeOK
<1>3. QED
  BY <1>1, <1>2

\* Whatever a .SET command changes, the file and the copy stay.
LEMMA SetChanges ==
  ASSUME TypeOK, Set
  PROVE  /\ UNCHANGED <<file, copy, cmd, masks, types, selected, status, on, stores>>
         /\ memory' \in SYSTEM_SETTINGS /\ sets' \in 0..MaxSets
         /\ comm' \in [Ports -> ComSettings]
         /\ line' \in [Ports -> ComSettings \cup {Closed}]
         /\ hw' \in Registers /\ label' \in {"VolumeName", "UnitName"}
<1>1. /\ hw \in Registers /\ comm \in [Ports -> ComSettings]
      /\ line \in [Ports -> ComSettings \cup {Closed}]
      /\ label \in {"VolumeName", "UnitName"} /\ memory \in SYSTEM_SETTINGS
      /\ sets \in 0..MaxSets
  BY DEF TypeOK, Registers, ComSettings
<1>2. Given \subseteq ComSettings /\ Chosen \in ComSettings /\ Given \cup {Undefined} = ComSettings
  BY DEF ComSettings, Given
<1>3. CASE SetPlain \/ SetVerbose \/ SetSsric \/ SetLiveVid \/ SetSerial \/ SetTempValues
           \/ SetPowerValues \/ SetVolume \/ SetUnitName
  <2>1. /\ UNCHANGED <<file, copy, cmd, masks, types, comm, line, selected, status, hw, on,
                       stores>>
        /\ label' \in {"VolumeName", "UnitName"}
    BY <1>1, <1>3 DEF SetPlain, SetVerbose, SetSsric, SetLiveVid, SetSerial, SetTempValues,
                      SetPowerValues, SetVolume, SetUnitName
  <2>2. PICK n \in Names, v \in ComSettings : Assign(n, v)
    BY <1>2, <1>3, HasNames DEF SetPlain, SetVerbose, SetSsric, SetLiveVid, SetSerial,
                      SetTempValues, SetPowerValues, SetVolume, SetUnitName
  <2>3. memory' \in SYSTEM_SETTINGS /\ sets' \in 0..MaxSets
    BY <2>2, AssignTypes
  <2>4. QED
    BY <1>1, <2>1, <2>3
<1>4. CASE SetOnTimeCal \/ SetOnTimeVal \/ SetRtAddr \/ SetTimeMask
  <2>1. UNCHANGED <<file, copy, cmd, masks, types, comm, line, selected, status, label, on,
                    stores>>
    BY <1>4 DEF SetOnTimeCal, SetOnTimeVal, SetRtAddr, SetTimeMask
  <2>2. PICK n \in Names, v \in ComSettings : Assign(n, v)
    BY <1>2, <1>4, HasNames DEF SetOnTimeCal, SetOnTimeVal, SetRtAddr, SetTimeMask
  <2>3. memory' \in SYSTEM_SETTINGS /\ sets' \in 0..MaxSets
    BY <2>2, AssignTypes
  <2>4. hw' \in Registers
    <3>1. PICK w \in ComSettings :
            \/ hw' = hw
            \/ hw' = [hw EXCEPT !.debug = (w = Chosen)]
            \/ hw' = [hw EXCEPT !.debug = FALSE]
            \/ hw' = [hw EXCEPT !.rt = ProgramRT(w, memory)]
            \/ hw' = [hw EXCEPT !.mask = w]
      BY <1>2, <1>4, Zenon DEF SetOnTimeCal, SetOnTimeVal, SetRtAddr, SetTimeMask
    <3>2. ProgramRT(w, memory) \in ComSettings
      BY <1>1 DEF ProgramRT, Registers
    <3>3. (w = Chosen) \in BOOLEAN
      OBVIOUS
    <3>4. QED
      BY <1>1, <3>1, <3>2, <3>3 DEF Registers
  <2>5. QED
    BY <1>1, <2>1, <2>3, <2>4
<1>5. CASE SetConfig
  <2>1. PICK c \in Configs : memory' = [memory EXCEPT !.Config = c]
    BY <1>5 DEF SetConfig
  <2>2. memory' \in SYSTEM_SETTINGS
    BY <1>1, <2>1 DEF SYSTEM_SETTINGS
  <2>3. QED
    BY <1>1, <1>5, <2>2, SetupsAssumption DEF SetConfig
<1>6. CASE SetCom
  <2>1. PICK p \in Ports, values \in 3..6 : \E c \in GetComSettings(values) :
          c # "refused" /\ comm' = [comm EXCEPT ![p] = c]
    BY <1>6 DEF SetCom
  <2>2. PICK c \in ComSettings : comm' = [comm EXCEPT ![p] = c]
    BY <1>2, <2>1 DEF GetComSettings, ComSettings
  <2>3. comm' \in [Ports -> ComSettings]
    BY <1>1, <2>2
  <2>4. line' \in [Ports -> ComSettings \cup {Closed}]
    BY <1>6, <2>3 DEF SetCom, CmdAsciiInitialize, SerialPortInitialize
  <2>5. sets' \in 0..MaxSets
    BY <1>1, <1>6, SetupsAssumption DEF SetCom
  <2>6. UNCHANGED <<memory, file, copy, cmd, masks, types, selected, status, hw, label, on, stores>>
    BY <1>6 DEF SetCom
  <2>7. QED
    BY <1>1, <2>3, <2>4, <2>5, <2>6
<1>7. QED
  BY <1>3, <1>4, <1>5, <1>6 DEF Set

\* What the file holds when the power comes on has its type.
LEMMA StartTypes ==
  ASSUME TypeOK, PowerUp
  PROVE  TypeOK'
<1>1. PICK s \in SYSTEM_SETTINGS :
        /\ memory' = s /\ file' = Whole(s)
        /\ masks' = restore_settings(s)
        /\ comm' = s.CommConfig /\ line' = CmdAsciiInitialize(comm')
        /\ InitialSetup(s)
        /\ hw' = [rt |-> InitialRT(s), debug |-> M23_ProgramTimeValues,
                  mask |-> M23_WriteTimeCodeOffset(s)]
  <2>1. settings_Initialize \in SYSTEM_SETTINGS
    BY DefaultsAreSettings DEF settings_Initialize, TypeOK
  <2>2. QED
    BY <2>1, Zenon DEF PowerUp
<1>2. masks' \in Masks
  BY <1>1, Restored
<1>3. comm' \in [Ports -> ComSettings] /\ line' \in [Ports -> ComSettings \cup {Closed}]
  BY <1>1 DEF SYSTEM_SETTINGS, CmdAsciiInitialize, SerialPortInitialize
<1>4. types' \subseteq Features /\ selected' \in GoodSetups \cup BadSetups \cup {0}
  BY <1>1, FeaturesAreFeatures DEF InitialSetup
<1>5. hw' \in [rt : Given \cup {Undefined}, debug : BOOLEAN, mask : Given \cup {Undefined}]
  <2>1. s.value["RemoteTerminal"] \in Given \cup {Undefined}
        /\ s.value["TimeMask"] \in Given \cup {Undefined}
    BY HasNames DEF SYSTEM_SETTINGS
  <2>2. hw.rt \in Given \cup {Undefined}
    BY DEF TypeOK
  <2>3. InitialRT(s) \in Given \cup {Undefined}
    BY <2>1, <2>2 DEF InitialRT, ProgramRT
  <2>4. QED
    BY <1>1, <2>1, <2>3 DEF M23_ProgramTimeValues, M23_WriteTimeCodeOffset
<1>6. /\ file'.state \in {"absent", "cut", "whole"} /\ file'.settings \in SYSTEM_SETTINGS
      /\ memory' \in SYSTEM_SETTINGS
  BY <1>1 DEF Whole
<1>7. /\ on' = TRUE /\ label' = "VolumeName" /\ status' = "IDLE" /\ cmd' = Idle
      /\ UNCHANGED <<copy, sets, stores>>
  BY DEF PowerUp
<1>8. QED
  BY <1>2, <1>3, <1>4, <1>5, <1>6, <1>7 DEF TypeOK, Idle, Masks

LEMMA PowerFailsTypes ==
  ASSUME TypeOK, PowerFails
  PROVE  TypeOK'
BY DefaultsAreSettings DEF PowerFails, TypeOK, Idle, ComSettings, Given, Features

LEMMA SetTypes ==
  ASSUME TypeOK, Set
  PROVE  TypeOK'
BY SetChanges DEF TypeOK, Registers, ComSettings

LEMMA SaveTypes ==
  ASSUME TypeOK, CmdSave
  PROVE  TypeOK'
<1>1. FeaturesCritical \in Masks
  BY DEF FeaturesCritical, TypeOK, Masks
<1>2. settings_Update \in SYSTEM_SETTINGS
  BY <1>1, SetupsAssumption DEF settings_Update, SYSTEM_SETTINGS, TypeOK, Masks
<1>3. memory' = settings_Update /\ file' = Whole(settings_Update)
  BY DEF CmdSave
<1>4. UNCHANGED <<copy, cmd, masks, types, comm, line, selected, status, hw, label, on,
                  sets, stores>>
  BY DEF CmdSave
<1>5. QED
  BY <1>2, <1>3, <1>4 DEF TypeOK, Whole

LEMMA SetupTypes ==
  ASSUME TypeOK, CmdSetup
  PROVE  TypeOK'
<1>1. PICK n \in GoodSetups \cup BadSetups :
        /\ M23_Setup(n) /\ selected' = n
        /\ cmd' \in {cmd, [op |-> "Setup", at |-> "read"]}
  BY DEF CmdSetup
<1>2. /\ types' \subseteq Features /\ status' \in {"IDLE", "ERROR", "RECORD", "PLAY"}
      /\ hw' \in [rt : Given \cup {Undefined}, debug : BOOLEAN, mask : Given \cup {Undefined}]
  <2>1. memory.value["TimeMask"] \in Given \cup {Undefined}
    BY HasNames DEF TypeOK, SYSTEM_SETTINGS
  <2>2. CASE status = "PLAY"
    BY <1>1, <2>2 DEF M23_Setup, TypeOK
  <2>3. CASE status # "PLAY"
    <3>1. types' \in FeaturesOf(n, memory)
      BY <1>1, <2>3 DEF M23_Setup
    <3>2. /\ status' \in {"IDLE", "ERROR"}
          /\ hw' \in {hw, [hw EXCEPT !.mask = memory.value["TimeMask"]]}
      BY <1>1, <2>3 DEF M23_Setup, M23_WriteTimeCodeOffset
    <3>3. QED
      BY <2>1, <3>1, <3>2, FeaturesAreFeatures DEF TypeOK
  <2>4. QED
    BY <2>2, <2>3
<1>3. stores' \in 0..MaxStores
  BY SetupsAssumption DEF CmdSetup, TypeOK
<1>4. UNCHANGED <<memory, file, copy, masks, comm, line, label, on, sets>>
  BY DEF CmdSetup
<1>5. QED
  BY <1>1, <1>2, <1>3, <1>4 DEF TypeOK

LEMMA CriticalTypes ==
  ASSUME TypeOK, CmdCritical
  PROVE  TypeOK'
<1>1. PICK f \in Features, mask \in SUBSET {"memory", "other"} : CriticalSet(f, mask)
  BY DEF CmdCritical
<1>2. masks' \in Masks /\ status' = "IDLE"
  BY <1>1 DEF CriticalSet, TypeOK, Masks
<1>3. stores' \in 0..MaxStores
  BY SetupsAssumption DEF CmdCritical, TypeOK
<1>4. /\ UNCHANGED <<memory, file, copy, types, comm, line, selected, hw, label, on, sets>>
      /\ cmd' = [op |-> "Critical", at |-> "read"]
  BY DEF CmdCritical
<1>5. QED
  BY <1>2, <1>3, <1>4 DEF TypeOK, Masks

LEMMA DriftcalTypes ==
  ASSUME TypeOK, SetDriftcal
  PROVE  TypeOK'
<1>1. memory' \in SYSTEM_SETTINGS /\ sets' \in 0..MaxSets
  BY AssignTypes, HasNames DEF SetDriftcal, M23_SetTimeCodeOffset, ComSettings, Given
<1>2. /\ UNCHANGED <<file, copy, masks, types, comm, line, selected, status, hw, label, on,
                     stores>>
      /\ cmd' = [op |-> "Driftcal", at |-> "read"]
  BY DEF SetDriftcal
<1>3. QED
  BY <1>1, <1>2 DEF TypeOK

\* What a command writes back is the copy with its own change.
LEMMA Written ==
  ASSUME TypeOK, StoreWrite
  PROVE  /\ file'.state = "whole" /\ file'.settings \in SYSTEM_SETTINGS
         /\ memory' \in SYSTEM_SETTINGS
         /\ file'.settings.Config = copy.Config
         /\ file'.settings.CommConfig = copy.CommConfig
         /\ \A n \in Names \ {"TimeCodeOffset", "Multiplier"} :
              file'.settings.value[n] = copy.value[n]
<1> USE DEF Whole
<1>1. copy \in SYSTEM_SETTINGS /\ memory \in SYSTEM_SETTINGS
  BY DEF TypeOK
<1>2. CASE file' = Whole(Setup_Save) /\ UNCHANGED memory
  BY <1>1, <1>2, SetupsAssumption DEF Setup_Save, SYSTEM_SETTINGS, TypeOK
<1>3. CASE file' = Whole(Critical_Save) /\ UNCHANGED memory
  <2>1. FeaturesCritical \in Masks
    BY DEF FeaturesCritical, TypeOK, Masks
  <2>2. QED
    BY <1>1, <1>3, <2>1 DEF Critical_Save, SYSTEM_SETTINGS, Masks
<1>4. ASSUME NEW m \in Given, memory' = [memory EXCEPT !.value["Multiplier"] = m],
             file' = Whole(SaveDriftcal(m))
      PROVE  /\ file'.state = "whole" /\ file'.settings \in SYSTEM_SETTINGS
             /\ memory' \in SYSTEM_SETTINGS
             /\ file'.settings.Config = copy.Config
             /\ file'.settings.CommConfig = copy.CommConfig
             /\ \A n \in Names \ {"TimeCodeOffset", "Multiplier"} :
                  file'.settings.value[n] = copy.value[n]
  <2>1. m \in ComSettings /\ memory.value["TimeCodeOffset"] \in ComSettings
    BY <1>1, HasNames DEF SYSTEM_SETTINGS, ComSettings
  <2>2. memory' \in SYSTEM_SETTINGS
    BY <1>1, <1>4, <2>1, HasNames, ValueGiven
  <2> DEFINE t == [copy EXCEPT !.value["TimeCodeOffset"] = memory.value["TimeCodeOffset"]]
             u == [t EXCEPT !.value["Multiplier"] = m]
  <2>3. /\ t \in SYSTEM_SETTINGS /\ t.Config = copy.Config /\ t.CommConfig = copy.CommConfig
        /\ \A n \in Names \ {"TimeCodeOffset"} : t.value[n] = copy.value[n]
    BY <1>1, <2>1, HasNames, ValueGiven
  <2>4. file' = Whole(u)
    BY <1>4 DEF SaveDriftcal
  <2> HIDE DEF t
  <2>5. /\ u \in SYSTEM_SETTINGS /\ u.Config = t.Config /\ u.CommConfig = t.CommConfig
        /\ \A n \in Names \ {"Multiplier"} : u.value[n] = t.value[n]
    BY <2>1, <2>3, HasNames, ValueGiven
  <2> HIDE DEF u
  <2>6. QED
    BY <2>2, <2>3, <2>4, <2>5
<1>5. QED
  BY <1>2, <1>3, <1>4, Zenon DEF StoreWrite

LEMMA StoreTypes ==
  ASSUME TypeOK, StoreRead \/ StoreOpen \/ StoreWrite
  PROVE  TypeOK'
<1>1. CASE StoreRead
  BY <1>1 DEF StoreRead, TypeOK
<1>2. CASE StoreOpen
  BY <1>2, DefaultsAreSettings DEF StoreOpen, Cut, TypeOK
<1>3. CASE StoreWrite
  <2>1. /\ file'.state = "whole" /\ file'.settings \in SYSTEM_SETTINGS
        /\ memory' \in SYSTEM_SETTINGS
    BY <1>3, Written
  <2>2. /\ UNCHANGED <<masks, types, comm, line, selected, status, hw, label, on, sets, stores>>
        /\ cmd' = Idle /\ copy' = get_default_settings
    BY <1>3 DEF StoreWrite
  <2>3. QED
    BY <2>1, <2>2, DefaultsAreSettings DEF TypeOK, Idle
<1>4. QED
  BY <1>1, <1>2, <1>3

LEMMA OtherTypes ==
  ASSUME TypeOK, TrainTimeCode \/ Recorder \/ UNCHANGED vars
  PROVE  TypeOK'
<1>1. CASE TrainTimeCode
  <2>1. memory' \in SYSTEM_SETTINGS
    BY <1>1, HasNames, ValueGiven DEF TrainTimeCode, TypeOK, ComSettings, Given
  <2>2. QED
    BY <1>1, <2>1 DEF TrainTimeCode, TypeOK
<1>2. CASE Recorder
  BY <1>2 DEF Recorder, TypeOK
<1>3. CASE UNCHANGED vars
  BY <1>3 DEF vars, TypeOK
<1>4. QED
  BY <1>1, <1>2, <1>3

LEMMA InitTypes == Init => TypeOK
<1> SUFFICES ASSUME Init
             PROVE  TypeOK
  OBVIOUS
<1>1. file.state \in {"absent", "cut", "whole"} /\ file.settings \in SYSTEM_SETTINGS
  <2>1. CASE file = Absent
    BY <2>1, DefaultsAreSettings DEF Absent
  <2>2. CASE file # Absent
    <3>1. PICK c \in Configs : file = Whole([get_default_settings EXCEPT !.Config = c])
      BY <2>2, ConfigsAssumption DEF Init
    <3>2. [get_default_settings EXCEPT !.Config = c] \in SYSTEM_SETTINGS
      BY DefaultsAreSettings DEF SYSTEM_SETTINGS
    <3>3. QED
      BY <3>1, <3>2 DEF Whole
  <2>3. QED
    BY <2>1, <2>2
<1>2. memory \in SYSTEM_SETTINGS /\ copy \in SYSTEM_SETTINGS
  BY DefaultsAreSettings DEF Init
<1>3. /\ masks \in [Features -> SUBSET {"memory", "other"}] /\ types \subseteq Features
      /\ comm \in [Ports -> ComSettings] /\ line \in [Ports -> ComSettings \cup {Closed}]
  BY DEF Init, Features, ComSettings, Given
<1>4. /\ hw \in [rt : Given \cup {Undefined}, debug : BOOLEAN, mask : Given \cup {Undefined}]
      /\ cmd \in Commands /\ selected = 0 /\ status = "IDLE" /\ label = "VolumeName"
      /\ on = FALSE
  BY DEF Init, Idle, Given, Commands
<1>5. sets \in 0..MaxSets /\ stores \in 0..MaxStores
  BY SetupsAssumption DEF Init
<1>6. QED
  BY <1>1, <1>2, <1>3, <1>4, <1>5 DEF TypeOK, Commands

\* The settings in memory, in the file and in the copy of a command keep their types,
\* for any setups (TypeOK of Settings).
THEOREM TypeCorrect == Spec => []TypeOK
<1>1. TypeOK /\ [Next]_vars => TypeOK'
  BY StartTypes, PowerFailsTypes, SetTypes, SaveTypes, SetupTypes, CriticalTypes,
     DriftcalTypes, StoreTypes, OtherTypes, Zenon DEF Next
<1>2. QED
  BY <1>1, InitTypes, PTL DEF Spec

-----------------------------------------------------------------------------
(* What another command stores.                                            *)

\* Between its reading and its opening the file, a command has what the file holds.
CopyIsFile == cmd.at = "open" => copy = file.settings

\* The settings a command other than .SAVE leaves alone.
SameStored ==
  /\ Stored'.Config = Stored.Config
  /\ Stored'.CommConfig = Stored.CommConfig
  /\ \A n \in Names \ {"TimeCodeOffset", "Multiplier"} :
       Stored'.value[n] = Stored.value[n]

LEMMA StoreKeeps ==
  ASSUME TypeOK, CopyIsFile, StoreRead \/ StoreOpen \/ StoreWrite
  PROVE  CopyIsFile' /\ SameStored
<1>1. CASE StoreRead
  BY <1>1 DEF StoreRead, CopyIsFile, SameStored, Stored, TypeOK
<1>2. CASE StoreOpen
  BY <1>2 DEF StoreOpen, CopyIsFile, SameStored, Stored, TypeOK
<1>3. CASE StoreWrite
  <2>1. cmd.at = "write" /\ cmd' = Idle
    BY <1>3 DEF StoreWrite
  <2>2. Stored = copy /\ Stored' = file'.settings /\ CopyIsFile'
    BY <2>1 DEF Stored, Idle, CopyIsFile
  <2>3. QED
    BY <1>3, <2>2, Written DEF SameStored
<1>4. QED
  BY <1>1, <1>2, <1>3

\* The others begin no store before the one under way has ended, and leave the file.
LEMMA OthersKeep ==
  ASSUME TypeOK, CopyIsFile,
         Set \/ TrainTimeCode \/ Recorder \/ CmdSetup \/ CmdCritical \/ SetDriftcal
           \/ UNCHANGED vars
  PROVE  CopyIsFile' /\ SameStored
<1>1. UNCHANGED <<file, copy>>
  BY SetChanges DEF TrainTimeCode, Recorder, CmdSetup, CmdCritical, SetDriftcal, vars
<1>2. cmd' = cmd \/ (cmd.at = "none" /\ cmd'.at = "read")
  BY SetChanges DEF TrainTimeCode, Recorder, CmdSetup, CmdCritical, SetDriftcal, vars,
                    Ready, Idle
<1>3. QED
  BY <1>1, <1>2 DEF CopyIsFile, SameStored, Stored

\* A setting changed but not saved does not reach the file with the change of .SETUP,
\* .CRITICAL or the drift calibration, and a saved one is not taken back: for any
\* number of commands and power failures (UnsavedStaysOut of Settings).
THEOREM OnlySaveStores == Spec => UnsavedStaysOut
<1>1. Init => CopyIsFile
  BY DEF Init, Idle, CopyIsFile
<1>2. ASSUME TypeOK, CopyIsFile, [Next]_vars
      PROVE  CopyIsFile' /\ (on /\ on' /\ ~CmdSave => SameStored)
  <2>1. CASE PowerUp
    BY <2>1 DEF PowerUp, Idle, CopyIsFile
  <2>2. CASE PowerFails
    BY <2>2 DEF PowerFails, Idle, CopyIsFile
  <2>3. CASE CmdSave
    BY <2>3 DEF CmdSave, Ready, Idle, CopyIsFile
  <2>4. CASE StoreRead \/ StoreOpen \/ StoreWrite
    BY <1>2, <2>4, StoreKeeps
  <2>5. CASE Set \/ TrainTimeCode \/ Recorder \/ CmdSetup \/ CmdCritical \/ SetDriftcal
               \/ UNCHANGED vars
    BY <1>2, <2>5, OthersKeep
  <2>6. QED
    BY <1>2, <2>1, <2>2, <2>3, <2>4, <2>5, Zenon DEF Next
<1>3. QED
  BY <1>1, <1>2, TypeCorrect, PTL DEF Spec, UnsavedStaysOut, SameStored

-----------------------------------------------------------------------------
(* What .SAVE stores.                                                      *)

\* While the power is on the ports are open with what Serial_Config says.
PortsAsSet == on => line = comm

LEMMA OpenedAsSet ==
  ASSUME NEW c \in [Ports -> ComSettings]
  PROVE  CmdAsciiInitialize(c) = c
BY DEF CmdAsciiInitialize, SerialPortInitialize

\* .SET COM opens both ports anew; the other commands touch neither.
LEMMA SetPorts ==
  ASSUME TypeOK, PortsAsSet, Set
  PROVE  PortsAsSet'
<1>1. CASE SetCom
  <2>1. comm' \in [Ports -> ComSettings] /\ line' = CmdAsciiInitialize(comm')
    BY <1>1, SetChanges DEF SetCom
  <2>2. QED
    BY <2>1, OpenedAsSet DEF PortsAsSet
<1>2. CASE ~SetCom
  <2>1. UNCHANGED <<comm, line, on>>
    BY <1>2 DEF Set, SetPlain, SetVerbose, SetOnTimeCal, SetOnTimeVal, SetVolume, SetUnitName,
                SetRtAddr, SetSsric, SetLiveVid, SetSerial, SetTempValues, SetPowerValues,
                SetTimeMask, SetConfig
  <2>2. QED
    BY <2>1 DEF PortsAsSet
<1>3. QED
  BY <1>1, <1>2

\* The power comes on with the settings of the file, and the ports with them.
LEMMA StartPorts ==
  ASSUME TypeOK, PowerUp
  PROVE  /\ PortsAsSet'
         /\ memory' = file'.settings /\ line' = file'.settings.CommConfig
<1>1. settings_Initialize \in SYSTEM_SETTINGS
  BY DefaultsAreSettings DEF settings_Initialize, TypeOK
<1>2. /\ memory' = settings_Initialize /\ file' = Whole(settings_Initialize)
      /\ comm' = settings_Initialize.CommConfig /\ line' = CmdAsciiInitialize(comm')
  BY DEF PowerUp
<1>3. comm' \in [Ports -> ComSettings]
  BY <1>1, <1>2 DEF SYSTEM_SETTINGS
<1>4. line' = comm'
  BY <1>2, <1>3, OpenedAsSet
<1>5. QED
  BY <1>2, <1>4 DEF PortsAsSet, Whole

LEMMA PortsStep == TypeOK /\ PortsAsSet /\ [Next]_vars => PortsAsSet'
<1> SUFFICES ASSUME TypeOK, PortsAsSet, [Next]_vars
             PROVE  PortsAsSet'
  OBVIOUS
<1>1. CASE PowerUp
  BY <1>1, StartPorts
<1>2. CASE PowerFails
  BY <1>2 DEF PowerFails, PortsAsSet
<1>3. CASE Set
  BY <1>3, SetPorts
<1>4. CASE \/ TrainTimeCode \/ Recorder \/ CmdSave \/ CmdSetup \/ CmdCritical \/ SetDriftcal
           \/ StoreRead \/ StoreOpen \/ StoreWrite \/ UNCHANGED vars
  <2>1. UNCHANGED <<comm, line, on>>
    BY <1>4 DEF TrainTimeCode, Recorder, CmdSave, CmdSetup, CmdCritical, SetDriftcal,
                StoreRead, StoreOpen, StoreWrite, vars
  <2>2. QED
    BY <2>1 DEF PortsAsSet
<1>5. QED
  BY <1>1, <1>2, <1>3, <1>4, Zenon DEF Next

\* What .SAVE writes.
LEMMA SaveStores ==
  ASSUME TypeOK, PortsAsSet, CmdSave
  PROVE  LET s == file'.settings
         IN  /\ s.value = memory.value /\ s.Config = memory.Config
             /\ s.CommConfig = line
             /\ selected \in GoodSetups => s.Setup = selected
             /\ \A f \in types : masks[f] \subseteq restore_settings(s)[f]
<1>1. memory \in SYSTEM_SETTINGS /\ types \subseteq Features /\ line = comm
  BY DEF TypeOK, PortsAsSet, CmdSave, Ready
<1>2. file'.settings = settings_Update
  BY DEF CmdSave, Whole
<1>3. /\ settings_Update.value = memory.value /\ settings_Update.Config = memory.Config
      /\ settings_Update.CommConfig = comm /\ settings_Update.Setup = selected
      /\ settings_Update.Critical = FeaturesCritical
  BY <1>1 DEF settings_Update, SYSTEM_SETTINGS
<1>4. ASSUME NEW f \in types
      PROVE  masks[f] \subseteq restore_settings(settings_Update)[f]
  <2>1. f \in Features /\ FeaturesCritical[f] = masks[f]
    BY <1>1 DEF FeaturesCritical
  <2>2. QED
    BY <1>3, <2>1 DEF restore_settings
<1>5. QED
  BY <1>1, <1>2, <1>3, <1>4

\* What .SAVE writes is what the recorder runs with when the power comes back: settings,
\* ports, a setup that works and the critical bits of its features, for any setups and
\* any commands between (SavedComesBack of Settings).
THEOREM SavedIsRestored == Spec => SavedComesBack
<1>1. Init => PortsAsSet
  BY DEF Init, PortsAsSet
<1>2. ASSUME TypeOK, PortsAsSet
      PROVE  /\ CmdSave =>
                  LET s == file'.settings
                  IN  /\ s.value = memory.value /\ s.Config = memory.Config
                      /\ s.CommConfig = line
                      /\ selected \in GoodSetups => s.Setup = selected
                      /\ \A f \in types : masks[f] \subseteq restore_settings(s)[f]
             /\ PowerUp => memory' = file'.settings /\ line' = file'.settings.CommConfig
  BY <1>2, SaveStores, StartPorts
<1>3. QED
  BY <1>1, <1>2, PortsStep, TypeCorrect, PTL DEF Spec, SavedComesBack

-----------------------------------------------------------------------------
(* Setups.                                                                 *)

\* The text a setup of the current number would read is the one set up, as long as
\* its file is untouched; without power nothing is loaded and nothing is fresh.
SourceIsMade ==
  /\ disk = [k \in SetupNumbers |-> disk[k]]
  /\ current \in SetupNumbers /\ saved \in SetupNumbers
  /\ fresh => made = Source(current) /\ made # NoText
  /\ recorderStatus = "off" => loaded = NoText /\ ~fresh
  /\ RecordedAsConfigured

\* A setup that is taken has a text.
LEMMA TakenHasText ==
  ASSUME NEW text, NEW good \in Outcomes(text)
  PROVE  good \in BOOLEAN /\ (good => text # NoText)
BY DEF Outcomes

LEMMA FileSetUp ==
  ASSUME SourceIsMade, NEW k \in SetupNumbers, SetUp(k)
  PROVE  SourceIsMade'
<1>1. PICK good \in Outcomes(Source(k)) :
        /\ Take(Source(k), good)
        /\ recorderStatus' = (IF good THEN "IDLE" ELSE "ERROR")
        /\ saved' = (IF good THEN k ELSE saved)
  BY DEF SetUp
<1>2. /\ good \in BOOLEAN /\ (good => Source(k) # NoText)
      /\ fresh' = good /\ made' = (IF good THEN Source(k) ELSE NoText)
  BY <1>1, TakenHasText DEF Take
<1>3. current' = k /\ disk' = disk /\ loaded' = loaded
  BY DEF SetUp
<1>4. Source(current)' = Source(k)
  BY <1>3 DEF Source
<1>5. recorderStatus' \in {"IDLE", "ERROR"} /\ saved' \in SetupNumbers
  BY <1>1 DEF SourceIsMade
<1>6. QED
  BY <1>2, <1>3, <1>4, <1>5 DEF SourceIsMade, RecordedAsConfigured

LEMMA FileStarted ==
  ASSUME SourceIsMade, StartFromDisk
  PROVE  SourceIsMade'
<1>1. PICK good \in Outcomes(disk[saved]) :
        /\ Take(disk[saved], good)
        /\ current' = IF good THEN saved ELSE current
  BY DEF StartFromDisk
<1>2. /\ good \in BOOLEAN /\ (good => disk[saved] # NoText)
      /\ fresh' = good /\ made' = (IF good THEN disk[saved] ELSE NoText)
  BY <1>1, TakenHasText DEF Take
<1>3. /\ disk' = disk /\ loaded' = NoText /\ saved' = saved /\ recorderStatus' = "IDLE"
  BY DEF StartFromDisk, SourceIsMade
<1>4. good => Source(current)' = disk[saved]
  BY <1>1, <1>3 DEF Source
<1>5. QED
  BY <1>1, <1>2, <1>3, <1>4 DEF SourceIsMade, RecordedAsConfigured

LEMMA CartridgeStarted ==
  ASSUME SourceIsMade, StartFromCartridge
  PROVE  SourceIsMade'
<1>1. PICK c \in Cartridges :
        /\ \E good \in Outcomes(c.text) :
             /\ Take(c.text, good)
             /\ saved' = (IF good THEN c.setup ELSE saved)
             /\ current' = (IF good THEN c.setup ELSE current)
        /\ loaded' = c.text
        /\ disk' \in {disk, [disk EXCEPT ![c.setup] = c.text]}
  BY DEF StartFromCartridge
<1>2. PICK good \in Outcomes(c.text) :
        /\ Take(c.text, good)
        /\ saved' = (IF good THEN c.setup ELSE saved)
        /\ current' = (IF good THEN c.setup ELSE current)
  BY <1>1
<1>3. /\ good \in BOOLEAN /\ (good => c.text # NoText)
      /\ fresh' = good /\ made' = (IF good THEN c.text ELSE NoText)
  BY <1>2, TakenHasText DEF Take
<1>4. good => Source(current)' = c.text
  BY <1>1, <1>3 DEF Source
<1>5. disk' = [k \in SetupNumbers |-> disk'[k]]
  BY <1>1 DEF SourceIsMade
<1>6. current' \in SetupNumbers /\ saved' \in SetupNumbers
  BY <1>2, FilesAssumption DEF SourceIsMade
<1>7. recorderStatus' = "IDLE"
  BY DEF StartFromCartridge
<1>8. QED
  BY <1>3, <1>4, <1>5, <1>6, <1>7 DEF SourceIsMade, RecordedAsConfigured

\* A file saved or deleted is that of the current setup, which is then not fresh, or
\* another one; nothing is recorded meanwhile.
LEMMA FileEdited ==
  ASSUME SourceIsMade,
         \/ \E k \in SetupNumbers : Save(k) \/ Delete(k)
         \/ DeleteAll
  PROVE  SourceIsMade'
<1>1. /\ UNCHANGED <<loaded, current, saved, recorderStatus, told, made>>
      /\ recorderStatus \in {"IDLE", "ERROR"}
  BY DEF Save, Delete, DeleteAll, Stopped
<1>2. CASE DeleteAll
  <2>1. disk' = [k \in SetupNumbers |-> NoText] /\ fresh' = FALSE
    BY <1>2 DEF DeleteAll
  <2>2. QED
    BY <1>1, <2>1 DEF SourceIsMade, RecordedAsConfigured
<1>3. ASSUME NEW k \in SetupNumbers, Save(k) \/ Delete(k)
      PROVE  SourceIsMade'
  <2>1. PICK text : disk' = [disk EXCEPT ![k] = text]
    BY <1>3 DEF Save, Delete
  <2>2. fresh' = (fresh /\ k # current)
    BY <1>3 DEF Save, Delete
  <2>3. disk' = [j \in SetupNumbers |-> disk'[j]]
    BY <2>1 DEF SourceIsMade
  <2>4. k # current => disk'[current] = disk[current]
    BY <2>1 DEF SourceIsMade
  <2>5. k # current => Source(current)' = Source(current)
    BY <1>1, <2>4 DEF Source
  <2>6. QED
    BY <1>1, <2>2, <2>3, <2>5 DEF SourceIsMade, RecordedAsConfigured
<1>4. QED
  BY <1>2, <1>3

LEMMA FileRecorded ==
  ASSUME SourceIsMade, Record
  PROVE  SourceIsMade'
<1>1. /\ UNCHANGED <<disk, loaded, current, saved, made, fresh>>
      /\ told' = Fetched(current) /\ recorderStatus' = "RECORD"
  BY DEF Record
<1>2. Source(current)' = Source(current)
  BY <1>1 DEF Source
<1>3. fresh => told' = Header \o made
  BY <1>1 DEF SourceIsMade, Fetched
<1>4. QED
  BY <1>1, <1>2, <1>3 DEF SourceIsMade, RecordedAsConfigured

LEMMA FileOthers ==
  ASSUME SourceIsMade,
         \/ \E k \in SetupNumbers : Get(k)
         \/ \E text \in Texts : Write(text)
         \/ PowerOff \/ Stop \/ UNCHANGED filesVars
  PROVE  SourceIsMade'
<1>1. CASE PowerOff
  <2>1. current' = 0 /\ UNCHANGED <<disk, saved>> /\ ~fresh' /\ loaded' = NoText
        /\ recorderStatus' = "off"
    BY <1>1 DEF PowerOff
  <2>2. QED
    BY <2>1, FilesAssumption DEF SourceIsMade, RecordedAsConfigured
<1>2. CASE ~PowerOff
  <2>1. UNCHANGED <<disk, loaded, current, saved, made, fresh>>
    BY <1>2 DEF Get, Got, Write, Stop, filesVars, parsed
  <2>2. (recorderStatus' = recorderStatus /\ told' = told) \/ recorderStatus' = "IDLE"
    BY <1>2 DEF Get, Write, Stop, filesVars
  <2>3. Source(current)' = Source(current)
    BY <2>1 DEF Source
  <2>4. QED
    BY <2>1, <2>2, <2>3 DEF SourceIsMade, RecordedAsConfigured
<1>3. QED
  BY <1>1, <1>2

\* The TMATS packet at the head of a recording is the text its channels were set up
\* from, as long as nobody touched that setup's file: for any setup files, any texts
\* written, any cartridges and any number of commands (RecordedAsConfigured of Setups).
THEOREM RecordsItsSetup == FilesSpec => []RecordedAsConfigured
<1>1. FilesInit => SourceIsMade
  BY FilesAssumption DEF FilesInit, SourceIsMade, RecordedAsConfigured
<1>2. SourceIsMade /\ [FilesNext]_filesVars => SourceIsMade'
  BY FileSetUp, FileStarted, CartridgeStarted, FileEdited, FileRecorded, FileOthers, Zenon
     DEF FilesNext
<1>3. SourceIsMade => RecordedAsConfigured
  BY DEF SourceIsMade
<1>4. QED
  BY <1>1, <1>2, <1>3, PTL DEF FilesSpec

-----------------------------------------------------------------------------
(* Induction, and what the operators on texts return.                      *)

\* The least element of a set of numbers.
LEMMA LeastNat ==
  ASSUME NEW T, T \subseteq Nat, T # {}
  PROVE  \E x \in T : \A y \in T : x <= y
<1>1. PICK x \in T : \A y \in T : ~ (<<y, x>> \in OpToRel(<, Nat))
  BY NatLessThanWellFounded, WFMin
<1>2. ASSUME NEW y \in T PROVE ~(y < x)
  <2>1. y < x => <<y, x>> \in OpToRel(<, Nat)
    BY DEF OpToRel
  <2>2. QED
    BY <2>1, <1>1
<1>3. x \in Nat
  OBVIOUS
<1>4. ASSUME NEW y \in T PROVE x <= y
  <2>1. y \in Nat /\ ~(y < x)
    BY <1>2
  <2>2. QED
    BY <2>1, <1>3
<1>5. QED
  BY <1>4

\* Induction, for the property of being in a set.
LEMMA InductionBySet ==
  ASSUME NEW S, 0 \in S, \A n \in Nat : n \in S => n + 1 \in S
  PROVE  Nat \subseteq S
<1> SUFFICES ASSUME ~(Nat \subseteq S) PROVE FALSE
  OBVIOUS
<1>1. PICK x \in Nat \ S : \A y \in Nat \ S : x <= y
  BY LeastNat
<1>2. x # 0
  OBVIOUS
<1>3. x - 1 \in Nat /\ x - 1 \in S
  BY <1>1, <1>2
<1>4. QED
  BY <1>1, <1>3

\* LinesAt is what its definition says.
LEMMA LinesTaken ==
  ASSUME NEW text, Len(text) \in Nat, NEW P
  PROVE  \E taken :
           /\ taken = [i \in 0..Len(text) |->
                IF i = 0 THEN <<>>
                ELSE IF i \in P THEN Append(taken[i - 1], text[i]) ELSE taken[i - 1]]
           /\ LinesAt(text, P) = taken[Len(text)]
<1> DEFINE Body(f, i) == IF i = 0 THEN <<>>
                         ELSE IF i \in P THEN Append(f[i - 1], text[i]) ELSE f[i - 1]
           Taken(m, f) == f = [i \in 0..m |-> Body(f, i)]
           S == {m \in Nat : \E f : Taken(m, f)}
<1>1. 0 \in S
  <2>1. Taken(0, [i \in 0..0 |-> <<>>])
    OBVIOUS
  <2>2. QED
    BY <2>1
<1>2. ASSUME NEW m \in Nat, m \in S PROVE m + 1 \in S
  <2>1. PICK f : Taken(m, f)
    BY <1>2
  <2> DEFINE g == [i \in 0..(m + 1) |-> Body(f, i)]
  <2>2. ASSUME NEW i \in 0..m PROVE g[i] = f[i]
    <3> HIDE DEF Body
    <3>1. i \in 0..(m + 1) /\ g[i] = Body(f, i) /\ f[i] = Body(f, i)
      BY <2>1
    <3>2. QED
      BY <3>1
  <2>3. ASSUME NEW i \in 0..(m + 1) PROVE Body(g, i) = Body(f, i)
    <3>1. i = 0 \/ i - 1 \in 0..m
      OBVIOUS
    <3>2. i = 0 \/ g[i - 1] = f[i - 1]
      BY <3>1, <2>2
    <3> HIDE DEF g
    <3>3. QED
      BY <3>2
  <2>4. Taken(m + 1, g)
    <3> HIDE DEF Body
    <3>1. QED BY <2>3
  <2> HIDE DEF Taken, g
  <2>5. QED
    BY <2>4
<1>3. Len(text) \in S
  <2> HIDE DEF S
  <2>1. QED BY <1>1, <1>2, InductionBySet
<1>4. \E f : Taken(Len(text), f)
  BY <1>3
<1>5. LET taken == CHOOSE f : Taken(Len(text), f)
      IN  Taken(Len(text), taken) /\ LinesAt(text, P) = taken[Len(text)]
  BY <1>4 DEF LinesAt
<1>6. QED
  BY <1>5

\* s has the lines of text at the positions Q, in their order, by the places g.
Picks(text, Q, s, g) ==
  /\ g \in [1..Len(s) -> Q]
  /\ \A a, b \in 1..Len(s) : a < b => g[a] < g[b]
  /\ \A q \in Q : \E a \in 1..Len(s) : g[a] = q
  /\ \A a \in 1..Len(s) : s[a] = text[g[a]]

\* What LinesAt returns.
LEMMA LinesAtPicks ==
  ASSUME NEW L, NEW text \in Seq(L), NEW P
  PROVE  /\ LinesAt(text, P) \in Seq(L)
         /\ \E g : Picks(text, P \cap DOMAIN text, LinesAt(text, P), g)
<1>0. Len(text) \in Nat /\ DOMAIN text = 1..Len(text)
  OBVIOUS
<1>1. PICK taken :
        /\ taken = [i \in 0..Len(text) |->
             IF i = 0 THEN <<>>
             ELSE IF i \in P THEN Append(taken[i - 1], text[i]) ELSE taken[i - 1]]
        /\ LinesAt(text, P) = taken[Len(text)]
  BY <1>0, LinesTaken
<1> DEFINE Done(m) == /\ taken[m] \in Seq(L)
                      /\ \E g : Picks(text, P \cap (1..m), taken[m], g)
           S == {m \in Nat : m <= Len(text) => Done(m)}
<1>2. 0 \in S
  <2>1. taken[0] = <<>>
    BY <1>0, <1>1
  <2>2. Picks(text, P \cap (1..0), <<>>, <<>>)
    BY DEF Picks
  <2>3. <<>> \in Seq(L)
    OBVIOUS
  <2>4. Done(0)
    BY <2>1, <2>2, <2>3
  <2> HIDE DEF Done
  <2>5. QED
    BY <2>4
<1>3. ASSUME NEW m \in Nat, m \in S PROVE m + 1 \in S
  <2> SUFFICES ASSUME m + 1 <= Len(text) PROVE Done(m + 1)
    <3> HIDE DEF Done
    <3>1. QED OBVIOUS
  <2>1. taken[m] \in Seq(L) /\ \E g : Picks(text, P \cap (1..m), taken[m], g)
    <3>1. Done(m)
      <4> HIDE DEF Done
      <4>1. QED BY <1>0, <1>3
    <3>2. QED
      BY <3>1
  <2>2. PICK g : Picks(text, P \cap (1..m), taken[m], g)
    BY <2>1
  <2>3. taken[m + 1] = IF m + 1 \in P THEN Append(taken[m], text[m + 1]) ELSE taken[m]
    <3>1. m + 1 \in 0..Len(text) /\ m + 1 # 0 /\ (m + 1) - 1 = m
      BY <1>0
    <3>2. QED
      BY <3>1, <1>1
  <2>4. CASE m + 1 \notin P
    <3>1. P \cap (1..(m + 1)) = P \cap (1..m)
      BY <2>4
    <3>2. QED
      BY <2>1, <2>3, <2>4, <3>1
  <2>5. CASE m + 1 \in P
    <3> DEFINE s == taken[m]
               t == Append(s, text[m + 1])
               h == [a \in 1..(Len(s) + 1) |-> IF a = Len(s) + 1 THEN m + 1 ELSE g[a]]
    <3>1. text[m + 1] \in L
      BY <1>0
    <3>2. /\ t \in Seq(L) /\ Len(t) = Len(s) + 1 /\ Len(s) \in Nat
          /\ \A a \in 1..Len(s) : t[a] = s[a]
          /\ t[Len(s) + 1] = text[m + 1]
      BY <2>1, <3>1
    <3>3. taken[m + 1] = t
      BY <2>3, <2>5
    <3> HIDE DEF s, t
    <3>4. /\ g \in [1..Len(s) -> P \cap (1..m)]
          /\ \A a, b \in 1..Len(s) : a < b => g[a] < g[b]
          /\ \A q \in P \cap (1..m) : \E a \in 1..Len(s) : g[a] = q
          /\ \A a \in 1..Len(s) : s[a] = text[g[a]]
      BY <2>2 DEF Picks, s
    <3>5. h \in [1..Len(t) -> P \cap (1..(m + 1))]
      BY <2>5, <3>2, <3>4
    <3>6. ASSUME NEW a \in 1..Len(t), NEW b \in 1..Len(t), a < b PROVE h[a] < h[b]
      <4>1. a \in 1..Len(s) /\ h[a] = g[a] /\ g[a] \in 1..m
        BY <3>2, <3>4, <3>6
      <4>2. CASE b = Len(s) + 1
        BY <4>1, <4>2, <3>2
      <4>3. CASE b \in 1..Len(s)
        BY <4>1, <4>3, <3>2, <3>4, <3>6
      <4>4. QED
        BY <4>2, <4>3, <3>2
    <3>7. ASSUME NEW q \in P \cap (1..(m + 1)) PROVE \E a \in 1..Len(t) : h[a] = q
      <4>1. CASE q = m + 1
        BY <4>1, <3>2
      <4>2. CASE q \in 1..m
        <5>1. PICK a \in 1..Len(s) : g[a] = q
          BY <4>2, <3>4
        <5>2. QED
          BY <5>1, <3>2
      <4>3. q = m + 1 \/ q \in 1..m
        OBVIOUS
      <4>4. QED
        BY <4>1, <4>2, <4>3
    <3>8. ASSUME NEW a \in 1..Len(t) PROVE t[a] = text[h[a]]
      BY <3>2, <3>4
    <3> HIDE DEF h
    <3>9. Picks(text, P \cap (1..(m + 1)), t, h)
      BY <3>5, <3>6, <3>7, <3>8 DEF Picks
    <3>10. QED
      BY <3>2, <3>3, <3>9
  <2>6. QED
    BY <2>4, <2>5
<1>4. Len(text) \in S
  <2> HIDE DEF S
  <2>1. QED BY <1>0, <1>2, <1>3, InductionBySet
<1>5. Done(Len(text))
  <2> HIDE DEF Done
  <2>1. QED BY <1>0, <1>4
<1>6. QED
  BY <1>0, <1>1, <1>5


\* The lines of the sorted text: those of the file, and separators.
Copyable == Lines \cup {Separator[1]}

LEMMA WellFormedIsText ==
  ASSUME NEW t, WellFormedLines(t)
  PROVE  t \in Seq(Copyable)
<1>1. t \in Seq(Lines)
  BY DEF WellFormedLines
<1>2. \A i \in 1..Len(t) : t[i] \in Copyable
  BY <1>1 DEF Copyable
<1>3. QED
  BY <1>1, <1>2

-----------------------------------------------------------------------------
(* The sorted text, put together from parts.                               *)

Positions(s, atts) == {i \in DOMAIN s : s[i].att \in atts}
Opens(s) == Positions(s, {"TK1"})

\* Type and kind of a track, and its place among those of the kind.
TrackType(t, k) == t[CHOOSE i \in DOMAIN t : t[i].att = "CDT" /\ t[i].n = k].v
TrackKind(t, k) == KindOf(TrackType(t, k))
Place(t, k) == CHOOSE i \in DOMAIN Tracks(t, TrackKind(t, k)) : Tracks(t, TrackKind(t, k))[i] = k
Before(t, k, m) == TrackKind(t, k) = TrackKind(t, m) => Place(t, k) < Place(t, m)

\* The lines a type is refined by, as far as they are copied.
Marks == {"DTF", "DMSK", "CUCE"}
MarksOf(kind) == IF kind = "m1553" THEN {"DTF", "DMSK"} ELSE IF kind = "pcm" THEN {"CUCE"} ELSE {}

\* No line after p up to q ends the track that starts at p.
Within(s, p, q) == p < q /\ \A r \in (p + 1)..q : ~Ends(s[r])

\* s has the tracks N, in order, each with its type before another's, and with the
\* lines that refine the type between its first line and its end.
LinesKept(t, s) == \A q \in DOMAIN s : s[q].att = "COM" \/ \E i \in DOMAIN t : s[q] = t[i]
OnlyTracks(s, N) == \A p \in Opens(s) : s[p].n \in N
AllTracks(s, N) == \A k \in N : \E p \in Opens(s) : s[p].n = k
Owned(s) == \A q \in Positions(s, Marks) : \E p \in Opens(s) : s[p].n = s[q].n /\ Within(s, p, q)
Typed(s) ==
  \A p \in Opens(s) : \E q \in Positions(s, {"CDT"}) :
    /\ p < q /\ s[q].n = s[p].n
    /\ \A r \in (p + 1)..(q - 1) : s[r].att # "CDT"
Complete(t, s) ==
  \A p \in Opens(s) : \A i \in Positions(t, MarksOf(TrackKind(t, s[p].n))) :
    t[i].n = s[p].n => \E q \in DOMAIN s : s[q] = t[i] /\ Within(s, p, q)
InOrder(t, s) == \A p, q \in Opens(s) : p < q => Before(t, s[p].n, s[q].n)

Part(t, s, N) ==
  /\ s \in Seq(Copyable)
  /\ LinesKept(t, s) /\ OnlyTracks(s, N) /\ AllTracks(s, N)
  /\ Owned(s) /\ Typed(s) /\ Complete(t, s) /\ InOrder(t, s)

\* Where the lines of two parts stand in the two together.
LEMMA Joined ==
  ASSUME NEW L, NEW s \in Seq(L), NEW u \in Seq(L)
  PROVE  /\ s \o u \in Seq(L)
         /\ Len(s) \in Nat /\ Len(u) \in Nat /\ Len(s \o u) = Len(s) + Len(u)
         /\ DOMAIN s = 1..Len(s) /\ DOMAIN u = 1..Len(u) /\ DOMAIN (s \o u) = 1..(Len(s) + Len(u))
         /\ \A p \in 1..Len(s) : p \in DOMAIN (s \o u) /\ (s \o u)[p] = s[p]
         /\ \A p \in 1..Len(u) : Len(s) + p \in DOMAIN (s \o u) /\ (s \o u)[Len(s) + p] = u[p]
         /\ \A p \in DOMAIN (s \o u) : p \in 1..Len(s) \/ p - Len(s) \in 1..Len(u)
OBVIOUS

LEMMA PositionsJoined ==
  ASSUME NEW L, NEW s \in Seq(L), NEW u \in Seq(L), NEW atts
  PROVE  /\ \A p \in Positions(s, atts) : p \in Positions(s \o u, atts)
         /\ \A p \in Positions(u, atts) : Len(s) + p \in Positions(s \o u, atts)
         /\ \A p \in Positions(s \o u, atts) :
              p \in Positions(s, atts) \/ p - Len(s) \in Positions(u, atts)
<1>1. \A p \in Positions(s, atts) : p \in Positions(s \o u, atts)
  BY Joined DEF Positions
<1>2. \A p \in Positions(u, atts) : Len(s) + p \in Positions(s \o u, atts)
  BY Joined DEF Positions
<1>3. ASSUME NEW p \in Positions(s \o u, atts)
      PROVE  p \in Positions(s, atts) \/ p - Len(s) \in Positions(u, atts)
  <2>1. p \in DOMAIN (s \o u) /\ (s \o u)[p].att \in atts
    BY DEF Positions
  <2>2. CASE p \in 1..Len(s)
    BY <2>1, <2>2, Joined DEF Positions
  <2>3. CASE p - Len(s) \in 1..Len(u)
    <3>1. p \in Int /\ Len(s) + (p - Len(s)) = p
      BY <2>1, Joined
    <3>2. u[p - Len(s)] = (s \o u)[p]
      BY <2>3, <3>1, Joined
    <3>3. QED
      BY <2>1, <2>3, <3>2, Joined DEF Positions
  <2>4. QED
    BY <2>1, <2>2, <2>3, Joined
<1>4. QED
  BY <1>1, <1>2, <1>3

LEMMA ShiftedBack ==
  ASSUME NEW k \in Nat, NEW m \in Nat, NEW p \in 1..m, NEW q \in 1..m,
         NEW r \in (k + p + 1)..(k + q)
  PROVE  r - k \in (p + 1)..q /\ r - k \in 1..m /\ k + (r - k) = r
OBVIOUS

LEMMA WithinJoined ==
  ASSUME NEW L, NEW s \in Seq(L), NEW u \in Seq(L)
  PROVE  /\ \A p, q \in DOMAIN s : Within(s, p, q) => Within(s \o u, p, q)
         /\ \A p, q \in DOMAIN u : Within(u, p, q) => Within(s \o u, Len(s) + p, Len(s) + q)
<1>1. ASSUME NEW p \in DOMAIN s, NEW q \in DOMAIN s, Within(s, p, q)
      PROVE  Within(s \o u, p, q)
  <2>1. \A r \in (p + 1)..q : (s \o u)[r] = s[r]
    BY Joined
  <2>2. QED
    BY <1>1, <2>1 DEF Within
<1>2. ASSUME NEW p \in DOMAIN u, NEW q \in DOMAIN u, Within(u, p, q)
      PROVE  Within(s \o u, Len(s) + p, Len(s) + q)
  <2>1. p \in 1..Len(u) /\ q \in 1..Len(u) /\ p < q
    BY <1>2, Joined DEF Within
  <2>2. ASSUME NEW r \in (Len(s) + p + 1)..(Len(s) + q)
        PROVE  ~Ends((s \o u)[r])
    <3>1. r - Len(s) \in (p + 1)..q /\ r - Len(s) \in 1..Len(u) /\ Len(s) + (r - Len(s)) = r
      <4>1. Len(s) \in Nat /\ Len(u) \in Nat
        OBVIOUS
      <4>2. QED
        BY <2>1, <4>1, ShiftedBack
    <3>2. (s \o u)[r] = u[r - Len(s)]
      BY <3>1, Joined
    <3>3. QED
      BY <1>2, <3>1, <3>2 DEF Within
  <2>3. Len(s) + p < Len(s) + q
    BY <2>1, Joined
  <2>4. QED
    BY <2>2, <2>3 DEF Within
<1>3. QED
  BY <1>1, <1>2

\* Two parts together, if their tracks do not get in each other's order.
LEMMA PartJoined ==
  ASSUME NEW t, NEW s, NEW u, NEW N, NEW M, Part(t, s, N), Part(t, u, M),
         \A k \in N, m \in M : Before(t, k, m)
  PROVE  Part(t, s \o u, N \cup M)
<1> DEFINE z == s \o u
<1>1. s \in Seq(Copyable) /\ u \in Seq(Copyable) /\ z \in Seq(Copyable)
  BY DEF Part
<1>2. /\ Len(s) \in Nat /\ Len(u) \in Nat
      /\ DOMAIN s = 1..Len(s) /\ DOMAIN u = 1..Len(u)
      /\ \A p \in DOMAIN s : p \in DOMAIN z /\ z[p] = s[p]
      /\ \A p \in DOMAIN u : Len(s) + p \in DOMAIN z /\ z[Len(s) + p] = u[p]
      /\ \A p \in DOMAIN z : p \in DOMAIN s \/ (p - Len(s) \in DOMAIN u /\ p = Len(s) + (p - Len(s)))
  BY <1>1, Joined
<1>3. ASSUME NEW atts
      PROVE  /\ \A p \in Positions(s, atts) : p \in Positions(z, atts) /\ z[p] = s[p]
             /\ \A p \in Positions(u, atts) : Len(s) + p \in Positions(z, atts) /\ z[Len(s) + p] = u[p]
             /\ \A p \in Positions(z, atts) :
                  p \in Positions(s, atts) \/ (p - Len(s) \in Positions(u, atts) /\ p = Len(s) + (p - Len(s)))
  <2>1. \A p \in Positions(s, atts) : p \in DOMAIN s
    BY DEF Positions
  <2>2. \A p \in Positions(u, atts) : p \in DOMAIN u
    BY DEF Positions
  <2>3. \A p \in Positions(z, atts) : p \in DOMAIN z /\ p \in Int
    BY <1>1 DEF Positions
  <2>4. QED
    BY <1>1, <1>2, <2>1, <2>2, <2>3, PositionsJoined
<1>4. /\ \A p, q \in DOMAIN s : Within(s, p, q) => Within(z, p, q)
      /\ \A p, q \in DOMAIN u : Within(u, p, q) => Within(z, Len(s) + p, Len(s) + q)
  BY <1>1, WithinJoined
<1>5. /\ \A atts : \A p \in Positions(s, atts) : p \in DOMAIN s
      /\ \A atts : \A p \in Positions(u, atts) : p \in DOMAIN u
  BY DEF Positions
<1> HIDE DEF z
<1>6. LinesKept(t, z)
  BY <1>2 DEF Part, LinesKept
<1>7. OnlyTracks(z, N \cup M)
  BY <1>3 DEF Part, OnlyTracks, Opens
<1>8. AllTracks(z, N \cup M)
  BY <1>3 DEF Part, AllTracks, Opens
<1>9. Owned(z)
  <2> SUFFICES ASSUME NEW q \in Positions(z, Marks)
               PROVE  \E p \in Opens(z) : z[p].n = z[q].n /\ Within(z, p, q)
    BY DEF Owned
  <2>1. CASE q \in Positions(s, Marks)
    <3>1. PICK p \in Opens(s) : s[p].n = s[q].n /\ Within(s, p, q)
      BY <2>1 DEF Part, Owned
    <3>2. p \in DOMAIN s /\ q \in DOMAIN s
      BY <1>5, <2>1 DEF Opens
    <3>3. QED
      BY <1>3, <1>4, <2>1, <3>1, <3>2 DEF Opens
  <2>2. CASE q - Len(s) \in Positions(u, Marks) /\ q = Len(s) + (q - Len(s))
    <3> DEFINE b == q - Len(s)
    <3>1. PICK p \in Opens(u) : u[p].n = u[b].n /\ Within(u, p, b)
      BY <2>2 DEF Part, Owned
    <3>2. p \in DOMAIN u /\ b \in DOMAIN u
      BY <1>5, <2>2 DEF Opens
    <3>3. z[q] = u[b] /\ Within(z, Len(s) + p, q)
      BY <1>2, <1>4, <2>2, <3>1, <3>2
    <3>4. Len(s) + p \in Opens(z) /\ z[Len(s) + p] = u[p]
      BY <1>3 DEF Opens
    <3>5. QED
      BY <3>1, <3>3, <3>4
  <2>3. QED
    BY <1>3, <2>1, <2>2
<1>10. Typed(z)
  <2> SUFFICES ASSUME NEW p \in Opens(z)
               PROVE  \E q \in Positions(z, {"CDT"}) :
                        /\ p < q /\ z[q].n = z[p].n
                        /\ \A r \in (p + 1)..(q - 1) : z[r].att # "CDT"
    BY DEF Typed
  <2>1. CASE p \in Opens(s)
    <3>1. PICK q \in Positions(s, {"CDT"}) :
            /\ p < q /\ s[q].n = s[p].n
            /\ \A r \in (p + 1)..(q - 1) : s[r].att # "CDT"
      BY <2>1 DEF Part, Typed
    <3>2. p \in 1..Len(s) /\ q \in 1..Len(s)
      BY <1>2, <1>5, <2>1 DEF Opens
    <3>3. \A r \in (p + 1)..(q - 1) : r \in DOMAIN s
      BY <1>2, <3>2
    <3>4. QED
      BY <1>2, <1>3, <2>1, <3>1, <3>2, <3>3 DEF Opens
  <2>2. CASE p - Len(s) \in Opens(u) /\ p = Len(s) + (p - Len(s))
    <3> DEFINE a == p - Len(s)
    <3>1. PICK q \in Positions(u, {"CDT"}) :
            /\ a < q /\ u[q].n = u[a].n
            /\ \A r \in (a + 1)..(q - 1) : u[r].att # "CDT"
      BY <2>2 DEF Part, Typed
    <3>2. a \in 1..Len(u) /\ q \in 1..Len(u)
      BY <1>2, <1>5, <2>2 DEF Opens
    <3>3. ASSUME NEW r \in (p + 1)..((Len(s) + q) - 1) PROVE z[r].att # "CDT"
      <4>1. /\ r - Len(s) \in (a + 1)..(q - 1) /\ r - Len(s) \in DOMAIN u
            /\ Len(s) + (r - Len(s)) = r
        BY <1>2, <2>2, <3>2
      <4>2. z[r] = u[r - Len(s)]
        BY <1>2, <4>1
      <4>3. QED
        BY <3>1, <4>1, <4>2
    <3>4. p < Len(s) + q
      BY <1>2, <2>2, <3>1, <3>2
    <3>5. Len(s) + q \in Positions(z, {"CDT"}) /\ z[Len(s) + q] = u[q] /\ z[p] = u[a]
      BY <1>2, <1>3, <2>2, <3>2
    <3>6. QED
      BY <3>1, <3>3, <3>4, <3>5
  <2>3. QED
    BY <1>3, <2>1, <2>2 DEF Opens
<1>11. Complete(t, z)
  <2> SUFFICES ASSUME NEW p \in Opens(z), NEW i \in Positions(t, MarksOf(TrackKind(t, z[p].n))),
                      t[i].n = z[p].n
               PROVE  \E q \in DOMAIN z : z[q] = t[i] /\ Within(z, p, q)
    BY DEF Complete
  <2>1. CASE p \in Opens(s)
    <3>1. p \in DOMAIN s /\ z[p] = s[p]
      BY <1>2, <1>5, <2>1 DEF Opens
    <3>2. PICK q \in DOMAIN s : s[q] = t[i] /\ Within(s, p, q)
      BY <2>1, <3>1 DEF Part, Complete
    <3>3. QED
      BY <1>2, <1>4, <3>1, <3>2
  <2>2. CASE p - Len(s) \in Opens(u) /\ p = Len(s) + (p - Len(s))
    <3> DEFINE a == p - Len(s)
    <3>1. a \in DOMAIN u /\ z[p] = u[a] /\ p = Len(s) + a /\ a \in Opens(u)
      BY <1>2, <1>5, <2>2 DEF Opens
    <3> HIDE DEF a
    <3>2. PICK q \in DOMAIN u : u[q] = t[i] /\ Within(u, a, q)
      BY <3>1 DEF Part, Complete
    <3>3. Within(z, p, Len(s) + q)
      BY <1>4, <3>1, <3>2
    <3>4. QED
      BY <1>2, <3>2, <3>3
  <2>3. QED
    BY <1>3, <2>1, <2>2 DEF Opens
<1>12. InOrder(t, z)
  <2> SUFFICES ASSUME NEW p \in Opens(z), NEW q \in Opens(z), p < q
               PROVE  Before(t, z[p].n, z[q].n)
    BY DEF InOrder
  <2>1. CASE p \in Opens(s) /\ q \in Opens(s)
    BY <1>3, <2>1 DEF Part, InOrder, Opens
  <2>2. CASE p \in Opens(s) /\ q - Len(s) \in Opens(u) /\ q = Len(s) + (q - Len(s))
    <3>1. s[p].n \in N /\ u[q - Len(s)].n \in M
      BY <2>2 DEF Part, OnlyTracks
    <3>2. z[p] = s[p] /\ z[q] = u[q - Len(s)]
      BY <1>2, <1>5, <2>2 DEF Opens
    <3>3. QED
      BY <3>1, <3>2
  <2>3. CASE /\ p - Len(s) \in Opens(u) /\ p = Len(s) + (p - Len(s))
             /\ q - Len(s) \in Opens(u) /\ q = Len(s) + (q - Len(s))
    <3>1. p - Len(s) \in 1..Len(u) /\ q - Len(s) \in 1..Len(u)
      BY <1>2, <1>5, <2>3 DEF Opens
    <3>2. p - Len(s) < q - Len(s)
      BY <1>2, <2>3, <3>1
    <3>3. z[p] = u[p - Len(s)] /\ z[q] = u[q - Len(s)]
      BY <1>2, <2>3, <3>1
    <3>4. QED
      BY <2>3, <3>2, <3>3 DEF Part, InOrder
  <2>4. CASE /\ p - Len(s) \in Opens(u) /\ p = Len(s) + (p - Len(s)) /\ q \in Opens(s)
    <3>1. p - Len(s) \in 1..Len(u) /\ q \in 1..Len(s)
      BY <1>2, <1>5, <2>4 DEF Opens
    <3>2. QED
      BY <1>2, <2>4, <3>1
  <2>5. QED
    BY <1>3, <2>1, <2>2, <2>3, <2>4 DEF Opens
<1>13. QED
  BY <1>1, <1>6, <1>7, <1>8, <1>9, <1>10, <1>11, <1>12 DEF Part, z

\* Lines that are about no track in particular.
LEMMA PlainPart ==
  ASSUME NEW t, NEW s \in Seq(Copyable), LinesKept(t, s),
         \A q \in DOMAIN s : s[q].att \notin Marks \cup {"TK1"}
  PROVE  Part(t, s, {})
<1>1. Opens(s) = {} /\ Positions(s, Marks) = {}
  BY DEF Opens, Positions
<1>2. QED
  BY <1>1 DEF Part, OnlyTracks, AllTracks, Owned, Typed, Complete, InOrder

\* The first line of a track, and then the others.
LEMMA TrackPart ==
  ASSUME NEW t, t \in Seq(Copyable), NEW f \in DOMAIN t, t[f].att = "TK1", NEW w \in Seq(Copyable),
         \A a \in DOMAIN w : /\ \E i \in DOMAIN t : w[a] = t[i]
                             /\ ~Ends(w[a])
                             /\ w[a].att \in Marks \cup {"CDT"} => w[a].n = t[f].n,
         \E a \in DOMAIN w : w[a].att = "CDT",
         \A i \in Positions(t, MarksOf(TrackKind(t, t[f].n))) :
           t[i].n = t[f].n => \E a \in DOMAIN w : w[a] = t[i]
  PROVE  Part(t, <<t[f]>> \o w, {t[f].n})
<1> DEFINE z == <<t[f]>> \o w
<1>1. t[f] \in Copyable /\ <<t[f]>> \in Seq(Copyable)
  OBVIOUS
<1>2. /\ z \in Seq(Copyable) /\ z[1] = t[f] /\ 1 \in DOMAIN z /\ Len(w) \in Nat
      /\ DOMAIN w = 1..Len(w) /\ DOMAIN z = 1..(Len(w) + 1)
      /\ \A a \in DOMAIN w : a + 1 \in DOMAIN z /\ z[a + 1] = w[a]
      /\ \A p \in DOMAIN z : p = 1 \/ (p - 1 \in DOMAIN w /\ z[p] = w[p - 1] /\ p = (p - 1) + 1)
  BY <1>1
<1> HIDE DEF z
<1>3. Opens(z) = {1}
  <2>1. \A a \in DOMAIN w : w[a].att # "TK1"
    BY DEF Ends
  <2>2. QED
    BY <1>2, <2>1 DEF Opens, Positions
<1>4. \A q \in DOMAIN z : q > 1 => Within(z, 1, q)
  <2> SUFFICES ASSUME NEW q \in DOMAIN z, q > 1, NEW r \in 2..q PROVE ~Ends(z[r])
    BY DEF Within
  <2>1. r \in DOMAIN z /\ r # 1
    BY <1>2
  <2>2. QED
    BY <1>2, <2>1
<1>5. LinesKept(t, z)
  <2> SUFFICES ASSUME NEW q \in DOMAIN z PROVE \E i \in DOMAIN t : z[q] = t[i]
    BY DEF LinesKept
  <2>1. CASE q = 1
    BY <1>2, <2>1
  <2>2. CASE q # 1
    BY <1>2, <2>2
  <2>3. QED
    BY <2>1, <2>2
<1>6. OnlyTracks(z, {t[f].n}) /\ AllTracks(z, {t[f].n}) /\ InOrder(t, z)
  BY <1>2, <1>3 DEF OnlyTracks, AllTracks, InOrder
<1>7. Owned(z)
  <2> SUFFICES ASSUME NEW q \in DOMAIN z, z[q].att \in Marks
               PROVE  z[1].n = z[q].n /\ Within(z, 1, q)
    BY <1>3 DEF Owned, Positions
  <2>1. q # 1
    BY <1>2 DEF Marks
  <2>2. QED
    BY <1>2, <1>4, <2>1
<1>8. Typed(z)
  <2> DEFINE C == {q \in DOMAIN z : z[q].att = "CDT"}
  <2>1. C \subseteq Nat /\ C # {}
    BY <1>2
  <2>2. PICK q \in C : \A r \in C : q <= r
    BY <2>1, LeastNat
  <2>3. q # 1
    BY <1>2
  <2>4. q \in Positions(z, {"CDT"}) /\ 1 < q /\ z[q].n = z[1].n
    BY <1>2, <2>3 DEF Positions
  <2>5. ASSUME NEW r \in (1 + 1)..(q - 1) PROVE z[r].att # "CDT"
    <3>1. r \in DOMAIN z /\ ~(q <= r)
      BY <1>2
    <3>2. QED
      BY <2>2, <3>1
  <2>6. QED
    BY <1>3, <2>4, <2>5 DEF Typed
<1>9. Complete(t, z)
  <2> SUFFICES ASSUME NEW i \in Positions(t, MarksOf(TrackKind(t, t[f].n))), t[i].n = t[f].n
               PROVE  \E q \in DOMAIN z : z[q] = t[i] /\ Within(z, 1, q)
    BY <1>2, <1>3 DEF Complete
  <2>1. PICK a \in DOMAIN w : w[a] = t[i]
    OBVIOUS
  <2>2. a + 1 \in DOMAIN z /\ z[a + 1] = t[i] /\ a + 1 > 1
    BY <1>2, <2>1
  <2>3. QED
    BY <1>4, <2>2
<1>10. QED
  BY <1>2, <1>5, <1>6, <1>7, <1>8, <1>9 DEF Part, z

-----------------------------------------------------------------------------
(* The tracks of a well formed text.                                       *)

\* LinesAt has the lines at P, all of them, and no others.
LEMMA LinesAreAtP ==
  ASSUME NEW t \in Seq(Copyable), NEW P
  PROVE  /\ LinesAt(t, P) \in Seq(Copyable)
         /\ \A a \in DOMAIN LinesAt(t, P) : \E i \in P : i \in DOMAIN t /\ LinesAt(t, P)[a] = t[i]
<1>0. LinesAt(t, P) \in Seq(Copyable)
  BY LinesAtPicks
<1>1. DOMAIN LinesAt(t, P) = 1..Len(LinesAt(t, P))
  BY <1>0
<1>2. PICK g : Picks(t, P \cap DOMAIN t, LinesAt(t, P), g)
  BY LinesAtPicks
<1>3. QED
  BY <1>0, <1>1, <1>2 DEF Picks

LEMMA AllLinesAtP ==
  ASSUME NEW t \in Seq(Copyable), NEW P, NEW q \in P, q \in DOMAIN t
  PROVE  \E a \in DOMAIN LinesAt(t, P) : LinesAt(t, P)[a] = t[q]
<1>0. LinesAt(t, P) \in Seq(Copyable)
  BY LinesAtPicks
<1>1. DOMAIN LinesAt(t, P) = 1..Len(LinesAt(t, P))
  BY <1>0
<1>2. PICK g : Picks(t, P \cap DOMAIN t, LinesAt(t, P), g)
  BY LinesAtPicks
<1>3. PICK a \in 1..Len(LinesAt(t, P)) : g[a] = q
  BY <1>2 DEF Picks
<1>4. LinesAt(t, P)[a] = t[q]
  BY <1>2, <1>3 DEF Picks
<1>5. QED
  BY <1>1, <1>4

\* The first line of a track is its TK1 line.
LEMMA FirstIsTK1 ==
  ASSUME NEW t, WellFormedLines(t), NEW f \in DOMAIN t, t[f].att = "TK1"
  PROVE  FirstLine(t, t[f].n) = <<t[f]>>
<1>1. t \in Seq(Copyable)
  BY WellFormedIsText
<1> DEFINE P == Own(t, t[f].n, {"TK1"})
           s == LinesAt(t, P)
<1>2. P = {f}
  <2>1. f \in P
    BY DEF Own
  <2>2. \A i \in P : i \in Anywhere(t, {"TK1"}) /\ t[i].n = t[f].n
    BY DEF Own, Anywhere
  <2>3. f \in Anywhere(t, {"TK1"})
    BY DEF Anywhere
  <2>4. \A i \in P : i = f
    BY <2>2, <2>3 DEF WellFormedLines
  <2>5. QED
    BY <2>1, <2>4
<1>3. s \in Seq(Copyable) /\ \E g : Picks(t, P \cap DOMAIN t, s, g)
  BY <1>1, LinesAtPicks
<1> HIDE DEF s
<1>4. PICK g : Picks(t, {f}, s, g)
  BY <1>2, <1>3
<1>5. /\ g \in [1..Len(s) -> {f}]
      /\ \A a, b \in 1..Len(s) : a < b => g[a] < g[b]
      /\ \E a \in 1..Len(s) : g[a] = f
      /\ \A a \in 1..Len(s) : s[a] = t[g[a]]
  BY <1>4 DEF Picks
<1>6. Len(s) \in Nat /\ f \in Nat
  BY <1>1, <1>3
<1>7. Len(s) = 1
  <2>1. Len(s) # 0
    BY <1>5, <1>6
  <2>2. ~(Len(s) > 1)
    <3> SUFFICES ASSUME Len(s) > 1 PROVE FALSE
      OBVIOUS
    <3>1. 1 \in 1..Len(s) /\ 2 \in 1..Len(s)
      BY <1>6
    <3>2. g[1] = f /\ g[2] = f /\ g[1] < g[2]
      BY <1>5, <3>1
    <3>3. QED
      BY <1>6, <3>2
  <2>3. \A n \in Nat : n # 0 /\ ~(n > 1) => n = 1
    OBVIOUS
  <2>4. QED
    BY <1>6, <2>1, <2>2, <2>3
<1>8. s[1] = t[f]
  BY <1>5, <1>7
<1>9. s = <<t[f]>>
  BY <1>3, <1>7, <1>8
<1>10. QED
  BY <1>9 DEF FirstLine, s

\* The tracks of a kind are those of its CDT lines, each once.
LEMMA TracksAre ==
  ASSUME NEW t, WellFormedLines(t), NEW kind
  PROVE  LET r == Tracks(t, kind)
         IN  /\ \E n \in Nat : r = [i \in 1..n |-> r[i]] /\ DOMAIN r = 1..n
             /\ \A i \in DOMAIN r : \E c \in CdtsOf(t, kind) : r[i] = t[c].n
             /\ \A c \in CdtsOf(t, kind) : \E i \in DOMAIN r : r[i] = t[c].n
             /\ \A i, j \in DOMAIN r : r[i] = r[j] => i = j
<1> DEFINE P == CdtsOf(t, kind)
           s == LinesAt(t, P)
           r == Tracks(t, kind)
<1>1. t \in Seq(Copyable)
  BY WellFormedIsText
<1>2. P \subseteq DOMAIN t /\ \A c \in P : c \in Anywhere(t, {"CDT"})
  BY DEF CdtsOf, Anywhere
<1>3. s \in Seq(Copyable) /\ \E g : Picks(t, P \cap DOMAIN t, s, g)
  BY <1>1, LinesAtPicks
<1>4. PICK g : Picks(t, P, s, g)
  BY <1>2, <1>3
<1>5. DOMAIN s = 1..Len(s) /\ Len(s) \in Nat
  BY <1>3
<1>6. r = [i \in 1..Len(s) |-> s[i].n]
  BY <1>5 DEF Tracks
<1> HIDE DEF P, s, r
<1>7. /\ g \in [1..Len(s) -> P]
      /\ \A a, b \in 1..Len(s) : a < b => g[a] < g[b]
      /\ \A q \in P : \E a \in 1..Len(s) : g[a] = q
      /\ \A a \in 1..Len(s) : s[a] = t[g[a]]
  BY <1>4 DEF Picks
<1>8. \A i \in 1..Len(s) : r[i] = t[g[i]].n
  BY <1>6, <1>7
<1>9. ASSUME NEW i \in 1..Len(s), NEW j \in 1..Len(s), r[i] = r[j] PROVE i = j
  <2>1. t[g[i]].n = t[g[j]].n /\ g[i] \in P /\ g[j] \in P
    BY <1>7, <1>8, <1>9
  <2>2. g[i] = g[j]
    BY <1>2, <2>1 DEF WellFormedLines
  <2>3. g[i] \in Nat
    BY <1>1, <1>2, <2>1
  <2>4. ~(i < j) /\ ~(j < i)
    BY <1>7, <2>2, <2>3
  <2>5. QED
    BY <2>4, <1>5
<1>10. \A i \in DOMAIN r : \E c \in P : r[i] = t[c].n
  BY <1>6, <1>7, <1>8
<1>11. \A c \in P : \E i \in DOMAIN r : r[i] = t[c].n
  BY <1>6, <1>7, <1>8
<1>12. DOMAIN r = 1..Len(s) /\ r = [i \in 1..Len(s) |-> r[i]]
  BY <1>6
<1>13. QED
  BY <1>5, <1>9, <1>10, <1>11, <1>12 DEF P, r

\* The type of a track is that of its CDT line.
LEMMA TypeIs ==
  ASSUME NEW t, WellFormedLines(t), NEW c \in DOMAIN t, t[c].att = "CDT"
  PROVE  /\ TrackType(t, t[c].n) = t[c].v /\ t[c].v \in ChannelTypes
         /\ TrackKind(t, t[c].n) = KindOf(t[c].v)
<1> DEFINE d == CHOOSE i \in DOMAIN t : t[i].att = "CDT" /\ t[i].n = t[c].n
<1>1. d \in DOMAIN t /\ t[d].att = "CDT" /\ t[d].n = t[c].n
  OBVIOUS
<1>2. TrackType(t, t[c].n) = t[d].v
  BY DEF TrackType
<1> HIDE DEF d
<1>3. c \in Anywhere(t, {"CDT"}) /\ d \in Anywhere(t, {"CDT"})
  BY <1>1 DEF Anywhere
<1>4. d = c
  BY <1>1, <1>3 DEF WellFormedLines
<1>5. t[c].v \in ChannelTypes
  BY <1>3 DEF WellFormedLines
<1>6. QED
  BY <1>2, <1>4, <1>5 DEF TrackKind

LEMMA TrackIs ==
  ASSUME NEW t, WellFormedLines(t), NEW kind, NEW i \in DOMAIN Tracks(t, kind)
  PROVE  LET k == Tracks(t, kind)[i]
         IN  /\ TrackKind(t, k) = kind /\ Place(t, k) = i
             /\ \E c \in DOMAIN t : t[c].att = "CDT" /\ t[c].n = k
             /\ \E f \in DOMAIN t : t[f].att = "TK1" /\ t[f].n = k
<1> DEFINE r == Tracks(t, kind)
<1>1. PICK c \in CdtsOf(t, kind) : r[i] = t[c].n
  BY TracksAre
<1>2. c \in DOMAIN t /\ t[c].att = "CDT" /\ KindOf(t[c].v) = kind /\ c \in Anywhere(t, {"CDT"})
  BY DEF CdtsOf, Anywhere
<1>3. TrackKind(t, r[i]) = kind
  BY <1>1, <1>2, TypeIs
<1>4. \E f \in Anywhere(t, {"TK1"}) : t[c].n = t[f].n
  BY <1>2 DEF WellFormedLines
<1>5. \E f \in DOMAIN t : t[f].att = "TK1" /\ t[f].n = r[i]
  BY <1>1, <1>4 DEF Anywhere
<1>6. \A a, b \in DOMAIN r : r[a] = r[b] => a = b
  BY TracksAre
<1>7. Place(t, r[i]) = CHOOSE a \in DOMAIN r : r[a] = r[i]
  BY <1>3 DEF Place
<1> HIDE DEF r
<1>8. i \in DOMAIN r
  BY DEF r
<1>9. Place(t, r[i]) = i
  BY <1>6, <1>7, <1>8
<1>10. QED
  BY <1>1, <1>2, <1>3, <1>5, <1>9 DEF r

\* What is copied of a track, if that is its own and has all it needs.
LEMMA CopiedPart ==
  ASSUME NEW t, WellFormedLines(t), NEW kind, NEW i \in DOMAIN Tracks(t, kind),
         NEW k, k = Tracks(t, kind)[i], NEW P, P \subseteq DOMAIN t,
         \A q \in P : ~Ends(t[q]) /\ (t[q].att \in Marks \cup {"CDT"} => t[q].n = k),
         \A q \in DOMAIN t : t[q].n = k /\ t[q].att \in MarksOf(kind) \cup {"CDT"} => q \in P
  PROVE  Part(t, FirstLine(t, k) \o LinesAt(t, P), {k})
<1> DEFINE w == LinesAt(t, P)
<1>1. t \in Seq(Copyable)
  BY WellFormedIsText
<1>2. /\ TrackKind(t, k) = kind
      /\ \E c \in DOMAIN t : t[c].att = "CDT" /\ t[c].n = k
      /\ \E f \in DOMAIN t : t[f].att = "TK1" /\ t[f].n = k
  BY TrackIs
<1>3. PICK f \in DOMAIN t : t[f].att = "TK1" /\ t[f].n = k
  BY <1>2
<1>4. FirstLine(t, k) = <<t[f]>>
  BY <1>3, FirstIsTK1
<1>5. /\ w \in Seq(Copyable)
      /\ \A a \in DOMAIN w : \E q \in P : q \in DOMAIN t /\ w[a] = t[q]
      /\ \A q \in P : \E a \in DOMAIN w : w[a] = t[q]
  <2>1. /\ w \in Seq(Copyable)
        /\ \A a \in DOMAIN w : \E q \in P : q \in DOMAIN t /\ w[a] = t[q]
    BY <1>1, LinesAreAtP
  <2>2. ASSUME NEW q \in P PROVE \E a \in DOMAIN w : w[a] = t[q]
    <3>1. q \in DOMAIN t
      OBVIOUS
    <3>2. QED
      BY <1>1, <3>1, AllLinesAtP
  <2>3. QED
    BY <2>1, <2>2
<1> HIDE DEF w
<1>6. \A a \in DOMAIN w : /\ \E q \in DOMAIN t : w[a] = t[q]
                          /\ ~Ends(w[a])
                          /\ w[a].att \in Marks \cup {"CDT"} => w[a].n = t[f].n
  BY <1>3, <1>5
<1>7. \E a \in DOMAIN w : w[a].att = "CDT"
  <2>1. PICK c \in DOMAIN t : t[c].att = "CDT" /\ t[c].n = k
    BY <1>2
  <2>2. c \in P
    BY <2>1
  <2>3. QED
    BY <1>5, <2>1, <2>2
<1>8. ASSUME NEW q \in Positions(t, MarksOf(TrackKind(t, t[f].n))), t[q].n = t[f].n
      PROVE  \E a \in DOMAIN w : w[a] = t[q]
  <2>1. q \in DOMAIN t /\ t[q].att \in MarksOf(kind)
    BY <1>2, <1>3 DEF Positions
  <2>2. q \in P
    BY <1>3, <1>8, <2>1
  <2>3. QED
    BY <1>5, <2>2
<1>9. Part(t, <<t[f]>> \o w, {t[f].n})
  BY <1>1, <1>3, <1>5, <1>6, <1>7, <1>8, TrackPart
<1>10. QED
  BY <1>3, <1>4, <1>9 DEF w

\* FlattenSeq is what its definition says.
LEMMA Flattened ==
  ASSUME NEW L, NEW segs \in Seq(L), Len(segs) # 0
  PROVE  \E flat :
           /\ flat = [i \in 1..Len(segs) |-> IF i = 1 THEN segs[i] ELSE flat[i - 1] \o segs[i]]
           /\ FlattenSeq(segs) = flat[Len(segs)]
<1> DEFINE Body(f, i) == IF i = 1 THEN segs[i] ELSE f[i - 1] \o segs[i]
           Flat(m, f) == f = [i \in 1..m |-> Body(f, i)]
           S == {m \in Nat : \E f : Flat(m, f)}
<1>0. Len(segs) \in Nat
  OBVIOUS
<1>1. 0 \in S
  <2>1. Flat(0, <<>>)
    OBVIOUS
  <2>2. QED
    BY <2>1
<1>2. ASSUME NEW m \in Nat, m \in S PROVE m + 1 \in S
  <2>1. PICK f : Flat(m, f)
    BY <1>2
  <2> DEFINE g == [i \in 1..(m + 1) |-> Body(f, i)]
  <2>2. ASSUME NEW i \in 1..m PROVE g[i] = f[i]
    <3> HIDE DEF Body
    <3>1. i \in 1..(m + 1) /\ g[i] = Body(f, i) /\ f[i] = Body(f, i)
      BY <2>1
    <3>2. QED
      BY <3>1
  <2>3. ASSUME NEW i \in 1..(m + 1) PROVE Body(g, i) = Body(f, i)
    <3>1. i = 1 \/ i - 1 \in 1..m
      OBVIOUS
    <3>2. i = 1 \/ g[i - 1] = f[i - 1]
      BY <3>1, <2>2
    <3> HIDE DEF g
    <3>3. QED
      BY <3>2
  <2>4. Flat(m + 1, g)
    <3> HIDE DEF Body
    <3>1. QED BY <2>3
  <2> HIDE DEF Flat, g
  <2>5. QED
    BY <2>4
<1>3. Len(segs) \in S
  <2> HIDE DEF S
  <2>1. QED BY <1>0, <1>1, <1>2, InductionBySet
<1>4. \E f : Flat(Len(segs), f)
  BY <1>3
<1>5. LET flat == CHOOSE f : Flat(Len(segs), f)
      IN  Flat(Len(segs), flat) /\ FlattenSeq(segs) = flat[Len(segs)]
  BY <1>4 DEF FlattenSeq
<1>6. QED
  BY <1>5

\* The tracks of a kind are in order.
LEMMA PlacesRise ==
  ASSUME NEW t, WellFormedLines(t), NEW kind,
         NEW i \in DOMAIN Tracks(t, kind), NEW j \in DOMAIN Tracks(t, kind), i < j
  PROVE  Before(t, Tracks(t, kind)[i], Tracks(t, kind)[j])
BY TrackIs DEF Before

\* The parts of tracks in their order, one after the other.
LEMMA KindPart ==
  ASSUME NEW t, WellFormedLines(t), NEW kind, NEW segs,
         segs = [i \in DOMAIN Tracks(t, kind) |-> segs[i]],
         \A i \in DOMAIN Tracks(t, kind) : Part(t, segs[i], {Tracks(t, kind)[i]})
  PROVE  Part(t, FlattenSeq(segs), {Tracks(t, kind)[i] : i \in DOMAIN Tracks(t, kind)})
<1>a. PICK n \in Nat : DOMAIN Tracks(t, kind) = 1..n
  BY TracksAre
<1> DEFINE r == Tracks(t, kind)
<1>b. /\ segs = [i \in 1..n |-> segs[i]] /\ DOMAIN r = 1..n
      /\ \A i \in 1..n : Part(t, segs[i], {r[i]})
      /\ \A i, j \in 1..n : i < j => Before(t, r[i], r[j])
  BY <1>a, PlacesRise
<1> SUFFICES Part(t, FlattenSeq(segs), {r[i] : i \in 1..n})
  BY <1>b
<1> HIDE DEF r
<1>1. segs \in Seq(Seq(Copyable)) /\ Len(segs) = n
  <2>1. \A i \in 1..n : segs[i] \in Seq(Copyable)
    BY <1>b DEF Part
  <2>2. segs \in [1..n -> Seq(Copyable)]
    BY <1>b, <2>1
  <2>3. QED
    BY <2>2
<1>2. CASE n = 0
  <2>1. FlattenSeq(segs) = segs /\ segs = <<>>
    BY <1>1, <1>2 DEF FlattenSeq
  <2>2. Part(t, <<>>, {})
    <3>1. <<>> \in Seq(Copyable) /\ DOMAIN <<>> = {}
      OBVIOUS
    <3>2. QED
      BY <3>1, PlainPart DEF LinesKept
  <2>3. {r[i] : i \in 1..n} = {}
    <3>1. 1..n = {}
      BY <1>2
    <3>2. QED
      BY <3>1
  <2>4. QED
    BY <2>1, <2>2, <2>3
<1>3. CASE n # 0
  <2>1. PICK flat :
          /\ flat = [i \in 1..n |-> IF i = 1 THEN segs[i] ELSE flat[i - 1] \o segs[i]]
          /\ FlattenSeq(segs) = flat[n]
    BY <1>1, <1>3, Flattened
  <2> DEFINE N(m) == {r[i] : i \in 1..m}
             S == {m \in Nat : m + 1 <= n => Part(t, flat[m + 1], N(m + 1))}
  <2>2. 0 \in S
    <3>1. flat[1] = segs[1]
      BY <1>3, <2>1
    <3>2. N(1) = {r[1]}
      OBVIOUS
    <3>3. QED
      BY <1>b, <1>3, <3>1, <3>2
  <2>3. ASSUME NEW m \in Nat, m \in S PROVE m + 1 \in S
    <3> SUFFICES ASSUME (m + 1) + 1 <= n PROVE Part(t, flat[(m + 1) + 1], N((m + 1) + 1))
      OBVIOUS
    <3> DEFINE j == (m + 1) + 1
    <3>1. j \in 1..n /\ j # 1 /\ j - 1 = m + 1
      OBVIOUS
    <3>2. flat[j] = flat[m + 1] \o segs[j]
      BY <2>1, <3>1
    <3>3. Part(t, flat[m + 1], N(m + 1)) /\ Part(t, segs[j], {r[j]})
      BY <1>b, <2>3, <3>1
    <3>4. \A a \in N(m + 1), b \in {r[j]} : Before(t, a, b)
      <4> SUFFICES ASSUME NEW i \in 1..(m + 1) PROVE Before(t, r[i], r[j])
        OBVIOUS
      <4>1. i \in 1..n /\ i < j
        BY <3>1
      <4>2. QED
        BY <1>b, <3>1, <4>1
    <3>5. N(j) = N(m + 1) \cup {r[j]}
      <4>1. 1..j = (1..(m + 1)) \cup {j}
        OBVIOUS
      <4>2. QED
        BY <4>1
    <3> HIDE DEF j, N
    <3>6. Part(t, flat[m + 1] \o segs[j], N(m + 1) \cup {r[j]})
      BY <3>3, <3>4, PartJoined
    <3>7. QED
      BY <3>2, <3>5, <3>6 DEF j
  <2>4. n - 1 \in Nat /\ (n - 1) + 1 = n
    BY <1>3
  <2>5. n - 1 \in S
    <3> HIDE DEF S
    <3>1. QED BY <2>2, <2>3, <2>4, InductionBySet
  <2>6. Part(t, flat[(n - 1) + 1], N((n - 1) + 1))
    <3> HIDE DEF N
    <3>1. (n - 1) + 1 <= n
      BY <2>4
    <3>2. QED
      BY <2>5, <3>1
  <2>7. QED
    BY <2>1, <2>4, <2>6
<1>4. QED
  BY <1>2, <1>3


EndAtts == {"TK1", "COM"} \cup EventAtts \cup IndexAtts
TrackNumbers(t, kind) == {Tracks(t, kind)[i] : i \in DOMAIN Tracks(t, kind)}

\* What is copied of the tracks of a kind of which there may be many.
LEMMA TrackLinesPart ==
  ASSUME NEW t, WellFormedLines(t), NEW kind, NEW i \in DOMAIN Tracks(t, kind), NEW copied,
         "CDT" \in copied, MarksOf(kind) \subseteq copied, copied \cap EndAtts = {}
  PROVE  Part(t, TrackLines(t, Tracks(t, kind)[i], copied), {Tracks(t, kind)[i]})
<1> DEFINE k == Tracks(t, kind)[i]
           P == Own(t, k, copied)
<1>1. /\ P \subseteq DOMAIN t
      /\ \A q \in P : ~Ends(t[q]) /\ t[q].n = k
      /\ \A q \in DOMAIN t : t[q].n = k /\ t[q].att \in MarksOf(kind) \cup {"CDT"} => q \in P
  BY DEF Own, Ends, EndAtts
<1> HIDE DEF P
<1>2. Part(t, FirstLine(t, k) \o LinesAt(t, P), {k})
  BY <1>1, CopiedPart
<1>3. QED
  BY <1>2 DEF TrackLines, P

\* There is no track without a number.
LEMMA NoneFirst ==
  ASSUME NEW t, WellFormedLines(t)
  PROVE  FirstLine(t, NoTrack) = <<>>
<1>1. t \in Seq(Copyable)
  BY WellFormedIsText
<1> DEFINE s == FirstLine(t, NoTrack)
<1>2. Own(t, NoTrack, {"TK1"}) = {}
  BY DEF Own, Anywhere, WellFormedLines
<1>3. s = LinesAt(t, {})
  BY <1>2 DEF FirstLine
<1>4. s \in Seq(Copyable) /\ \A a \in DOMAIN s : FALSE
  BY <1>1, <1>3, LinesAreAtP
<1> HIDE DEF s
<1>5. s = <<>>
  <2>1. Len(s) \in Nat /\ DOMAIN s = 1..Len(s)
    BY <1>4
  <2>2. Len(s) = 0
    <3>1. 1 \notin DOMAIN s
      BY <1>4
    <3>2. \A n \in Nat : 1 \notin 1..n => n = 0
      OBVIOUS
    <3>3. QED
      BY <2>1, <3>1, <3>2
  <2>3. QED
    BY <1>4, <2>2
<1>6. QED
  BY <1>5 DEF s

\* What is copied for the one track of a kind, if there is one.
LEMMA SinglePart ==
  ASSUME NEW t, WellFormedLines(t), NEW kind \in {"time", "eth"}, NEW numbered, NEW plain,
         "CDT" \in numbered, "CDT" \notin plain,
         (numbered \cup plain) \cap (EndAtts \cup Marks) = {},
         NEW n, n = LastTrack(Tracks(t, kind), NoTrack)
  PROVE  Part(t, FirstLine(t, n) \o LinesAt(t, Own(t, n, numbered) \cup Anywhere(t, plain)),
              TrackNumbers(t, kind))
<1> DEFINE r == Tracks(t, kind)
           P == Own(t, n, numbered) \cup Anywhere(t, plain)
<1>1. t \in Seq(Copyable)
  BY WellFormedIsText
<1>2. PICK m \in Nat : DOMAIN r = 1..m /\ r = [i \in 1..m |-> r[i]]
  BY TracksAre
<1>3. /\ P \subseteq DOMAIN t
      /\ \A q \in P : ~Ends(t[q]) /\ t[q].att \notin Marks /\ (t[q].att = "CDT" => t[q].n = n)
      /\ \A q \in DOMAIN t : t[q].n = n /\ t[q].att = "CDT" => q \in P
  BY DEF Own, Anywhere, Ends, EndAtts
<1>4. CASE m = 0
  <2>1. r = <<>>
    BY <1>2, <1>4
  <2>2. n = NoTrack /\ TrackNumbers(t, kind) = {}
    BY <2>1 DEF LastTrack, TrackNumbers
  <2> DEFINE w == LinesAt(t, P)
  <2>3. w \in Seq(Copyable) /\ \A a \in DOMAIN w : \E q \in P : w[a] = t[q]
    <3> HIDE DEF P
    <3>1. w \in Seq(Copyable)
      BY <1>1, LinesAreAtP
    <3>2. \A a \in DOMAIN w : \E q \in P : w[a] = t[q]
      BY <1>1, LinesAreAtP
    <3>3. QED
      BY <3>1, <3>2
  <2>4. FirstLine(t, n) \o w = w
    BY <2>2, <2>3, NoneFirst
  <2> HIDE DEF w, P
  <2>5. LinesKept(t, w) /\ \A a \in DOMAIN w : w[a].att \notin Marks \cup {"TK1"}
    <3>1. \A q \in P : t[q].att # "TK1"
      BY <1>3 DEF Ends
    <3>2. QED
      BY <1>3, <2>3, <3>1 DEF LinesKept
  <2>6. Part(t, w, {})
    BY <2>3, <2>5, PlainPart
  <2>7. QED
    BY <2>2, <2>4, <2>6 DEF P, w
<1>5. CASE m # 0
  <2>1. ASSUME NEW i \in DOMAIN r, NEW j \in DOMAIN r PROVE i = j
    <3>1. PICK c \in CdtsOf(t, kind) : r[i] = t[c].n
      BY TracksAre
    <3>2. PICK d \in CdtsOf(t, kind) : r[j] = t[d].n
      BY TracksAre
    <3>3. c = d
      BY DEF WellFormedLines
    <3>4. QED
      BY <3>1, <3>2, <3>3, TracksAre
  <2>2. m = 1
    <3>1. 1 \in 1..m /\ m \in 1..m
      BY <1>2, <1>5
    <3>2. QED
      BY <1>2, <2>1, <3>1
  <2>3. DOMAIN r = {1} /\ r = <<r[1]>>
    BY <1>2, <2>2
  <2>4. n = r[1] /\ TrackNumbers(t, kind) = {r[1]}
    <3>1. r # <<>> /\ r[Len(r)] = r[1]
      <4>1. r # <<>> /\ Len(<<r[1]>>) = 1
        BY <2>3
      <4> HIDE DEF r
      <4>2. QED
        BY <2>3, <4>1
    <3>2. QED
      BY <2>3, <3>1 DEF LastTrack, TrackNumbers
  <2>5. MarksOf(kind) = {}
    BY DEF MarksOf
  <2> HIDE DEF P
  <2>6. Part(t, FirstLine(t, n) \o LinesAt(t, P), {n})
    <3>1. 1 \in DOMAIN Tracks(t, kind) /\ n = Tracks(t, kind)[1]
      BY <2>3, <2>4
    <3> HIDE DEF r
    <3>2. /\ \A q \in P : ~Ends(t[q]) /\ (t[q].att \in Marks \cup {"CDT"} => t[q].n = n)
          /\ \A q \in DOMAIN t : t[q].n = n /\ t[q].att \in MarksOf(kind) \cup {"CDT"} => q \in P
      BY <1>3, <2>5
    <3>3. QED
      BY <1>3, <3>1, <3>2, CopiedPart
  <2>7. QED
    BY <2>4, <2>6 DEF P
<1>6. QED
  BY <1>4, <1>5

LEMMA VideoPart ==
  ASSUME NEW t, WellFormedLines(t)
  PROVE  Part(t, VideoLines(t), TrackNumbers(t, "video"))
<1> DEFINE r == Tracks(t, "video")
           copied == VideoRecorder \union VideoOverlay \union VideoVendor
           P(i) == Own(t, r[i], copied) \union Own(t, i, VideoPlaced)
           segs == [i \in DOMAIN r |-> FirstLine(t, r[i]) \o LinesAt(t, P(i))]
<1>1. ASSUME NEW i \in DOMAIN r PROVE Part(t, segs[i], {r[i]})
  <2>1. copied \cap EndAtts = {} /\ "CDT" \in copied
    BY DEF VideoRecorder, VideoOverlay, VideoVendor, EndAtts, EventAtts, IndexAtts
  <2>2. VideoPlaced \cap (EndAtts \cup Marks \cup {"CDT"}) = {}
    BY DEF VideoPlaced, EndAtts, EventAtts, IndexAtts, Marks
  <2> HIDE DEF copied
  <2>3. /\ P(i) \subseteq DOMAIN t
        /\ \A q \in P(i) : ~Ends(t[q]) /\ (t[q].att \in Marks \cup {"CDT"} => t[q].n = r[i])
        /\ \A q \in DOMAIN t : t[q].n = r[i] /\ t[q].att \in {"CDT"} => q \in P(i)
    BY <2>1, <2>2 DEF Own, Ends, EndAtts
  <2>4. MarksOf("video") \cup {"CDT"} = {"CDT"}
    BY DEF MarksOf
  <2> HIDE DEF P
  <2>5. Part(t, FirstLine(t, r[i]) \o LinesAt(t, P(i)), {r[i]})
    BY <2>3, <2>4, CopiedPart
  <2>6. QED
    BY <2>5
<1>2. segs = [i \in DOMAIN r |-> segs[i]]
  OBVIOUS
<1>3. VideoLines(t) = FlattenSeq(segs)
  BY DEF VideoLines
<1> HIDE DEF segs
<1>4. Part(t, FlattenSeq(segs), {r[i] : i \in DOMAIN r})
  BY <1>1, <1>2, KindPart
<1>5. QED
  BY <1>3, <1>4 DEF TrackNumbers

LEMMA SeparatorPart ==
  ASSUME NEW t
  PROVE  Part(t, Separator, {})
<1>1. Separator \in Seq(Copyable) /\ DOMAIN Separator = {1} /\ Separator[1].att = "COM"
  BY DEF Separator, Copyable
<1>2. QED
  BY <1>1, PlainPart DEF LinesKept, Marks

LEMMA PcmPart ==
  ASSUME NEW t, WellFormedLines(t)
  PROVE  Part(t, PcmLines(t), TrackNumbers(t, "pcm"))
<1> DEFINE r == Tracks(t, "pcm")
           copied == PcmRecorder \union PcmVendor
           P(i) == Own(t, r[i], copied) \union LinkLines(t, i)
           segs == [i \in DOMAIN r |-> FirstLine(t, r[i]) \o LinesAt(t, P(i)) \o Separator]
<1>1. ASSUME NEW i \in DOMAIN r PROVE Part(t, segs[i], {r[i]})
  <2>1. copied \cap EndAtts = {} /\ {"CDT", "CUCE"} \subseteq copied
    BY DEF PcmRecorder, PcmVendor, EndAtts, EventAtts, IndexAtts
  <2>2. LinkAtts \cap (EndAtts \cup Marks \cup {"CDT"}) = {}
    BY DEF LinkAtts, EndAtts, EventAtts, IndexAtts, Marks
  <2> HIDE DEF copied
  <2>3. \A q \in LinkLines(t, i) : q \in DOMAIN t /\ t[q].att \in LinkAtts
    BY DEF LinkLines
  <2>4. MarksOf("pcm") = {"CUCE"}
    BY DEF MarksOf
  <2>5. /\ P(i) \subseteq DOMAIN t
        /\ \A q \in P(i) : ~Ends(t[q]) /\ (t[q].att \in Marks \cup {"CDT"} => t[q].n = r[i])
        /\ \A q \in DOMAIN t : t[q].n = r[i] /\ t[q].att \in MarksOf("pcm") \cup {"CDT"} => q \in P(i)
    BY <2>1, <2>2, <2>3, <2>4 DEF Own, Ends, EndAtts
  <2> HIDE DEF P
  <2>6. Part(t, FirstLine(t, r[i]) \o LinesAt(t, P(i)), {r[i]})
    BY <2>5, CopiedPart
  <2>7. Part(t, (FirstLine(t, r[i]) \o LinesAt(t, P(i))) \o Separator, {r[i]} \cup {})
    BY <2>6, SeparatorPart, PartJoined
  <2>8. QED
    BY <2>7
<1>2. segs = [i \in DOMAIN r |-> segs[i]]
  OBVIOUS
<1>3. PcmLines(t) = FlattenSeq(segs)
  BY DEF PcmLines
<1> HIDE DEF segs
<1>4. Part(t, FlattenSeq(segs), {r[i] : i \in DOMAIN r})
  BY <1>1, <1>2, KindPart
<1>5. QED
  BY <1>3, <1>4 DEF TrackNumbers

LEMMA VoicePart ==
  ASSUME NEW t, WellFormedLines(t)
  PROVE  Part(t, VoiceLines(t), TrackNumbers(t, "voice"))
<1> DEFINE r == Tracks(t, "voice")
           segs == [i \in DOMAIN r |-> TrackLines(t, r[i], VoiceCopied)]
<1>1. "CDT" \in VoiceCopied /\ MarksOf("voice") \subseteq VoiceCopied /\ VoiceCopied \cap EndAtts = {}
  BY DEF VoiceCopied, MarksOf, EndAtts, EventAtts, IndexAtts
<1>2. \A i \in DOMAIN r : Part(t, segs[i], {r[i]})
  BY <1>1, TrackLinesPart
<1>3. segs = [i \in DOMAIN r |-> segs[i]]
  OBVIOUS
<1>4. VoiceLines(t) = FlattenSeq(segs)
  BY DEF VoiceLines
<1> HIDE DEF segs
<1>5. Part(t, FlattenSeq(segs), {r[i] : i \in DOMAIN r})
  BY <1>2, <1>3, KindPart
<1>6. QED
  BY <1>4, <1>5 DEF TrackNumbers

LEMMA M1553Part ==
  ASSUME NEW t, WellFormedLines(t)
  PROVE  Part(t, M1553Lines(t), TrackNumbers(t, "m1553"))
<1> DEFINE r == Tracks(t, "m1553")
           copied == M1553Recorder \union M1553Vendor
           segs == [i \in DOMAIN r |-> TrackLines(t, r[i], copied)]
<1>1. "CDT" \in copied /\ MarksOf("m1553") \subseteq copied /\ copied \cap EndAtts = {}
  BY DEF M1553Recorder, M1553Vendor, MarksOf, EndAtts, EventAtts, IndexAtts
<1>2. \A i \in DOMAIN r : Part(t, segs[i], {r[i]})
  <2> HIDE DEF copied
  <2>1. QED BY <1>1, TrackLinesPart
<1>3. segs = [i \in DOMAIN r |-> segs[i]]
  OBVIOUS
<1>4. M1553Lines(t) = FlattenSeq(segs)
  BY DEF M1553Lines
<1> HIDE DEF segs
<1>5. Part(t, FlattenSeq(segs), {r[i] : i \in DOMAIN r})
  BY <1>2, <1>3, KindPart
<1>6. QED
  BY <1>4, <1>5 DEF TrackNumbers

\* Lines copied wherever they are.
LEMMA AnywherePart ==
  ASSUME NEW t, WellFormedLines(t), NEW copied, copied \cap (Marks \cup {"TK1"}) = {}
  PROVE  Part(t, LinesAt(t, Anywhere(t, copied)), {})
<1> DEFINE w == LinesAt(t, Anywhere(t, copied))
<1>1. t \in Seq(Copyable)
  BY WellFormedIsText
<1>2. w \in Seq(Copyable)
  BY <1>1, LinesAreAtP
<1>3. \A a \in DOMAIN w : \E q \in Anywhere(t, copied) : q \in DOMAIN t /\ w[a] = t[q]
  BY <1>1, LinesAreAtP
<1> HIDE DEF w
<1>4. LinesKept(t, w) /\ \A a \in DOMAIN w : w[a].att \notin Marks \cup {"TK1"}
  BY <1>3 DEF LinesKept, Anywhere
<1>5. QED
  BY <1>2, <1>4, PlainPart DEF w

\* Tracks of different kinds are in any order.
LEMMA KindsApart ==
  ASSUME NEW t, WellFormedLines(t), NEW a, NEW b, a # b,
         NEW k \in TrackNumbers(t, a), NEW m \in TrackNumbers(t, b)
  PROVE  Before(t, k, m)
<1>1. PICK i \in DOMAIN Tracks(t, a) : k = Tracks(t, a)[i]
  BY DEF TrackNumbers
<1>2. PICK j \in DOMAIN Tracks(t, b) : m = Tracks(t, b)[j]
  BY DEF TrackNumbers
<1>3. TrackKind(t, k) = a
  BY <1>1, TrackIs
<1>4. TrackKind(t, m) = b
  BY <1>2, TrackIs
<1>5. QED
  BY <1>3, <1>4 DEF Before

SomeNumbers(t, kinds) == UNION {TrackNumbers(t, kind) : kind \in kinds}

LEMMA PartAdded ==
  ASSUME NEW t, WellFormedLines(t), NEW s, NEW u, NEW kinds, NEW kind, kind \notin kinds,
         Part(t, s, SomeNumbers(t, kinds)), Part(t, u, TrackNumbers(t, kind))
  PROVE  Part(t, s \o u, SomeNumbers(t, kinds \cup {kind}))
<1>1. ASSUME NEW k \in SomeNumbers(t, kinds), NEW m \in TrackNumbers(t, kind) PROVE Before(t, k, m)
  <2>1. PICK a \in kinds : k \in TrackNumbers(t, a)
    BY DEF SomeNumbers
  <2>2. QED
    BY <2>1, KindsApart
<1>2. SomeNumbers(t, kinds) \cup TrackNumbers(t, kind) = SomeNumbers(t, kinds \cup {kind})
  BY DEF SomeNumbers
<1>3. Part(t, s \o u, SomeNumbers(t, kinds) \cup TrackNumbers(t, kind))
  BY <1>1, PartJoined
<1>4. QED
  BY <1>2, <1>3

LEMMA PlainAdded ==
  ASSUME NEW t, NEW s, NEW u, NEW N, Part(t, s, N), Part(t, u, {})
  PROVE  Part(t, s \o u, N)
<1>1. Part(t, s \o u, N \cup {})
  BY PartJoined
<1>2. QED
  BY <1>1

CopiedKinds == {"time", "voice", "m1553", "video", "eth", "pcm"}

\* The sorted text has every track of the file.
LEMMA SortedPart ==
  ASSUME NEW text, WellFormed(text)
  PROVE  Part(Visible(text), Sorted(text), SomeNumbers(Visible(text), CopiedKinds))
<1> DEFINE t == Visible(text)
<1>1. WellFormedLines(t)
  BY DEF WellFormed
<1>2. Part(t, GeneralLines(t), {})
  <2>1. (GeneralCopied \union ConversionAtts) \cap (Marks \cup {"TK1"}) = {}
    BY DEF GeneralCopied, ConversionAtts, Marks
  <2>2. QED
    BY <1>1, <2>1, AnywherePart DEF GeneralLines
<1>3. Part(t, TimeLines(t), TrackNumbers(t, "time"))
  <2>1. /\ "CDT" \in TimeNumbered /\ "CDT" \notin TimePlain
        /\ (TimeNumbered \cup TimePlain) \cap (EndAtts \cup Marks) = {}
    BY DEF TimeNumbered, TimePlain, EndAtts, EventAtts, IndexAtts, Marks
  <2>2. QED
    BY <1>1, <2>1, SinglePart DEF TimeLines
<1>4. Part(t, EthernetLines(t), TrackNumbers(t, "eth"))
  <2>1. /\ "CDT" \in EthernetNumbered /\ "CDT" \notin EthernetPlain
        /\ (EthernetNumbered \cup EthernetPlain) \cap (EndAtts \cup Marks) = {}
    BY DEF EthernetNumbered, EthernetPlain, EndAtts, EventAtts, IndexAtts, Marks
  <2>2. QED
    BY <1>1, <2>1, SinglePart DEF EthernetLines
<1>5. Part(t, RestLines(t), {})
  <2>1. (EventAtts \union IndexAtts \union VideoPlaced) \cap (Marks \cup {"TK1"}) = {}
    BY DEF EventAtts, IndexAtts, VideoPlaced, Marks
  <2>2. QED
    BY <1>1, <2>1, AnywherePart DEF RestLines
<1>6. /\ Part(t, VoiceLines(t), TrackNumbers(t, "voice")) /\ Part(t, M1553Lines(t), TrackNumbers(t, "m1553"))
      /\ Part(t, VideoLines(t), TrackNumbers(t, "video")) /\ Part(t, PcmLines(t), TrackNumbers(t, "pcm"))
  BY <1>1, VoicePart, M1553Part, VideoPart, PcmPart
<1> DEFINE A1 == GeneralLines(t) \o TimeLines(t)
           A2 == A1 \o VoiceLines(t)
           A3 == A2 \o M1553Lines(t)
           A4 == A3 \o VideoLines(t)
           A5 == A4 \o EthernetLines(t)
           A6 == A5 \o Separator
           A7 == A6 \o PcmLines(t)
           A8 == A7 \o RestLines(t)
<1>7. Sorted(text) = A8
  BY DEF Sorted
<1>8. Part(t, GeneralLines(t), SomeNumbers(t, {}))
  <2>1. SomeNumbers(t, {}) = {}
    BY DEF SomeNumbers
  <2>2. QED
    BY <1>2, <2>1
<1> HIDE DEF t
<1>9. Part(t, A1, SomeNumbers(t, {} \cup {"time"}))
  BY <1>1, <1>3, <1>8, PartAdded
<1> HIDE DEF A1
<1>10. Part(t, A2, SomeNumbers(t, ({} \cup {"time"}) \cup {"voice"}))
  BY <1>1, <1>6, <1>9, PartAdded
<1> HIDE DEF A2
<1>11. Part(t, A3, SomeNumbers(t, (({} \cup {"time"}) \cup {"voice"}) \cup {"m1553"}))
  BY <1>1, <1>6, <1>10, PartAdded
<1> HIDE DEF A3
<1>12. Part(t, A4, SomeNumbers(t, {"time", "voice", "m1553"} \cup {"video"}))
  <2>1. ({} \cup {"time"}) \cup {"voice"} \cup {"m1553"} = {"time", "voice", "m1553"}
    OBVIOUS
  <2>2. QED
    BY <1>1, <1>6, <1>11, <2>1, PartAdded
<1> HIDE DEF A4
<1>13. Part(t, A5, SomeNumbers(t, {"time", "voice", "m1553", "video"} \cup {"eth"}))
  <2>1. {"time", "voice", "m1553"} \cup {"video"} = {"time", "voice", "m1553", "video"}
    OBVIOUS
  <2>2. QED
    BY <1>1, <1>4, <1>12, <2>1, PartAdded
<1> HIDE DEF A5
<1>14. Part(t, A6, SomeNumbers(t, {"time", "voice", "m1553", "video", "eth"}))
  <2>1. {"time", "voice", "m1553", "video"} \cup {"eth"} = {"time", "voice", "m1553", "video", "eth"}
    OBVIOUS
  <2>2. QED
    BY <1>13, <2>1, SeparatorPart, PlainAdded
<1> HIDE DEF A6
<1>15. Part(t, A7, SomeNumbers(t, {"time", "voice", "m1553", "video", "eth"} \cup {"pcm"}))
  BY <1>1, <1>6, <1>14, PartAdded
<1> HIDE DEF A7
<1>16. Part(t, A8, SomeNumbers(t, CopiedKinds))
  <2>1. {"time", "voice", "m1553", "video", "eth"} \cup {"pcm"} = CopiedKinds
    BY DEF CopiedKinds
  <2>2. QED
    BY <1>5, <1>15, <2>1, PlainAdded
<1>17. QED
  BY <1>7, <1>16 DEF t

-----------------------------------------------------------------------------
(* What the parser finds in the sorted text.                               *)

\* The lines of a track: up to the next line that ends one.
LEMMA BlockIs ==
  ASSUME NEW s \in Seq(Copyable), NEW p \in DOMAIN s
  PROVE  \E e \in p..Len(s) :
           /\ Block(s, p) = SubSeq(s, p, e)
           /\ \A r \in (p + 1)..e : ~Ends(s[r])
           /\ e = Len(s) \/ Ends(s[e + 1])
<1> DEFINE ends == {j \in (p + 1)..Len(s) : Ends(s[j])}
<1>1. p \in Nat /\ Len(s) \in Nat /\ p <= Len(s)
  OBVIOUS
<1>2. CASE ends = {}
  <2>1. Block(s, p) = SubSeq(s, p, Len(s))
    BY <1>2 DEF Block
  <2>2. \A r \in (p + 1)..Len(s) : ~Ends(s[r])
    BY <1>2
  <2>3. Len(s) \in p..Len(s)
    BY <1>1
  <2>4. QED
    BY <2>1, <2>2, <2>3
<1>3. CASE ends # {}
  <2> DEFINE m == CHOOSE j \in ends : \A k \in ends : j <= k
  <2>1. \E j \in ends : \A k \in ends : j <= k
    <3>1. ends \subseteq Nat
      BY <1>1
    <3> HIDE DEF ends
    <3>2. QED
      BY <1>3, <3>1, LeastNat
  <2>2. m \in ends /\ \A k \in ends : m <= k
    <3> HIDE DEF ends
    <3>1. QED BY <2>1
  <2>3. Block(s, p) = SubSeq(s, p, m - 1)
    BY <1>3 DEF Block
  <2> HIDE DEF m
  <2>4. m \in Nat /\ m - 1 \in p..Len(s) /\ (m - 1) + 1 = m /\ Ends(s[m])
    BY <1>1, <2>2
  <2>5. ASSUME NEW r \in (p + 1)..(m - 1) PROVE ~Ends(s[r])
    <3>1. r \in (p + 1)..Len(s) /\ ~(m <= r)
      BY <1>1, <2>4
    <3>2. QED
      BY <2>2, <3>1
  <2>6. QED
    BY <2>3, <2>4, <2>5
<1>4. QED
  BY <1>2, <1>3

\* What is in a block.
LEMMA InBlock ==
  ASSUME NEW s \in Seq(Copyable), NEW p \in DOMAIN s
  PROVE  LET b == Block(s, p)
         IN  /\ b \in Seq(Copyable) /\ Len(b) >= 1 /\ b[1] = s[p]
             /\ \A a \in 2..Len(b) : b[a].att # "TK1"
             /\ \A a \in DOMAIN b : a # 1 => \E q \in DOMAIN s : b[a] = s[q] /\ Within(s, p, q)
             /\ \A q \in DOMAIN s : Within(s, p, q) => \E a \in DOMAIN b : b[a] = s[q]
<1>1. PICK e \in p..Len(s) :
        /\ Block(s, p) = SubSeq(s, p, e)
        /\ \A r \in (p + 1)..e : ~Ends(s[r])
        /\ e = Len(s) \/ Ends(s[e + 1])
  BY BlockIs
<1> DEFINE b == SubSeq(s, p, e)
<1>2. /\ p \in Nat /\ e \in Nat /\ Len(s) \in Nat /\ 1 <= p /\ p <= e /\ e <= Len(s)
      /\ DOMAIN s = 1..Len(s)
  OBVIOUS
<1>3. /\ b \in Seq(Copyable) /\ Len(b) = e - p + 1 /\ DOMAIN b = 1..(e - p + 1)
      /\ \A a \in 1..(e - p + 1) : b[a] = s[p + a - 1]
  BY <1>2
<1> HIDE DEF b
<1>4. Len(b) >= 1 /\ b[1] = s[p]
  BY <1>2, <1>3
<1>5. ASSUME NEW a \in 2..(e - p + 1)
      PROVE  /\ p + a - 1 \in DOMAIN s /\ b[a] = s[p + a - 1] /\ Within(s, p, p + a - 1)
             /\ ~Ends(b[a])
  <2>1. p + a - 1 \in DOMAIN s /\ p < p + a - 1 /\ p + a - 1 \in (p + 1)..e
    BY <1>2
  <2>2. b[a] = s[p + a - 1]
    BY <1>2, <1>3
  <2>3. \A r \in (p + 1)..(p + a - 1) : r \in (p + 1)..e
    BY <1>2
  <2>4. QED
    BY <1>1, <2>1, <2>2, <2>3 DEF Within
<1>6. \A a \in 2..Len(b) : b[a].att # "TK1"
  BY <1>3, <1>5 DEF Ends
<1>7. ASSUME NEW a \in DOMAIN b, a # 1 PROVE \E q \in DOMAIN s : b[a] = s[q] /\ Within(s, p, q)
  <2>1. a \in 2..(e - p + 1)
    BY <1>2, <1>3, <1>7
  <2>2. QED
    BY <1>5, <2>1
<1>8. ASSUME NEW q \in DOMAIN s, Within(s, p, q) PROVE \E a \in DOMAIN b : b[a] = s[q]
  <2>1. p < q /\ q \in Nat /\ \A r \in (p + 1)..q : ~Ends(s[r])
    BY <1>2, <1>8 DEF Within
  <2>2. q <= e
    <3>1. SUFFICES ASSUME q > e PROVE FALSE
      BY <1>2, <2>1
    <3>2. q <= Len(s)
      BY <1>2
    <3>3. e + 1 \in (p + 1)..q
      BY <1>2, <2>1, <3>1
    <3>4. e # Len(s)
      <4>1. \A u, v, w \in Nat : u > v /\ u <= w => v # w
        OBVIOUS
      <4>2. QED
        BY <1>2, <2>1, <3>1, <3>2, <4>1
    <3>5. QED
      BY <1>1, <2>1, <3>3, <3>4
  <2>3. q - p + 1 \in DOMAIN b /\ p + (q - p + 1) - 1 = q
    BY <1>2, <1>3, <2>1, <2>2
  <2>4. b[q - p + 1] = s[q]
    BY <1>3, <2>3
  <2>5. QED
    BY <2>3, <2>4
<1>9. Block(s, p) = b
  BY <1>1 DEF b
<1>10. QED
  BY <1>3, <1>4, <1>6, <1>7, <1>8, <1>9

\* A track in the sorted text is one of the file's.
LEMMA OpensTrack ==
  ASSUME NEW t, WellFormedLines(t), NEW s, NEW N, Part(t, s, N), NEW p \in Opens(s)
  PROVE  /\ p \in DOMAIN s /\ s[p].att = "TK1" /\ s[p].n \in N
         /\ \E f \in DOMAIN t : s[p] = t[f]
BY DEF Part, LinesKept, OnlyTracks, Opens, Positions

\* The type looked ahead for is the track's.
LEMMA LooksAhead ==
  ASSUME NEW t, WellFormedLines(t), NEW s, NEW N, Part(t, s, N), NEW p \in Opens(s)
  PROVE  /\ LookAhead(s, p) = TrackType(t, s[p].n)
         /\ TrackType(t, s[p].n) \in ChannelTypes
         /\ \E c \in DOMAIN t : t[c].att = "CDT" /\ t[c].n = s[p].n
<1>1. s \in Seq(Copyable) /\ p \in DOMAIN s
  BY OpensTrack DEF Part
<1>2. PICK q \in Positions(s, {"CDT"}) :
        /\ p < q /\ s[q].n = s[p].n
        /\ \A r \in (p + 1)..(q - 1) : s[r].att # "CDT"
  BY DEF Part, Typed
<1> DEFINE C == {j \in (p + 1)..Len(s) : s[j].att = "CDT"}
           m == CHOOSE j \in C : \A k \in C : j <= k
<1>3. p \in Nat /\ q \in Nat /\ q <= Len(s) /\ s[q].att = "CDT" /\ q \in DOMAIN s /\ Len(s) \in Nat
  BY <1>1 DEF Positions
<1>4. q \in C
  BY <1>2, <1>3
<1>5. ASSUME NEW k \in C PROVE q <= k
  <2>1. k \in Nat /\ k >= p + 1 /\ s[k].att = "CDT"
    BY <1>3
  <2>2. k \notin (p + 1)..(q - 1)
    BY <1>2, <2>1
  <2>3. QED
    BY <1>3, <2>1, <2>2
<1>6. m = q
  <2>1. m \in C /\ \A k \in C : m <= k
    <3> HIDE DEF C
    <3>1. QED BY <1>4, <1>5
  <2>2. m \in Nat
    BY <1>3, <2>1
  <2>3. m <= q /\ q <= m
    BY <1>4, <1>5, <2>1
  <2> HIDE DEF m
  <2>4. QED
    BY <1>3, <2>2, <2>3
<1>7. LookAhead(s, p) = s[q].v
  BY <1>6 DEF LookAhead
<1>8. PICK c \in DOMAIN t : s[q] = t[c]
  BY <1>3 DEF Part, LinesKept
<1>9. TrackType(t, t[c].n) = t[c].v /\ t[c].v \in ChannelTypes
  BY <1>3, <1>8, TypeIs
<1>10. QED
  BY <1>2, <1>3, <1>7, <1>8, <1>9

\* A line that refines the type is in the block of its track, and in no other.
LEMMA MarkInBlock ==
  ASSUME NEW t, WellFormedLines(t), NEW s, NEW N, Part(t, s, N), NEW p \in Opens(s), NEW att,
         att \in MarksOf(TrackKind(t, s[p].n)), NEW v
  PROVE  /\ Has(Block(s, p), att) <=> \E i \in DOMAIN t : t[i].att = att /\ t[i].n = s[p].n
         /\ HasValue(Block(s, p), att, v)
              <=> \E i \in DOMAIN t : t[i].att = att /\ t[i].n = s[p].n /\ t[i].v = v
<1> DEFINE b == Block(s, p)
<1>1. s \in Seq(Copyable) /\ p \in DOMAIN s /\ s[p].att = "TK1" /\ att \in Marks /\ att # "TK1" /\ att # "COM"
  BY OpensTrack DEF Part, Marks, MarksOf
<1>2. /\ b[1] = s[p]
      /\ \A a \in DOMAIN b : a # 1 => \E q \in DOMAIN s : b[a] = s[q] /\ Within(s, p, q)
      /\ \A q \in DOMAIN s : Within(s, p, q) => \E a \in DOMAIN b : b[a] = s[q]
  BY <1>1, InBlock
<1> HIDE DEF b
<1>3. ASSUME NEW a \in DOMAIN b, b[a].att = att
      PROVE  \E i \in DOMAIN t : t[i] = b[a] /\ t[i].n = s[p].n
  <2>1. a # 1
    BY <1>1, <1>2, <1>3
  <2>2. PICK q \in DOMAIN s : b[a] = s[q] /\ Within(s, p, q)
    BY <1>2, <2>1
  <2>3. q \in Positions(s, Marks)
    BY <1>1, <1>3, <2>2 DEF Positions
  <2>4. PICK o \in Opens(s) : s[o].n = s[q].n /\ Within(s, o, q)
    BY <2>3 DEF Part, Owned
  <2>5. Ends(s[p]) /\ Ends(s[o]) /\ o \in DOMAIN s
    BY <1>1 DEF Ends, Opens, Positions
  <2>6. o = p
    <3>1. p \in Nat /\ o \in Nat /\ q \in Nat /\ p < q /\ o < q
      BY <1>1, <2>2, <2>4, <2>5 DEF Within
    <3>2. ~(p < o)
      <4>1. p < o => o \in (p + 1)..q
        BY <3>1
      <4>2. QED
        BY <2>2, <2>5, <4>1 DEF Within
    <3>3. ~(o < p)
      <4>1. o < p => p \in (o + 1)..q
        BY <3>1
      <4>2. QED
        BY <2>4, <2>5, <4>1 DEF Within
    <3>4. QED
      BY <3>1, <3>2, <3>3
  <2>7. PICK i \in DOMAIN t : s[q] = t[i]
    BY <1>1, <1>3, <2>2 DEF Part, LinesKept
  <2>8. QED
    BY <2>2, <2>4, <2>6, <2>7
<1>4. ASSUME NEW i \in DOMAIN t, t[i].att = att, t[i].n = s[p].n
      PROVE  \E a \in DOMAIN b : b[a] = t[i]
  <2>1. i \in Positions(t, MarksOf(TrackKind(t, s[p].n)))
    BY <1>4 DEF Positions
  <2>2. PICK q \in DOMAIN s : s[q] = t[i] /\ Within(s, p, q)
    BY <1>4, <2>1 DEF Part, Complete
  <2>3. QED
    BY <1>2, <2>2
<1>5. Has(b, att) <=> \E i \in DOMAIN t : t[i].att = att /\ t[i].n = s[p].n
  BY <1>3, <1>4 DEF Has
<1>6. HasValue(b, att, v) <=> \E i \in DOMAIN t : t[i].att = att /\ t[i].n = s[p].n /\ t[i].v = v
  BY <1>3, <1>4 DEF HasValue
<1>7. QED
  BY <1>5, <1>6 DEF b

-----------------------------------------------------------------------------
(* The id of a channel, through the decoders.                              *)

DecoderKinds == {"time", "voice", "m1553", "dm", "video", "eth", "pcm"}

\* A channel after every number of lines.
Decoding(kind, chan, block, after) ==
  after = [i \in 0..Len(block) |-> IF i = 0 THEN chan ELSE DecodeLine(kind, after[i - 1], block[i])]

LEMMA LinesDecoded ==
  ASSUME NEW kind, NEW chan, NEW block, Len(block) \in Nat
  PROVE  \E after : /\ Decoding(kind, chan, block, after)
                    /\ DecodeLines(kind, chan, block) = after[Len(block)]
<1> DEFINE Body(f, i) == IF i = 0 THEN chan ELSE DecodeLine(kind, f[i - 1], block[i])
           After(m, f) == f = [i \in 0..m |-> Body(f, i)]
           S == {m \in Nat : \E f : After(m, f)}
<1>1. 0 \in S
  <2>1. After(0, [i \in 0..0 |-> chan])
    OBVIOUS
  <2>2. QED
    BY <2>1
<1>2. ASSUME NEW m \in Nat, m \in S PROVE m + 1 \in S
  <2>1. PICK f : After(m, f)
    BY <1>2
  <2> DEFINE g == [i \in 0..(m + 1) |-> Body(f, i)]
  <2>2. ASSUME NEW i \in 0..m PROVE g[i] = f[i]
    <3> HIDE DEF Body
    <3>1. i \in 0..(m + 1) /\ g[i] = Body(f, i) /\ f[i] = Body(f, i)
      BY <2>1
    <3>2. QED
      BY <3>1
  <2>3. ASSUME NEW i \in 0..(m + 1) PROVE Body(g, i) = Body(f, i)
    <3>1. i = 0 \/ i - 1 \in 0..m
      OBVIOUS
    <3>2. i = 0 \/ g[i - 1] = f[i - 1]
      BY <3>1, <2>2
    <3> HIDE DEF g
    <3>3. QED
      BY <3>2
  <2>4. After(m + 1, g)
    <3> HIDE DEF Body
    <3>1. QED BY <2>3
  <2> HIDE DEF After, g
  <2>5. QED
    BY <2>4
<1>3. Len(block) \in S
  <2> HIDE DEF S
  <2>1. QED BY <1>1, <1>2, InductionBySet
<1>4. \E f : After(Len(block), f)
  BY <1>3
<1> DEFINE after == CHOOSE f : After(Len(block), f)
<1>5. DecodeLines(kind, chan, block) = after[Len(block)]
  BY DEF DecodeLines
<1>6. Decoding(kind, chan, block, after)
  <2>1. After(Len(block), after)
    <3> HIDE DEF After
    <3>1. QED BY <1>4
  <2> HIDE DEF after
  <2>2. QED
    BY <2>1 DEF Decoding
<1> HIDE DEF after
<1>7. QED
  BY <1>5, <1>6

LEMMA IdField ==
  ASSUME NEW kind \in DecoderKinds, NEW att
  PROVE  (Field(kind, att) = "TK1") <=> (att = "TK1")
<1>1. VideoField(att) = "TK1" <=> att = "TK1"
  BY DEF VideoField
<1>2. QED
  BY <1>1 DEF Field, DecoderKinds

LEMMA IdDecoded ==
  ASSUME NEW kind \in DecoderKinds
  PROVE  "TK1" \in Decoded(kind)
BY DEF DecoderKinds, Decoded, VideoRecorderDecoded, M1553RecorderDecoded, DiscreteDecoded,
       PcmRecorderDecoded, VoiceDecoded, EthernetDecoded, TimeDecoded

LEMMA TimeSourceKeeps ==
  ASSUME NEW chan, NEW l, "TK1" \in DOMAIN chan
  PROVE  /\ "TK1" \in DOMAIN TimeSourceSet(chan, l)
         /\ TimeSourceSet(chan, l)["TK1"] = chan["TK1"]
<1>1. ASSUME NEW v
      PROVE  /\ "TK1" \in DOMAIN With(chan, "source", v)
             /\ With(chan, "source", v)["TK1"] = chan["TK1"]
  BY DEF With
<1> DEFINE source == IF "source" \in DOMAIN chan THEN chan["source"] ELSE "internal"
           A == l.att = "TMS.E" /\ l.v = "T"
           B == l.att = "TSRC" /\ l.v = "E" /\ source # "m1553"
           C == l.att = "TSRC" /\ l.v = "R"
<1>2. TimeSourceSet(chan, l) =
        CASE A -> With(chan, "source", "m1553") [] B -> With(chan, "source", "irig")
          [] C -> With(chan, "source", "rmm") [] OTHER -> chan
  BY DEF TimeSourceSet
<1> HIDE DEF A, B, C
<1>3. \/ \E v : TimeSourceSet(chan, l) = With(chan, "source", v)
      \/ TimeSourceSet(chan, l) = chan
  BY <1>2
<1>4. QED
  BY <1>1, <1>3

\* The line TK1 gives a channel its id, and no other line does.
LEMMA IdOfLine ==
  ASSUME NEW kind \in DecoderKinds, NEW chan, NEW l
  PROVE  LET c == DecodeLine(kind, chan, l)
         IN  /\ l.att = "TK1" => "TK1" \in DOMAIN c /\ c["TK1"] = l.v
             /\ l.att # "TK1" /\ "TK1" \in DOMAIN chan
                  => "TK1" \in DOMAIN c /\ c["TK1"] = chan["TK1"]
<1> DEFINE x == IF kind = "time" THEN TimeSourceSet(chan, l) ELSE chan
           f == Field(kind, l.att)
<1>1. DecodeLine(kind, chan, l) = IF l.att \notin Decoded(kind) THEN chan ELSE With(x, f, l.v)
  BY DEF DecodeLine
<1>2. "TK1" \in DOMAIN chan => "TK1" \in DOMAIN x /\ x["TK1"] = chan["TK1"]
  BY TimeSourceKeeps
<1>3. f = "TK1" <=> l.att = "TK1"
  BY IdField
<1> HIDE DEF f, x
<1>4. f = "TK1" => "TK1" \in DOMAIN With(x, f, l.v) /\ With(x, f, l.v)["TK1"] = l.v
  BY DEF With
<1>5. f # "TK1" /\ "TK1" \in DOMAIN x
        => "TK1" \in DOMAIN With(x, f, l.v) /\ With(x, f, l.v)["TK1"] = x["TK1"]
  BY DEF With
<1>6. l.att = "TK1" => l.att \in Decoded(kind)
  BY IdDecoded
<1>7. QED
  BY <1>1, <1>2, <1>3, <1>4, <1>5, <1>6

LEMMA IdOfLines ==
  ASSUME NEW kind \in DecoderKinds, NEW chan, NEW block \in Seq(Copyable), Len(block) >= 1,
         block[1].att = "TK1", \A a \in 2..Len(block) : block[a].att # "TK1"
  PROVE  DecodeLines(kind, chan, block)["TK1"] = block[1].v
<1> DEFINE N == Len(block)
<1>1. N \in Nat
  OBVIOUS
<1>2. PICK after : Decoding(kind, chan, block, after) /\ DecodeLines(kind, chan, block) = after[N]
  BY <1>1, LinesDecoded
<1> DEFINE Has1(i) == "TK1" \in DOMAIN after[i] /\ after[i]["TK1"] = block[1].v
           S == {m \in Nat : m + 1 <= N => Has1(m + 1)}
<1> HIDE DEF N
<1>3. ASSUME NEW i \in 1..N PROVE after[i] = DecodeLine(kind, after[i - 1], block[i])
  BY <1>1, <1>2 DEF Decoding, N
<1>4. 0 \in S
  <2>1. 1 <= N => after[1] = DecodeLine(kind, after[0], block[1])
    BY <1>1, <1>3
  <2>2. QED
    BY <2>1, IdOfLine
<1>5. ASSUME NEW m \in Nat, m \in S PROVE m + 1 \in S
  <2> SUFFICES ASSUME (m + 1) + 1 <= N PROVE Has1((m + 1) + 1)
    OBVIOUS
  <2>1. Has1(m + 1)
    BY <1>1, <1>5
  <2>2. (m + 1) + 1 \in 2..N /\ (m + 1) + 1 \in 1..N /\ ((m + 1) + 1) - 1 = m + 1
    BY <1>1
  <2>3. after[(m + 1) + 1] = DecodeLine(kind, after[m + 1], block[(m + 1) + 1])
    BY <1>3, <2>2
  <2>4. block[(m + 1) + 1].att # "TK1"
    BY <2>2 DEF N
  <2>5. QED
    BY <2>1, <2>3, <2>4, IdOfLine
<1>6. N - 1 \in Nat /\ (N - 1) + 1 = N
  BY <1>1 DEF N
<1>7. N - 1 \in S
  <2> HIDE DEF S
  <2>1. QED BY <1>4, <1>5, <1>6, InductionBySet
<1>8. Has1((N - 1) + 1)
  <2> HIDE DEF Has1
  <2>1. (N - 1) + 1 <= N
    BY <1>1, <1>6
  <2>2. QED
    BY <1>7, <2>1
<1>9. QED
  BY <1>2, <1>6, <1>8

LEMMA IdOfBlock ==
  ASSUME NEW kind \in DecoderKinds, NEW chan, NEW block \in Seq(Copyable), Len(block) >= 1,
         block[1].att = "TK1", \A a \in 2..Len(block) : block[a].att # "TK1"
  PROVE  Decode(kind, chan, block)["TK1"] = block[1].v
BY IdOfLines DEF Decode

\* A parse in progress, and the name of a use in HealthArrayTypes.
Progress(c, n, names) == [config |-> c, n |-> n, types |-> names]
NameOf(use) == IF use = "dm" THEN "discrete" ELSE use
OneMore(n, use) == [n EXCEPT ![use] = @ + 1]
Named(names, id, use) == [names EXCEPT ![id] = NameOf(use)]

LEMMA CountedIs ==
  ASSUME NEW c, NEW n, NEW names, NEW kind, NEW id
  PROVE  Counted(Progress(c, n, names), kind, id)
           = Progress(c, OneMore(n, kind), Named(names, id, kind))
<1> DEFINE p == Progress(c, n, names)
           x == OneMore(n, kind)
           y == Named(names, id, kind)
<1>1. p.n = n /\ p.types = names
  BY DEF Progress
<1>2. \A z : [p EXCEPT !.n = z] = Progress(c, z, names)
  BY DEF Progress
<1>3. \A z, w : [Progress(c, z, names) EXCEPT !.types = w] = Progress(c, z, w)
  BY DEF Progress
<1>4. \A z : Progress(c, z, names).types = names
  BY DEF Progress
<1>5. [p EXCEPT !.n[kind] = @ + 1] = Progress(c, x, names)
  <2> HIDE DEF p
  <2>1. QED BY <1>1, <1>2 DEF OneMore
<1>6. Counted(p, kind, id) = [[p EXCEPT !.n[kind] = @ + 1] EXCEPT !.types[id] = NameOf(kind)]
  <2> HIDE DEF p
  <2>1. QED BY DEF Counted, NameOf
<1>7. [Progress(c, x, names) EXCEPT !.types[id] = NameOf(kind)] = Progress(c, x, y)
  <2> HIDE DEF x
  <2>1. QED BY <1>3, <1>4 DEF Named
<1>8. QED
  <2> HIDE DEF p, x
  <2>1. QED BY <1>5, <1>6, <1>7 DEF p, x

\* The use of the track with these lines and this type.
BlockUse(block, type) ==
  CASE KindOf(type) = "m1553" -> IF Has(block, "DTF") \/ Has(block, "DMSK") THEN "dm" ELSE "m1553"
    [] KindOf(type) = "pcm" -> IF type = "UARTIN" /\ HasValue(block, "CUCE", "T") THEN "uart" ELSE "pcm"
    [] OTHER -> KindOf(type)

LEMMA KindOfTypes ==
  ASSUME NEW type \in ChannelTypes
  PROVE  KindOf(type) \in CopiedKinds
BY DEF ChannelTypes, CopiedKinds, KindOf

\* A track decoded: a channel more of its use, its id with its name, and a
\* configuration with the same entries.
LEMMA BlockDecoded ==
  ASSUME NEW c, DOMAIN c = Slots, NEW n, NEW names,
         NEW block \in Seq(Copyable), Len(block) >= 1, block[1].att = "TK1",
         \A a \in 2..Len(block) : block[a].att # "TK1",
         NEW type \in ChannelTypes,
         KindOf(type) \in {"time", "eth"} => <<KindOf(type), 0>> \in Slots,
         KindOf(type) \notin {"time", "eth"} => <<KindOf(type), n[KindOf(type)]>> \in Slots
  PROVE  \E d : /\ DOMAIN d = Slots
                /\ DecodeBlock(Progress(c, n, names), block, type)
                     = Progress(d, OneMore(n, BlockUse(block, type)),
                                   Named(names, block[1].v, BlockUse(block, type)))
<1> DEFINE kind == KindOf(type)
           use == BlockUse(block, type)
           P(d) == Progress(d, OneMore(n, use), Named(names, block[1].v, use))
           q == Progress(c, n, names)
           slot == <<kind, IF kind \in {"time", "eth"} THEN 0 ELSE n[kind]>>
<1>1. q.config = c /\ q.n = n /\ \A d : [q EXCEPT !.config = d] = Progress(d, n, names)
  BY DEF Progress
<1>2. ASSUME NEW d PROVE Counted([q EXCEPT !.config = d], use, block[1].v) = P(d)
  <2>1. [q EXCEPT !.config = d] = Progress(d, n, names)
    BY <1>1
  <2> HIDE DEF q, use
  <2>2. Counted(Progress(d, n, names), use, block[1].v) = P(d)
    BY CountedIs
  <2>3. QED
    <3> HIDE DEF P
    <3>1. QED BY <2>1, <2>2
<1>3. kind \in CopiedKinds
  BY KindOfTypes
<1>4. ASSUME NEW k \in DecoderKinds, NEW chan PROVE Decode(k, chan, block)["TK1"] = block[1].v
  BY IdOfBlock
<1>5. slot \in Slots
  OBVIOUS
<1> HIDE DEF q
<1>6. CASE kind = "m1553"
  <2> DEFINE own == <<"m1553", q.n["m1553"]>>
             d == [c EXCEPT ![own] = Decode("m1553", @, block),
                            ![<<"dm", 0>>] = Decode("dm", @, block)]
  <2>1. own \in Slots /\ own # <<"dm", 0>>
    BY <1>1, <1>5, <1>6
  <2>2. DOMAIN d = Slots
    OBVIOUS
  <2>3. d[own] = Decode("m1553", c[own], block)
    <3> HIDE DEF own
    <3>1. QED BY <2>1
  <2>4. d[own]["TK1"] = block[1].v
    BY <1>4, <2>3 DEF DecoderKinds
  <2>5. DecodeBlock(q, block, type) = DecodeM1553(q, block)
    BY <1>6 DEF DecodeBlock
  <2>6. use = IF Has(block, "DTF") \/ Has(block, "DMSK") THEN "dm" ELSE "m1553"
    BY <1>6 DEF BlockUse
  <2>7. DecodeM1553(q, block) = Counted([q EXCEPT !.config = d], use, d[own]["TK1"])
    BY <1>1, <2>6 DEF DecodeM1553
  <2> HIDE DEF d, own, use
  <2>8. DecodeBlock(q, block, type) = P(d)
    BY <1>2, <2>4, <2>5, <2>7
  <2>9. QED
    BY <2>2, <2>8 DEF q, use
<1>7. CASE kind = "pcm"
  <2> DEFINE chan == Decode("pcm", q.config[<<"pcm", q.n["pcm"]>>], block)
  <2>1. DecodeBlock(q, block, type) = DecodePcm(q, block, type)
    BY <1>7 DEF DecodeBlock
  <2>2. use = IF type = "UARTIN" /\ HasValue(block, "CUCE", "T") THEN "uart" ELSE "pcm"
    BY <1>7 DEF BlockUse
  <2>3. chan["TK1"] = block[1].v
    BY <1>4 DEF DecoderKinds
  <2>4. \E d : /\ DOMAIN d = Slots
               /\ DecodePcm(q, block, type) = Counted([q EXCEPT !.config = d], use, chan["TK1"])
    <3> HIDE DEF chan
    <3>1. \A x, y : DOMAIN [q.config EXCEPT ![<<"pcm", q.n["pcm"]>>] = x, ![<<"uart", 0>>] = y] = Slots
      BY <1>1
    <3>2. QED
      BY <2>2, <3>1 DEF DecodePcm, chan
  <2>5. PICK d : /\ DOMAIN d = Slots
                 /\ DecodePcm(q, block, type) = Counted([q EXCEPT !.config = d], use, chan["TK1"])
    BY <2>4
  <2> HIDE DEF chan, use
  <2>6. DecodeBlock(q, block, type) = P(d)
    BY <1>2, <2>1, <2>3, <2>5
  <2>7. QED
    BY <2>5, <2>6 DEF q, use
<1>8. CASE kind \notin {"m1553", "pcm"}
  <2> DEFINE d == [c EXCEPT ![slot] = Decode(kind, @, block)]
  <2>1. DOMAIN d = Slots
    OBVIOUS
  <2>2. kind \in DecoderKinds
    BY <1>3 DEF CopiedKinds, DecoderKinds
  <2>3. d[slot] = Decode(kind, c[slot], block)
    <3> HIDE DEF slot
    <3>1. QED BY <1>5
  <2>4. d[slot]["TK1"] = block[1].v
    BY <1>4, <2>2, <2>3
  <2>5. use = kind
    BY <1>8 DEF BlockUse
  <2>6. DecodeBlock(q, block, type) = Counted([q EXCEPT !.config = d], kind, d[slot]["TK1"])
    BY <1>1, <1>8 DEF DecodeBlock
  <2> HIDE DEF d, slot, use, kind
  <2>7. DecodeBlock(q, block, type) = P(d)
    BY <1>2, <2>4, <2>5, <2>6
  <2>8. QED
    BY <2>1, <2>7 DEF q, use
<1>9. QED
  BY <1>6, <1>7, <1>8

\* Settle is what its definition says.
LEMMA LinesSettled ==
  ASSUME NEW c, NEW lines, Len(lines) \in Nat
  PROVE  \E after :
           /\ after = [i \in 0..Len(lines) |->
                IF i = 0 THEN c ELSE Entered(after[i - 1], lines[i])]
           /\ Settle(c, lines) = after[Len(lines)]
<1> DEFINE Body(f, i) == IF i = 0 THEN c ELSE Entered(f[i - 1], lines[i])
           After(m, f) == f = [i \in 0..m |-> Body(f, i)]
           S == {m \in Nat : \E f : After(m, f)}
<1>1. 0 \in S
  <2>1. After(0, [i \in 0..0 |-> c])
    OBVIOUS
  <2>2. QED
    BY <2>1
<1>2. ASSUME NEW m \in Nat, m \in S PROVE m + 1 \in S
  <2>1. PICK f : After(m, f)
    BY <1>2
  <2> DEFINE g == [i \in 0..(m + 1) |-> Body(f, i)]
  <2>2. ASSUME NEW i \in 0..m PROVE g[i] = f[i]
    <3> HIDE DEF Body
    <3>1. i \in 0..(m + 1) /\ g[i] = Body(f, i) /\ f[i] = Body(f, i)
      BY <2>1
    <3>2. QED
      BY <3>1
  <2>3. ASSUME NEW i \in 0..(m + 1) PROVE Body(g, i) = Body(f, i)
    <3>1. i = 0 \/ i - 1 \in 0..m
      OBVIOUS
    <3>2. i = 0 \/ g[i - 1] = f[i - 1]
      BY <3>1, <2>2
    <3> HIDE DEF g
    <3>3. QED
      BY <3>2
  <2>4. After(m + 1, g)
    <3> HIDE DEF Body
    <3>1. QED BY <2>3
  <2> HIDE DEF After, g
  <2>5. QED
    BY <2>4
<1>3. Len(lines) \in S
  <2> HIDE DEF S
  <2>1. QED BY <1>1, <1>2, InductionBySet
<1>4. \E f : After(Len(lines), f)
  BY <1>3
<1>5. LET after == CHOOSE f : After(Len(lines), f)
      IN  After(Len(lines), after) /\ Settle(c, lines) = after[Len(lines)]
  BY <1>4 DEF Settle
<1>6. QED
  BY <1>5

LEMMA EnteredKeeps ==
  ASSUME NEW c, NEW l
  PROVE  DOMAIN Entered(c, l) = DOMAIN c
<1>1. \A e, x : DOMAIN [c EXCEPT ![e] = x] = DOMAIN c
  OBVIOUS
<1>2. QED
  BY <1>1 DEF Entered

\* The settings of a file are set in the entries there are.
LEMMA SettleKeeps ==
  ASSUME NEW c, NEW lines, Len(lines) \in Nat
  PROVE  DOMAIN Settle(c, lines) = DOMAIN c
<1> DEFINE N == Len(lines)
<1>1. PICK after : /\ after = [i \in 0..N |-> IF i = 0 THEN c ELSE Entered(after[i - 1], lines[i])]
                   /\ Settle(c, lines) = after[N]
  BY LinesSettled
<1> DEFINE S == {m \in Nat : m <= N => DOMAIN after[m] = DOMAIN c}
<1> HIDE DEF N
<1>2. N \in Nat
  BY DEF N
<1>3. 0 \in S
  BY <1>1, <1>2
<1>4. ASSUME NEW m \in Nat, m \in S PROVE m + 1 \in S
  <2> SUFFICES ASSUME m + 1 <= N PROVE DOMAIN after[m + 1] = DOMAIN c
    OBVIOUS
  <2>1. m + 1 \in 0..N /\ m + 1 # 0 /\ (m + 1) - 1 = m /\ m <= N
    BY <1>2
  <2>2. after[m + 1] = Entered(after[m], lines[m + 1])
    BY <1>1, <2>1
  <2>3. DOMAIN after[m] = DOMAIN c
    BY <1>4, <2>1
  <2>4. QED
    BY <2>2, <2>3, EnteredKeeps
<1>5. N \in S
  <2> HIDE DEF S
  <2>1. QED BY <1>2, <1>3, <1>4, InductionBySet
<1>6. QED
  BY <1>1, <1>5, <1>2

\* DecodeBlocks is what its definition says.
LEMMA BlocksDecoded ==
  ASSUME NEW text, Len(text) \in Nat, NEW p
  PROVE  \E after :
           /\ after = [i \in 0..Len(text) |->
                IF i = 0 THEN p
                ELSE IF text[i].att = "TK1"
                     THEN DecodeBlock(after[i - 1], Block(text, i), LookAhead(text, i))
                     ELSE after[i - 1]]
           /\ DecodeBlocks(text, p) = after[Len(text)]
<1> DEFINE Body(f, i) == IF i = 0 THEN p
                         ELSE IF text[i].att = "TK1"
                              THEN DecodeBlock(f[i - 1], Block(text, i), LookAhead(text, i))
                              ELSE f[i - 1]
           After(m, f) == f = [i \in 0..m |-> Body(f, i)]
           S == {m \in Nat : \E f : After(m, f)}
<1>1. 0 \in S
  <2>1. After(0, [i \in 0..0 |-> p])
    OBVIOUS
  <2>2. QED
    BY <2>1
<1>2. ASSUME NEW m \in Nat, m \in S PROVE m + 1 \in S
  <2>1. PICK f : After(m, f)
    BY <1>2
  <2> DEFINE g == [i \in 0..(m + 1) |-> Body(f, i)]
  <2>2. ASSUME NEW i \in 0..m PROVE g[i] = f[i]
    <3> HIDE DEF Body
    <3>1. i \in 0..(m + 1) /\ g[i] = Body(f, i) /\ f[i] = Body(f, i)
      BY <2>1
    <3>2. QED
      BY <3>1
  <2>3. ASSUME NEW i \in 0..(m + 1) PROVE Body(g, i) = Body(f, i)
    <3>1. i = 0 \/ i - 1 \in 0..m
      OBVIOUS
    <3>2. i = 0 \/ g[i - 1] = f[i - 1]
      BY <3>1, <2>2
    <3> HIDE DEF g
    <3>3. QED
      BY <3>2
  <2>4. After(m + 1, g)
    <3> HIDE DEF Body
    <3>1. QED BY <2>3
  <2> HIDE DEF After, g
  <2>5. QED
    BY <2>4
<1>3. Len(text) \in S
  <2> HIDE DEF S
  <2>1. QED BY <1>1, <1>2, InductionBySet
<1>4. \E f : After(Len(text), f)
  BY <1>3
<1>5. LET after == CHOOSE f : After(Len(text), f)
      IN  After(Len(text), after) /\ DecodeBlocks(text, p) = after[Len(text)]
  BY <1>4 DEF DecodeBlocks
<1>6. QED
  BY <1>5

LEMMA UartKind == KindOf("UARTIN") = "pcm"
BY DEF KindOf

LEMMA UseOf ==
  ASSUME NEW text, NEW k,
         TypeOf(text, k) = "UARTIN" => ~HasLine(text, "DTF", k) /\ ~HasLine(text, "DMSK", k)
  PROVE  Use(text, k) =
           IF HasLine(text, "DTF", k) \/ HasLine(text, "DMSK", k) THEN "dm"
           ELSE IF TypeOf(text, k) = "UARTIN" /\ SaysTrue(text, "CUCE", k) THEN "uart"
           ELSE KindOf(TypeOf(text, k))
BY DEF Use

\* The parser takes a track for what the file states.
LEMMA UseIs ==
  ASSUME NEW text, WellFormed(text), NEW p \in Opens(Sorted(text))
  PROVE  BlockUse(Block(Sorted(text), p), LookAhead(Sorted(text), p))
           = Use(text, Sorted(text)[p].n)
<1> DEFINE t == Visible(text)
           s == Sorted(text)
           k == s[p].n
           type == TrackType(t, k)
           b == Block(s, p)
           mark(att) == \E i \in DOMAIN t : t[i].att = att /\ t[i].n = k
           says == \E i \in DOMAIN t : t[i].att = "CUCE" /\ t[i].n = k /\ t[i].v = "T"
<1>1. WellFormedLines(t) /\ Part(t, s, SomeNumbers(t, CopiedKinds))
  BY SortedPart DEF WellFormed
<1>2. t \in Seq(Lines)
  BY <1>1 DEF WellFormedLines
<1>3. HasLine(text, "DTF", k) = mark("DTF") /\ HasLine(text, "DMSK", k) = mark("DMSK")
  BY DEF HasLine, Line
<1>4. TypeOf(text, k) = type
  BY DEF TypeOf, TrackType, Line
<1>5. SaysTrue(text, "CUCE", k) <=> says
  <2>1. \A i \in DOMAIN t : t[i] \in Lines
    BY <1>2
  <2>2. \A i \in DOMAIN t : t[i] = [att |-> "CUCE", n |-> k, v |-> "T"]
                              <=> t[i].att = "CUCE" /\ t[i].n = k /\ t[i].v = "T"
    BY <2>1 DEF Lines
  <2> HIDE DEF t, k
  <2>3. QED
    BY <2>2 DEF SaysTrue, Line, t
<1>6. /\ LookAhead(s, p) = type /\ type \in ChannelTypes
      /\ \E c \in DOMAIN t : t[c].att = "CDT" /\ t[c].n = k
  BY <1>1, LooksAhead
<1>7. TrackKind(t, k) = KindOf(type)
  BY DEF TrackKind
<1>8. PICK c \in DOMAIN t : t[c].att = "CDT" /\ t[c].n = k
  BY <1>6
<1>9. type = t[c].v
  BY <1>1, <1>8, TypeIs
<1>10. KindOf(type) # "m1553" => ~mark("DTF") /\ ~mark("DMSK")
  <2>1. ASSUME NEW i \in DOMAIN t, t[i].att \in {"DTF", "DMSK"}, t[i].n = k
        PROVE  KindOf(type) = "m1553"
    <3>1. i \in Anywhere(t, {"DTF", "DMSK"}) /\ c \in Anywhere(t, {"CDT"})
      BY <1>8, <2>1 DEF Anywhere
    <3>2. \A x \in Anywhere(t, {"DTF", "DMSK"}), y \in Anywhere(t, {"CDT"}) :
            t[x].n = t[y].n => KindOf(t[y].v) = "m1553"
      BY <1>1 DEF WellFormedLines
    <3>3. QED
      BY <1>8, <1>9, <2>1, <3>1, <3>2
  <2>2. QED
    BY <2>1
<1>11. KindOf(type) = "m1553" => /\ Has(b, "DTF") <=> mark("DTF")
                                 /\ Has(b, "DMSK") <=> mark("DMSK")
  BY <1>1, <1>7, MarkInBlock DEF MarksOf
<1>12. KindOf(type) = "pcm" => (HasValue(b, "CUCE", "T") <=> says)
  BY <1>1, <1>7, MarkInBlock DEF MarksOf
<1>13. type = "UARTIN" => KindOf(type) = "pcm"
  BY UartKind
<1>14. Use(text, k) = IF HasLine(text, "DTF", k) \/ HasLine(text, "DMSK", k) THEN "dm"
                      ELSE IF type = "UARTIN" /\ SaysTrue(text, "CUCE", k) THEN "uart"
                      ELSE KindOf(type)
  <2>1. type = "UARTIN" => ~HasLine(text, "DTF", k) /\ ~HasLine(text, "DMSK", k)
    <3> HIDE DEF k, type, mark, t
    <3>1. QED BY <1>3, <1>10, <1>13
  <2> HIDE DEF k, type
  <2>2. QED BY <1>4, <2>1, UseOf
<1>15. BlockUse(b, type) =
         IF KindOf(type) = "m1553" THEN IF Has(b, "DTF") \/ Has(b, "DMSK") THEN "dm" ELSE "m1553"
         ELSE IF KindOf(type) = "pcm"
              THEN IF type = "UARTIN" /\ HasValue(b, "CUCE", "T") THEN "uart" ELSE "pcm"
         ELSE KindOf(type)
  BY DEF BlockUse
<1> HIDE DEF t, type, b, k, mark, says, s
<1>16. BlockUse(b, type) = Use(text, k)
  BY <1>3, <1>5, <1>10, <1>11, <1>12, <1>13, <1>14, <1>15
<1>17. QED
  BY <1>6, <1>16 DEF b, k, s

\* The place of a track among those of its kind, and the room for it.
LEMMA RoomForTrack ==
  ASSUME NEW text, WellFormed(text), NEW p \in Opens(Sorted(text))
  PROVE  LET t == Visible(text)
             k == Sorted(text)[p].n
         IN  /\ TrackKind(t, k) \in CopiedKinds
             /\ Place(t, k) \in Nat /\ 0 < Place(t, k)
             /\ \A x \in Nat : x < Place(t, k) => <<TrackKind(t, k), x>> \in Slots
<1> DEFINE t == Visible(text)
           s == Sorted(text)
           k == s[p].n
<1>1. WellFormedLines(t) /\ Part(t, s, SomeNumbers(t, CopiedKinds))
  BY SortedPart DEF WellFormed
<1>2. k \in SomeNumbers(t, CopiedKinds)
  BY <1>1, OpensTrack
<1>3. PICK kind \in CopiedKinds : k \in TrackNumbers(t, kind)
  BY <1>2 DEF SomeNumbers
<1>4. PICK i \in DOMAIN Tracks(t, kind) : k = Tracks(t, kind)[i]
  BY <1>3 DEF TrackNumbers
<1> HIDE DEF k, t, s
<1>5. TrackKind(t, k) = kind /\ Place(t, k) = i
  BY <1>1, <1>4, TrackIs
<1>6. PICK n \in Nat : DOMAIN Tracks(t, kind) = 1..n
  BY <1>1, TracksAre
<1>7. \A j \in 1..n : <<kind, j - 1>> \in Slots
  BY <1>1, <1>6 DEF WellFormedLines, CopiedKinds, Kinds
<1>8. ASSUME NEW x \in Nat, x < i PROVE <<kind, x>> \in Slots
  <2>1. x + 1 \in 1..n /\ (x + 1) - 1 = x
    BY <1>4, <1>6, <1>8
  <2>2. QED
    BY <1>7, <2>1
<1>9. QED
  BY <1>3, <1>4, <1>5, <1>6, <1>8 DEF k, t, s

\* Two tracks with one id are one track.
LEMMA OneTrackForId ==
  ASSUME NEW text, WellFormed(text), NEW p \in Opens(Sorted(text)), NEW r \in Opens(Sorted(text)),
         Sorted(text)[p].v = Sorted(text)[r].v
  PROVE  Sorted(text)[p].n = Sorted(text)[r].n
<1> DEFINE t == Visible(text)
           s == Sorted(text)
<1>1. WellFormedLines(t) /\ Part(t, s, SomeNumbers(t, CopiedKinds))
  BY SortedPart DEF WellFormed
<1>2. PICK f \in DOMAIN t : s[p] = t[f]
  BY <1>1, OpensTrack
<1>3. PICK g \in DOMAIN t : s[r] = t[g]
  BY <1>1, OpensTrack
<1>4. s[p].att = "TK1" /\ s[r].att = "TK1"
  BY <1>1, OpensTrack
<1>5. f \in Anywhere(t, {"TK1"}) /\ g \in Anywhere(t, {"TK1"})
  BY <1>2, <1>3, <1>4 DEF Anywhere
<1>6. t[f].v = t[g].v
  BY <1>2, <1>3
<1>7. \A i, j \in Anywhere(t, {"TK1"}) : t[i].v = t[j].v => i = j
  BY <1>1 DEF WellFormedLines
<1>8. f = g
  <2> HIDE DEF t
  <2>1. QED BY <1>5, <1>6, <1>7
<1>9. QED
  BY <1>2, <1>3, <1>8

LEMMA BlockUseIs ==
  ASSUME NEW block, NEW type
  PROVE  BlockUse(block, type) \in {"dm", "uart", KindOf(type)}
BY DEF BlockUse

LEMMA CountsAndNames ==
  ASSUME NEW n \in [Kinds -> Nat], NEW use \in Kinds, NEW names, NEW id
  PROVE  /\ OneMore(n, use) \in [Kinds -> Nat]
         /\ \A kind \in Kinds : OneMore(n, use)[kind] = IF kind = use THEN n[kind] + 1 ELSE n[kind]
         /\ DOMAIN Named(names, id, use) = DOMAIN names
         /\ \A x \in DOMAIN names :
              Named(names, id, use)[x] = IF x = id THEN NameOf(use) ELSE names[x]
BY DEF OneMore, Named

\* When m lines are parsed: the channels of each kind are fewer than the place of any
\* track to come; the tracks passed have their names, no other id has one.
CountsFit(text, m, n) ==
  /\ n \in [Kinds -> Nat]
  /\ \A r \in Opens(Sorted(text)) : r > m =>
       n[TrackKind(Visible(text), Sorted(text)[r].n)] < Place(Visible(text), Sorted(text)[r].n)
NamesFit(text, m, names) ==
  /\ DOMAIN names = Ids
  /\ \A r \in Opens(Sorted(text)) : r <= m /\ Sorted(text)[r].v \in Ids =>
       names[Sorted(text)[r].v] = NameOf(Use(text, Sorted(text)[r].n))
  /\ \A id \in Ids : (\A r \in Opens(Sorted(text)) : r <= m => Sorted(text)[r].v # id) =>
       names[id] = "none"
Fits(text, m, q) ==
  \E c, n, names : /\ q = Progress(c, n, names) /\ DOMAIN c = Slots
                   /\ CountsFit(text, m, n) /\ NamesFit(text, m, names)

LEMMA OpensAreNumbers ==
  ASSUME NEW text, WellFormed(text)
  PROVE  /\ Sorted(text) \in Seq(Copyable) /\ Len(Sorted(text)) \in Nat
         /\ DOMAIN Sorted(text) = 1..Len(Sorted(text))
         /\ \A r \in Opens(Sorted(text)) : r \in 1..Len(Sorted(text)) /\ r \in Nat
         /\ \A r \in 1..Len(Sorted(text)) :
              (r \in Opens(Sorted(text))) <=> (Sorted(text)[r].att = "TK1")
<1>1. Sorted(text) \in Seq(Copyable)
  BY SortedPart DEF Part
<1> DEFINE s == Sorted(text)
<1> HIDE DEF s
<1>2. s \in Seq(Copyable)
  BY <1>1 DEF s
<1>3. Len(s) \in Nat /\ DOMAIN s = 1..Len(s)
  BY <1>2
<1>4. \A r \in Opens(s) : r \in 1..Len(s) /\ r \in Nat
  BY <1>3 DEF Opens, Positions
<1>5. \A r \in 1..Len(s) : (r \in Opens(s)) <=> (s[r].att = "TK1")
  BY <1>3 DEF Opens, Positions
<1>6. QED
  BY <1>2, <1>3, <1>4, <1>5 DEF s

LEMMA CountsFitOn ==
  ASSUME NEW text, WellFormed(text), NEW m \in Nat, m + 1 \in Opens(Sorted(text)),
         NEW n, CountsFit(text, m, n),
         NEW use \in {"dm", "uart", TrackKind(Visible(text), Sorted(text)[m + 1].n)}
  PROVE  CountsFit(text, m + 1, OneMore(n, use))
<1> DEFINE t == Visible(text)
           s == Sorted(text)
           kind(r) == TrackKind(t, s[r].n)
           place(r) == Place(t, s[r].n)
<1>1. \A r \in Opens(s) : kind(r) \in CopiedKinds /\ place(r) \in Nat
  BY RoomForTrack
<1>2. n \in [Kinds -> Nat] /\ \A r \in Opens(s) : r > m => n[kind(r)] < place(r)
  BY DEF CountsFit
<1>3. \A p, r \in Opens(s) : p < r /\ kind(p) = kind(r) => place(p) < place(r)
  BY SortedPart DEF Part, InOrder, Before
<1>4. use \in Kinds
  BY <1>1 DEF Kinds, CopiedKinds
<1>5. /\ OneMore(n, use) \in [Kinds -> Nat]
      /\ \A x \in Kinds : OneMore(n, use)[x] = IF x = use THEN n[x] + 1 ELSE n[x]
  BY <1>2, <1>4, CountsAndNames
<1>6. \A r \in Opens(s) : r \in Nat
  BY OpensAreNumbers
<1>7. m + 1 \in Opens(s)
  OBVIOUS
<1>8. use \in {"dm", "uart", kind(m + 1)}
  OBVIOUS
<1> HIDE DEF kind, place, s, t
<1>9. ASSUME NEW r \in Opens(s), r > m + 1 PROVE OneMore(n, use)[kind(r)] < place(r)
  <2>1. r \in Nat /\ r > m /\ m + 1 < r /\ m + 1 > m
    BY <1>6, <1>9
  <2>2. n[kind(r)] < place(r) /\ n[kind(m + 1)] < place(m + 1)
    BY <1>2, <1>7, <2>1
  <2>3. kind(r) \in Kinds /\ kind(m + 1) \in Kinds /\ kind(r) \notin {"dm", "uart"}
    BY <1>1, <1>7 DEF Kinds, CopiedKinds
  <2>4. CASE kind(r) # use
    BY <1>5, <2>2, <2>3, <2>4
  <2>5. CASE kind(r) = use
    <3>1. kind(r) = kind(m + 1)
      BY <1>8, <2>3, <2>5
    <3>2. place(m + 1) < place(r)
      BY <1>3, <1>7, <2>1, <3>1
    <3>3. OneMore(n, use)[kind(r)] = n[kind(m + 1)] + 1
      BY <1>5, <2>3, <2>5, <3>1
    <3>4. n[kind(m + 1)] \in Nat /\ place(m + 1) \in Nat /\ place(r) \in Nat
      BY <1>1, <1>2, <1>7, <2>3
    <3>5. QED
      BY <2>2, <3>2, <3>3, <3>4
  <2>6. QED
    BY <2>4, <2>5
<1>10. QED
  BY <1>5, <1>9 DEF CountsFit, kind, place, s, t

LEMMA NamesFitOn ==
  ASSUME NEW text, WellFormed(text), NEW m \in Nat, m + 1 \in Opens(Sorted(text)),
         NEW names, NamesFit(text, m, names), Use(text, Sorted(text)[m + 1].n) \in Kinds
  PROVE  NamesFit(text, m + 1, Named(names, Sorted(text)[m + 1].v, Use(text, Sorted(text)[m + 1].n)))
<1> DEFINE s == Sorted(text)
           id(r) == s[r].v
           use(r) == Use(text, s[r].n)
           new == Named(names, id(m + 1), use(m + 1))
<1>1. \A r \in Opens(s) : r \in Nat
  BY OpensAreNumbers
<1>2. /\ DOMAIN names = Ids
      /\ \A r \in Opens(s) : r <= m /\ id(r) \in Ids => names[id(r)] = NameOf(use(r))
      /\ \A x \in Ids : (\A r \in Opens(s) : r <= m => id(r) # x) => names[x] = "none"
  BY DEF NamesFit
<1>3. /\ DOMAIN new = Ids
      /\ \A x \in Ids : new[x] = IF x = id(m + 1) THEN NameOf(use(m + 1)) ELSE names[x]
  BY <1>2 DEF Named
<1>4. \A r \in Opens(s) : id(r) = id(m + 1) => use(r) = use(m + 1)
  BY OneTrackForId
<1>5. m + 1 \in Opens(s)
  OBVIOUS
<1> HIDE DEF s, id, use, new
<1>6. \A r \in Opens(s) : r <= m + 1 => r <= m \/ r = m + 1
  BY <1>1
<1>7. \A r \in Opens(s) : r <= m => r <= m + 1
  BY <1>1
<1>8. ASSUME NEW r \in Opens(s), r <= m + 1, id(r) \in Ids PROVE new[id(r)] = NameOf(use(r))
  BY <1>2, <1>3, <1>4, <1>6, <1>8
<1>9. ASSUME NEW x \in Ids, \A r \in Opens(s) : r <= m + 1 => id(r) # x PROVE new[x] = "none"
  <2>1. x # id(m + 1)
    BY <1>1, <1>5, <1>9
  <2>2. \A r \in Opens(s) : r <= m => id(r) # x
    BY <1>7, <1>9
  <2>3. QED
    BY <1>2, <1>3, <2>1, <2>2
<1>10. QED
  BY <1>3, <1>8, <1>9 DEF NamesFit, s, id, use, new

\* One line of the sorted text parsed.
LEMMA FitsOn ==
  ASSUME NEW text, WellFormed(text), NEW m \in Nat, m + 1 \in Opens(Sorted(text)),
         NEW q, Fits(text, m, q)
  PROVE  Fits(text, m + 1,
              DecodeBlock(q, Block(Sorted(text), m + 1), LookAhead(Sorted(text), m + 1)))
<1> DEFINE t == Visible(text)
           s == Sorted(text)
           p == m + 1
           b == Block(s, p)
           type == LookAhead(s, p)
           use == Use(text, s[p].n)
           kind == TrackKind(t, s[p].n)
<1>1. WellFormedLines(t) /\ Part(t, s, SomeNumbers(t, CopiedKinds))
  BY SortedPart DEF WellFormed
<1>2. PICK c, n, names : /\ q = Progress(c, n, names) /\ DOMAIN c = Slots
                         /\ CountsFit(text, m, n) /\ NamesFit(text, m, names)
  BY DEF Fits
<1>3. p \in Opens(s) /\ p \in DOMAIN s /\ s \in Seq(Copyable) /\ s[p].att = "TK1"
  BY OpensAreNumbers
<1>4. /\ b \in Seq(Copyable) /\ Len(b) >= 1 /\ b[1] = s[p]
      /\ \A a \in 2..Len(b) : b[a].att # "TK1"
  BY <1>3, InBlock
<1>5. type \in ChannelTypes /\ KindOf(type) = kind
  BY <1>1, <1>3, LooksAhead DEF TrackKind
<1>6. BlockUse(b, type) = use
  BY <1>3, UseIs
<1>7. /\ kind \in CopiedKinds /\ Place(t, s[p].n) \in Nat /\ 0 < Place(t, s[p].n)
      /\ \A x \in Nat : x < Place(t, s[p].n) => <<kind, x>> \in Slots
  BY <1>3, RoomForTrack
<1>8. n \in [Kinds -> Nat] /\ n[kind] < Place(t, s[p].n)
  BY <1>2, <1>3 DEF CountsFit
<1>9. <<kind, IF kind \in {"time", "eth"} THEN 0 ELSE n[kind]>> \in Slots
  <2>1. n[kind] \in Nat
    BY <1>7, <1>8 DEF Kinds, CopiedKinds
  <2> HIDE DEF kind
  <2>2. QED
    BY <1>7, <1>8, <2>1
<1>10. use \in {"dm", "uart", kind} /\ use \in Kinds
  <2>1. use \in {"dm", "uart", kind}
    BY <1>5, <1>6, BlockUseIs
  <2>2. QED
    BY <1>7, <2>1 DEF Kinds, CopiedKinds
<1>11. /\ KindOf(type) \in {"time", "eth"} => <<KindOf(type), 0>> \in Slots
       /\ KindOf(type) \notin {"time", "eth"} => <<KindOf(type), n[KindOf(type)]>> \in Slots
  <2> HIDE DEF kind, type
  <2>1. QED BY <1>5, <1>9
<1>12. b[1].att = "TK1"
  BY <1>3, <1>4
<1> HIDE DEF b, type, use, kind, p, s, t
<1>13. \E d : /\ DOMAIN d = Slots
              /\ DecodeBlock(Progress(c, n, names), b, type)
                   = Progress(d, OneMore(n, BlockUse(b, type)), Named(names, b[1].v, BlockUse(b, type)))
  BY <1>2, <1>4, <1>5, <1>11, <1>12, BlockDecoded
<1>14. PICK d : /\ DOMAIN d = Slots
                /\ DecodeBlock(q, b, type) = Progress(d, OneMore(n, use), Named(names, s[p].v, use))
  BY <1>2, <1>4, <1>6, <1>13
<1>15. CountsFit(text, p, OneMore(n, use))
  BY <1>2, <1>10, CountsFitOn DEF p, s, t, kind
<1>16. NamesFit(text, p, Named(names, s[p].v, use))
  BY <1>2, <1>10, NamesFitOn DEF p, s, use
<1>17. Fits(text, p, DecodeBlock(q, b, type))
  BY <1>14, <1>15, <1>16 DEF Fits
<1>18. QED
  BY <1>17 DEF b, type, p, s

LEMMA FitsOver ==
  ASSUME NEW text, WellFormed(text), NEW m \in Nat, m + 1 \notin Opens(Sorted(text)),
         NEW q, Fits(text, m, q)
  PROVE  Fits(text, m + 1, q)
<1> DEFINE s == Sorted(text)
<1>1. \A r \in Opens(s) : r \in Nat /\ r # m + 1
  BY OpensAreNumbers
<1> HIDE DEF s
<1>2. \A r \in Opens(s) : (r > m + 1 => r > m) /\ (r <= m + 1 => r <= m) /\ (r <= m => r <= m + 1)
  BY <1>1
<1>3. PICK c, n, names : /\ q = Progress(c, n, names) /\ DOMAIN c = Slots
                         /\ CountsFit(text, m, n) /\ NamesFit(text, m, names)
  BY DEF Fits
<1>4. CountsFit(text, m + 1, n)
  BY <1>2, <1>3 DEF CountsFit, s
<1>5. NamesFit(text, m + 1, names)
  BY <1>2, <1>3 DEF NamesFit, s
<1>6. QED
  BY <1>3, <1>4, <1>5 DEF Fits

\* The parse of a whole sorted text.
LEMMA AllParsed ==
  ASSUME NEW text, WellFormed(text), NEW c, DOMAIN c = Slots
  PROVE  Fits(text, Len(Sorted(text)),
              DecodeBlocks(Sorted(text), Progress(c, NoChannels, [id \in Ids |-> "none"])))
<1> DEFINE s == Sorted(text)
           N == Len(s)
           first == Progress(c, NoChannels, [id \in Ids |-> "none"])
<1>1. N \in Nat /\ \A r \in 1..N : (r \in Opens(s)) <=> (s[r].att = "TK1")
  BY OpensAreNumbers
<1>2. \E after :
        /\ after = [i \in 0..N |->
             IF i = 0 THEN first
             ELSE IF s[i].att = "TK1"
                  THEN DecodeBlock(after[i - 1], Block(s, i), LookAhead(s, i))
                  ELSE after[i - 1]]
        /\ DecodeBlocks(s, first) = after[N]
  <2> HIDE DEF first, s
  <2>1. QED BY <1>1, BlocksDecoded
<1>3. PICK after :
        /\ after = [i \in 0..N |->
             IF i = 0 THEN first
             ELSE IF s[i].att = "TK1"
                  THEN DecodeBlock(after[i - 1], Block(s, i), LookAhead(s, i))
                  ELSE after[i - 1]]
        /\ DecodeBlocks(s, first) = after[N]
  BY <1>2
<1> DEFINE S == {m \in Nat : m <= N => Fits(text, m, after[m])}
<1>4. 0 \in S
  <2>1. after[0] = first
    BY <1>1, <1>3
  <2>2. CountsFit(text, 0, NoChannels)
    <3>1. NoChannels \in [Kinds -> Nat] /\ \A kind \in Kinds : NoChannels[kind] = 0
      BY DEF NoChannels
    <3>2. ASSUME NEW r \in Opens(s)
          PROVE  /\ TrackKind(Visible(text), s[r].n) \in Kinds
                 /\ 0 < Place(Visible(text), s[r].n)
      BY RoomForTrack DEF Kinds, CopiedKinds
    <3>3. QED
      BY <3>1, <3>2 DEF CountsFit
  <2>3. NamesFit(text, 0, [id \in Ids |-> "none"])
    <3>1. \A r \in Opens(s) : ~(r <= 0)
      BY OpensAreNumbers
    <3>2. QED
      BY <3>1 DEF NamesFit
  <2>4. Fits(text, 0, first)
    BY <2>2, <2>3 DEF Fits
  <2>5. QED
    BY <2>1, <2>4
<1> HIDE DEF N, first
<1>5. ASSUME NEW m \in Nat, m \in S PROVE m + 1 \in S
  <2> SUFFICES ASSUME m + 1 <= N PROVE Fits(text, m + 1, after[m + 1])
    OBVIOUS
  <2>1. m + 1 \in 0..N /\ m + 1 \in 1..N /\ m + 1 # 0 /\ (m + 1) - 1 = m /\ m <= N
    BY <1>1
  <2>2. Fits(text, m, after[m])
    BY <1>5, <2>1
  <2>3. after[m + 1] = IF s[m + 1].att = "TK1"
                       THEN DecodeBlock(after[m], Block(s, m + 1), LookAhead(s, m + 1))
                       ELSE after[m]
    <3> HIDE DEF s
    <3>1. QED BY <1>3, <2>1
  <2>4. (m + 1 \in Opens(s)) <=> (s[m + 1].att = "TK1")
    BY <1>1, <2>1
  <2>5. CASE s[m + 1].att = "TK1"
    BY <2>2, <2>3, <2>4, <2>5, FitsOn
  <2>6. CASE s[m + 1].att # "TK1"
    BY <2>2, <2>3, <2>4, <2>6, FitsOver
  <2>7. QED
    BY <2>5, <2>6
<1>6. N \in S
  <2> HIDE DEF S
  <2>1. QED BY <1>1, <1>4, <1>5, InductionBySet
<1>7. Fits(text, N, after[N])
  BY <1>1, <1>6
<1>8. QED
  BY <1>3, <1>7 DEF N, first

\* Lines of texts, sorted or not, and of the buffer.
AnyLine == Lines \cup {Separator[1], NoText[1], Header[1]}

LEMMA FlattenedIsText ==
  ASSUME NEW L, NEW n \in Nat, NEW segs, segs = [i \in 1..n |-> segs[i]],
         \A i \in 1..n : segs[i] \in Seq(L)
  PROVE  FlattenSeq(segs) \in Seq(L)
<1>1. segs \in Seq(Seq(L)) /\ Len(segs) = n
  OBVIOUS
<1>2. CASE n = 0
  <2>1. FlattenSeq(segs) = segs
    BY <1>1, <1>2 DEF FlattenSeq
  <2>2. segs = <<>>
    BY <1>1, <1>2
  <2>3. <<>> \in Seq(L)
    OBVIOUS
  <2>4. QED
    BY <2>1, <2>2, <2>3
<1>3. CASE n # 0
  <2>1. PICK flat :
          /\ flat = [i \in 1..n |-> IF i = 1 THEN segs[i] ELSE flat[i - 1] \o segs[i]]
          /\ FlattenSeq(segs) = flat[n]
    BY <1>1, <1>3, Flattened
  <2> DEFINE S == {m \in Nat : m + 1 <= n => flat[m + 1] \in Seq(L)}
  <2>2. 0 \in S
    <3>1. 1 \in 1..n /\ 0 + 1 = 1
      BY <1>3
    <3>2. flat[1] = segs[1]
      BY <2>1, <3>1
    <3>3. QED
      BY <3>1, <3>2
  <2>3. ASSUME NEW m \in Nat, m \in S PROVE m + 1 \in S
    <3> SUFFICES ASSUME (m + 1) + 1 <= n PROVE flat[(m + 1) + 1] \in Seq(L)
      OBVIOUS
    <3>1. (m + 1) + 1 \in 1..n /\ (m + 1) + 1 # 1 /\ ((m + 1) + 1) - 1 = m + 1 /\ m + 1 <= n
      OBVIOUS
    <3>2. flat[(m + 1) + 1] = flat[m + 1] \o segs[(m + 1) + 1]
      BY <2>1, <3>1
    <3>3. flat[m + 1] \in Seq(L) /\ segs[(m + 1) + 1] \in Seq(L)
      BY <2>3, <3>1
    <3>4. QED
      BY <3>2, <3>3
  <2>4. n - 1 \in Nat /\ (n - 1) + 1 = n
    BY <1>3
  <2>5. n - 1 \in S
    <3> HIDE DEF S
    <3>1. QED BY <2>2, <2>3, <2>4, InductionBySet
  <2>6. (n - 1) + 1 <= n => flat[(n - 1) + 1] \in Seq(L)
    BY <2>5
  <2> HIDE DEF S
  <2>7. flat[n] \in Seq(L)
    BY <2>4, <2>6
  <2>8. QED
    BY <2>1, <2>7
<1>4. QED
  BY <1>2, <1>3

LEMMA TracksAreList ==
  ASSUME NEW t \in Seq(AnyLine), NEW kind
  PROVE  \E n \in Nat : DOMAIN Tracks(t, kind) = 1..n
<1>1. LinesAt(t, CdtsOf(t, kind)) \in Seq(AnyLine)
  BY LinesAtPicks
<1>2. QED
  BY <1>1 DEF Tracks

LEMMA VisibleIsText ==
  ASSUME NEW text \in Seq(AnyLine)
  PROVE  Visible(text) \in Seq(AnyLine)
<1> DEFINE ends == {i \in DOMAIN text : text[i].att = "blank"}
           m == CHOOSE i \in ends : \A j \in ends : i <= j
<1>1. CASE ends = {}
  BY <1>1 DEF Visible
<1>2. CASE ends # {}
  <2>1. ends \subseteq Nat /\ ends \subseteq 1..Len(text) /\ Len(text) \in Nat
    OBVIOUS
  <2>2. m \in ends
    <3> HIDE DEF ends
    <3>1. \E i \in ends : \A j \in ends : i <= j
      BY <1>2, <2>1, LeastNat
    <3>2. QED
      BY <3>1
  <2>3. Visible(text) = SubSeq(text, 1, m - 1)
    BY <1>2 DEF Visible
  <2> HIDE DEF m, ends
  <2>4. m \in 1..Len(text)
    BY <2>1, <2>2
  <2>5. SubSeq(text, 1, m - 1) \in Seq(AnyLine)
    BY <2>1, <2>4
  <2>6. QED
    BY <2>3, <2>5
<1>3. QED
  BY <1>1, <1>2

LEMMA TakenIsText ==
  ASSUME NEW t \in Seq(AnyLine), NEW P
  PROVE  LinesAt(t, P) \in Seq(AnyLine)
BY LinesAtPicks

LEMMA TogetherIsText ==
  ASSUME NEW s \in Seq(AnyLine), NEW u \in Seq(AnyLine)
  PROVE  s \o u \in Seq(AnyLine)
OBVIOUS

LEMMA SeparatorIsText == Separator \in Seq(AnyLine)
<1>1. Separator[1] \in AnyLine /\ Separator = <<Separator[1]>>
  BY DEF AnyLine, Separator
<1>2. ASSUME NEW L, NEW x \in L PROVE <<x>> \in Seq(L)
  OBVIOUS
<1> HIDE DEF AnyLine
<1>3. <<Separator[1]>> \in Seq(AnyLine)
  BY <1>1, <1>2
<1>4. QED
  BY <1>1, <1>3

\* What is copied of the tracks of a kind is a text.
LEMMA KindIsText ==
  ASSUME NEW t \in Seq(AnyLine), NEW kind, NEW segs,
         segs = [i \in DOMAIN Tracks(t, kind) |-> segs[i]],
         \A i \in DOMAIN Tracks(t, kind) : segs[i] \in Seq(AnyLine)
  PROVE  FlattenSeq(segs) \in Seq(AnyLine)
<1>1. PICK n \in Nat : DOMAIN Tracks(t, kind) = 1..n
  BY TracksAreList
<1>2. segs = [i \in 1..n |-> segs[i]] /\ \A i \in 1..n : segs[i] \in Seq(AnyLine)
  BY <1>1
<1>3. QED
  BY <1>2, FlattenedIsText

LEMMA SortedIsText ==
  ASSUME NEW text \in Seq(AnyLine)
  PROVE  Sorted(text) \in Seq(AnyLine)
<1> DEFINE t == Visible(text)
<1>1. t \in Seq(AnyLine)
  BY VisibleIsText
<1> HIDE DEF t
<1>2. \A n, copied : TrackLines(t, n, copied) \in Seq(AnyLine) /\ FirstLine(t, n) \in Seq(AnyLine)
  BY <1>1, TakenIsText, TogetherIsText DEF TrackLines, FirstLine
<1>3. /\ GeneralLines(t) \in Seq(AnyLine) /\ TimeLines(t) \in Seq(AnyLine)
      /\ EthernetLines(t) \in Seq(AnyLine) /\ RestLines(t) \in Seq(AnyLine)
  BY <1>1, <1>2, TakenIsText, TogetherIsText DEF GeneralLines, TimeLines, EthernetLines, RestLines
<1>4. VoiceLines(t) \in Seq(AnyLine)
  <2> DEFINE segs == [i \in DOMAIN Tracks(t, "voice") |->
                        TrackLines(t, Tracks(t, "voice")[i], VoiceCopied)]
  <2>1. \A i \in DOMAIN Tracks(t, "voice") : segs[i] \in Seq(AnyLine)
    BY <1>2
  <2>2. segs = [i \in DOMAIN Tracks(t, "voice") |-> segs[i]] /\ VoiceLines(t) = FlattenSeq(segs)
    BY DEF VoiceLines
  <2> HIDE DEF segs
  <2>3. QED BY <1>1, <2>1, <2>2, KindIsText
<1>5. M1553Lines(t) \in Seq(AnyLine)
  <2> DEFINE segs == [i \in DOMAIN Tracks(t, "m1553") |->
                        TrackLines(t, Tracks(t, "m1553")[i], M1553Recorder \union M1553Vendor)]
  <2>1. \A i \in DOMAIN Tracks(t, "m1553") : segs[i] \in Seq(AnyLine)
    BY <1>2
  <2>2. segs = [i \in DOMAIN Tracks(t, "m1553") |-> segs[i]] /\ M1553Lines(t) = FlattenSeq(segs)
    BY DEF M1553Lines
  <2> HIDE DEF segs
  <2>3. QED BY <1>1, <2>1, <2>2, KindIsText
<1>6. VideoLines(t) \in Seq(AnyLine)
  <2> DEFINE segs == [i \in DOMAIN Tracks(t, "video") |->
                        LET n == Tracks(t, "video")[i]
                        IN  FirstLine(t, n)
                              \o LinesAt(t, Own(t, n, VideoRecorder \union VideoOverlay \union VideoVendor)
                                              \union Own(t, i, VideoPlaced))]
  <2>1. \A i \in DOMAIN Tracks(t, "video") : segs[i] \in Seq(AnyLine)
    BY <1>1, <1>2, TakenIsText, TogetherIsText
  <2>2. segs = [i \in DOMAIN Tracks(t, "video") |-> segs[i]] /\ VideoLines(t) = FlattenSeq(segs)
    BY DEF VideoLines
  <2> HIDE DEF segs
  <2>3. QED BY <1>1, <2>1, <2>2, KindIsText
<1>7. PcmLines(t) \in Seq(AnyLine)
  <2> DEFINE segs == [i \in DOMAIN Tracks(t, "pcm") |->
                        LET n == Tracks(t, "pcm")[i]
                        IN  FirstLine(t, n)
                              \o LinesAt(t, Own(t, n, PcmRecorder \union PcmVendor) \union LinkLines(t, i))
                              \o Separator]
  <2>1. \A i \in DOMAIN Tracks(t, "pcm") : segs[i] \in Seq(AnyLine)
    BY <1>1, <1>2, TakenIsText, TogetherIsText, SeparatorIsText
  <2>2. segs = [i \in DOMAIN Tracks(t, "pcm") |-> segs[i]] /\ PcmLines(t) = FlattenSeq(segs)
    BY DEF PcmLines
  <2> HIDE DEF segs
  <2>3. QED BY <1>1, <2>1, <2>2, KindIsText
<1>8. Sorted(text) = GeneralLines(t) \o TimeLines(t) \o VoiceLines(t) \o M1553Lines(t) \o VideoLines(t)
                       \o EthernetLines(t) \o Separator \o PcmLines(t) \o RestLines(t)
  BY DEF Sorted, t
<1>9. QED
  BY <1>3, <1>4, <1>5, <1>6, <1>7, <1>8, SeparatorIsText, TogetherIsText

\* Whatever a track says, the entries of the configuration stay.
LEMMA BlockKeeps ==
  ASSUME NEW c, NEW n, NEW names, NEW block, NEW type
  PROVE  \E d, m, ts : /\ DecodeBlock(Progress(c, n, names), block, type) = Progress(d, m, ts)
                       /\ DOMAIN d = DOMAIN c
<1> DEFINE q == Progress(c, n, names)
           kind == KindOf(type)
           slot == <<kind, IF kind \in {"time", "eth"} THEN 0 ELSE q.n[kind]>>
           Remains(r) == \E d, m, ts : r = Progress(d, m, ts) /\ DOMAIN d = DOMAIN c
<1>1. q.config = c /\ \A d : [q EXCEPT !.config = d] = Progress(d, n, names)
  BY DEF Progress
<1>2. ASSUME NEW d, DOMAIN d = DOMAIN c, NEW use, NEW id
      PROVE  Remains(Counted([q EXCEPT !.config = d], use, id))
  <2>1. [q EXCEPT !.config = d] = Progress(d, n, names)
    BY <1>1
  <2>2. Counted(Progress(d, n, names), use, id) = Progress(d, OneMore(n, use), Named(names, id, use))
    BY CountedIs
  <2>3. QED
    <3> HIDE DEF q
    <3>1. QED BY <1>2, <2>1, <2>2
<1> SUFFICES Remains(DecodeBlock(q, block, type))
  OBVIOUS
<1> HIDE DEF q, Remains
<1>3. \A x, y, e, f : DOMAIN [q.config EXCEPT ![e] = x, ![f] = y] = DOMAIN c
  BY <1>1
<1>4. \A x, e : DOMAIN [q.config EXCEPT ![e] = x] = DOMAIN c
  BY <1>1
<1>5. CASE kind = "m1553"
  <2>1. DecodeBlock(q, block, type) = DecodeM1553(q, block)
    BY <1>5 DEF DecodeBlock
  <2> DEFINE own == <<"m1553", q.n["m1553"]>>
             d == [q.config EXCEPT ![own] = Decode("m1553", @, block),
                                   ![<<"dm", 0>>] = Decode("dm", @, block)]
             use == IF Has(block, "DTF") \/ Has(block, "DMSK") THEN "dm" ELSE "m1553"
  <2>2. DecodeM1553(q, block) = Counted([q EXCEPT !.config = d], use, d[own]["TK1"])
    BY DEF DecodeM1553
  <2>3. DOMAIN d = DOMAIN c
    BY <1>3
  <2> HIDE DEF d, own, use
  <2>4. QED
    BY <1>2, <2>1, <2>2, <2>3
<1>6. CASE kind = "pcm"
  <2>1. DecodeBlock(q, block, type) = DecodePcm(q, block, type)
    BY <1>6 DEF DecodeBlock
  <2> DEFINE chan == Decode("pcm", q.config[<<"pcm", q.n["pcm"]>>], block)
  <2>2. \E d, use : DOMAIN d = DOMAIN c
                    /\ DecodePcm(q, block, type) = Counted([q EXCEPT !.config = d], use, chan["TK1"])
    <3> HIDE DEF chan
    <3>1. QED BY <1>3 DEF DecodePcm, chan
  <2> HIDE DEF chan
  <2>3. QED
    BY <1>2, <2>1, <2>2
<1>7. CASE kind \notin {"m1553", "pcm"}
  <2> DEFINE d == [q.config EXCEPT ![slot] = Decode(kind, @, block)]
  <2>1. DecodeBlock(q, block, type) = Counted([q EXCEPT !.config = d], kind, d[slot]["TK1"])
    BY <1>7 DEF DecodeBlock
  <2>2. DOMAIN d = DOMAIN c
    BY <1>4
  <2> HIDE DEF d, slot, kind
  <2>3. QED
    BY <1>2, <2>1, <2>2
<1>8. QED
  BY <1>5, <1>6, <1>7

LEMMA BlocksKeep ==
  ASSUME NEW c, NEW n, NEW names, NEW text, Len(text) \in Nat
  PROVE  \E d, m, ts : /\ DecodeBlocks(text, Progress(c, n, names)) = Progress(d, m, ts)
                       /\ DOMAIN d = DOMAIN c
<1> DEFINE N == Len(text)
           first == Progress(c, n, names)
           Remains(r) == \E d, m, ts : r = Progress(d, m, ts) /\ DOMAIN d = DOMAIN c
<1>0. \E after :
        /\ after = [i \in 0..N |->
             IF i = 0 THEN first
             ELSE IF text[i].att = "TK1"
                  THEN DecodeBlock(after[i - 1], Block(text, i), LookAhead(text, i))
                  ELSE after[i - 1]]
        /\ DecodeBlocks(text, first) = after[N]
  <2> HIDE DEF first
  <2>1. QED BY BlocksDecoded
<1>1. PICK after :
        /\ after = [i \in 0..N |->
             IF i = 0 THEN first
             ELSE IF text[i].att = "TK1"
                  THEN DecodeBlock(after[i - 1], Block(text, i), LookAhead(text, i))
                  ELSE after[i - 1]]
        /\ DecodeBlocks(text, first) = after[N]
  BY <1>0
<1>2. N \in Nat
  OBVIOUS
<1>3. Remains(first)
  OBVIOUS
<1>4. ASSUME NEW r, Remains(r), NEW block, NEW type PROVE Remains(DecodeBlock(r, block, type))
  <2>1. PICK d, m, ts : r = Progress(d, m, ts) /\ DOMAIN d = DOMAIN c
    BY <1>4
  <2>2. PICK e, k, us : /\ DecodeBlock(Progress(d, m, ts), block, type) = Progress(e, k, us)
                        /\ DOMAIN e = DOMAIN d
    BY BlockKeeps
  <2>3. QED
    BY <2>1, <2>2
<1> DEFINE S == {m \in Nat : m <= N => Remains(after[m])}
<1> HIDE DEF N, first, Remains
<1>5. 0 \in S
  BY <1>1, <1>2, <1>3
<1>6. ASSUME NEW m \in Nat, m \in S PROVE m + 1 \in S
  <2> SUFFICES ASSUME m + 1 <= N PROVE Remains(after[m + 1])
    OBVIOUS
  <2>1. m + 1 \in 0..N /\ m + 1 # 0 /\ (m + 1) - 1 = m /\ m <= N
    BY <1>2
  <2>2. after[m + 1] = IF text[m + 1].att = "TK1"
                       THEN DecodeBlock(after[m], Block(text, m + 1), LookAhead(text, m + 1))
                       ELSE after[m]
    BY <1>1, <2>1
  <2>3. Remains(after[m])
    BY <1>6, <2>1
  <2>4. QED
    BY <1>4, <2>2, <2>3
<1>7. N \in S
  <2> HIDE DEF S
  <2>1. QED BY <1>2, <1>5, <1>6, InductionBySet
<1>8. Remains(after[N])
  BY <1>2, <1>7
<1>9. QED
  BY <1>1, <1>8 DEF Remains, first

\* A file processed: the parse of its sorted text, then the auto record line.
LEMMA ProcessedIs ==
  ASSUME NEW text \in Seq(AnyLine), NEW c
  PROVE  \E d, lines :
           /\ DOMAIN d = DOMAIN c /\ Len(lines) \in Nat
           /\ LET p == DecodeBlocks(Sorted(text), Progress(d, NoChannels, [id \in Ids |-> "none"]))
              IN  Processed(text, c) = [p EXCEPT !.config = Settle(@, lines)]
<1> DEFINE t == Visible(text)
           auto == LinesAt(t, {i \in DOMAIN t : t[i].att = "ARE" /\ t[i].v = "T"})
           bus == LinesAt(t, Anywhere(t, BusAtts))
           b == BusLines(c, t)
           d == Settle(ClearedSettings(b), Sorted(text))
           p == ParseTMATSFile(Sorted(text), b)
<1>1. Processed(text, c) = [p EXCEPT !.config = Settle(@, auto)]
  BY DEF Processed
<1>2. p = DecodeBlocks(Sorted(text), Progress(d, NoChannels, [id \in Ids |-> "none"]))
  <2> HIDE DEF b
  <2>1. QED BY DEF ParseTMATSFile, Parsed, Progress
<1>3. t \in Seq(AnyLine) /\ Sorted(text) \in Seq(AnyLine)
  BY VisibleIsText, SortedIsText
<1> HIDE DEF t
<1>4. auto \in Seq(AnyLine) /\ bus \in Seq(AnyLine)
  BY <1>3, TakenIsText
<1> HIDE DEF auto, bus
<1>5. Len(auto) \in Nat /\ Len(bus) \in Nat /\ Len(Sorted(text)) \in Nat
  BY <1>3, <1>4
<1>6. DOMAIN b = DOMAIN c
  BY <1>5, SettleKeeps DEF BusLines, bus
<1> HIDE DEF b
<1>7. DOMAIN ClearedSettings(b) = DOMAIN b
  BY DEF ClearedSettings
<1>8. DOMAIN d = DOMAIN c
  BY <1>5, <1>6, <1>7, SettleKeeps
<1> HIDE DEF d, p
<1>9. QED
  BY <1>1, <1>2, <1>5, <1>8

LEMMA ProcessedKeeps ==
  ASSUME NEW text \in Seq(AnyLine), NEW c
  PROVE  DOMAIN Processed(text, c).config = DOMAIN c
<1>1. PICK d, lines :
        /\ DOMAIN d = DOMAIN c /\ Len(lines) \in Nat
        /\ LET p == DecodeBlocks(Sorted(text), Progress(d, NoChannels, [id \in Ids |-> "none"]))
           IN  Processed(text, c) = [p EXCEPT !.config = Settle(@, lines)]
  BY ProcessedIs
<1>2. Len(Sorted(text)) \in Nat
  BY SortedIsText
<1>3. PICK e, m, ts :
        /\ DecodeBlocks(Sorted(text), Progress(d, NoChannels, [id \in Ids |-> "none"])) = Progress(e, m, ts)
        /\ DOMAIN e = DOMAIN d
  BY <1>2, BlocksKeep
<1>4. Processed(text, c) = [Progress(e, m, ts) EXCEPT !.config = Settle(@, lines)]
  BY <1>1, <1>3
<1>5. Processed(text, c).config = Settle(e, lines)
  BY <1>4 DEF Progress
<1>6. QED
  BY <1>1, <1>3, <1>5, SettleKeeps

LEMMA ProcessedNames ==
  ASSUME NEW text \in Seq(AnyLine), WellFormed(text), NEW c, DOMAIN c = Slots
  PROVE  NamesFit(text, Len(Sorted(text)), Processed(text, c).types)
<1>1. PICK d, lines :
        /\ DOMAIN d = DOMAIN c /\ Len(lines) \in Nat
        /\ LET p == DecodeBlocks(Sorted(text), Progress(d, NoChannels, [id \in Ids |-> "none"]))
           IN  Processed(text, c) = [p EXCEPT !.config = Settle(@, lines)]
  BY ProcessedIs
<1>2. Fits(text, Len(Sorted(text)),
           DecodeBlocks(Sorted(text), Progress(d, NoChannels, [id \in Ids |-> "none"])))
  BY <1>1, AllParsed
<1>3. PICK e, m, ts :
        /\ DecodeBlocks(Sorted(text), Progress(d, NoChannels, [id \in Ids |-> "none"])) = Progress(e, m, ts)
        /\ NamesFit(text, Len(Sorted(text)), ts)
  BY <1>2 DEF Fits
<1>4. Processed(text, c) = [Progress(e, m, ts) EXCEPT !.config = Settle(@, lines)]
  BY <1>1, <1>3
<1>5. Processed(text, c).types = ts
  BY <1>4 DEF Progress
<1>6. QED
  BY <1>3, <1>5

LEMMA IdIsDecoded ==
  ASSUME NEW use \in CopiedKinds \cup {"dm", "uart"}
  PROVE  "TK1" \in Decoded(IF use = "uart" THEN "pcm" ELSE use)
BY IdDecoded DEF CopiedKinds, DecoderKinds

LEMMA IdIsPlain == "TK1" \notin TimePlain \cup EthernetPlain \cup VideoPlaced \cup LinkAtts
BY DEF TimePlain, EthernetPlain, VideoPlaced, LinkAtts

\* The track of a line TK1 has its type, and the sorted text has the track.
LEMMA TracksFound ==
  ASSUME NEW text, WellFormed(text), NEW k \in TracksOf(text)
  PROVE  /\ Use(text, k) \in CopiedKinds \cup {"dm", "uart"}
         /\ \E p \in Opens(Sorted(text)) : Sorted(text)[p].n = k
<1> DEFINE t == Visible(text)
           s == Sorted(text)
<1>1. WellFormedLines(t) /\ Part(t, s, SomeNumbers(t, CopiedKinds))
  BY SortedPart DEF WellFormed
<1>2. PICK c \in DOMAIN t : t[c].att = "CDT" /\ t[c].n = k
  BY DEF TracksOf, HasLine, Line
<1>3. TypeOf(text, k) = t[c].v /\ t[c].v \in ChannelTypes
  BY <1>1, <1>2, TypeIs DEF TypeOf, TrackType, Line
<1> DEFINE kind == KindOf(t[c].v)
<1>4. kind \in CopiedKinds
  BY <1>3, KindOfTypes
<1>5. c \in CdtsOf(t, kind)
  BY <1>2 DEF CdtsOf
<1> HIDE DEF kind, s
<1>6. PICK i \in DOMAIN Tracks(t, kind) : Tracks(t, kind)[i] = t[c].n
  BY <1>1, <1>5, TracksAre
<1>7. k \in SomeNumbers(t, CopiedKinds)
  <2>1. k \in TrackNumbers(t, kind)
    BY <1>2, <1>6 DEF TrackNumbers
  <2>2. QED
    BY <1>4, <2>1 DEF SomeNumbers
<1>8. PICK p \in Opens(s) : s[p].n = k
  BY <1>1, <1>7 DEF Part, AllTracks
<1>9. p \in Opens(Sorted(text)) /\ Sorted(text)[p].n = k
  BY <1>8 DEF s
<1>10. Use(text, k) \in {"dm", "uart", KindOf(LookAhead(Sorted(text), p))}
  BY <1>9, UseIs, BlockUseIs
<1>11. LookAhead(s, p) \in ChannelTypes
  BY <1>1, <1>8, LooksAhead
<1>12. KindOf(LookAhead(Sorted(text), p)) \in CopiedKinds
  BY <1>11, KindOfTypes DEF s
<1>13. QED
  BY <1>9, <1>10, <1>12

\* What it takes for a file to state an id of a track.
LEMMA StatesId ==
  ASSUME NEW text, WellFormed(text), NEW k \in TracksOf(text), NEW id
  PROVE  States(text, k, "TK1", id)
           <=> \E i \in DOMAIN Visible(text) :
                 Line(text, i).att = "TK1" /\ Line(text, i).n = k /\ Line(text, i).v = id
<1> DEFINE slot == SlotOf(text, k)
<1>1. slot[1] \in CopiedKinds \cup {"dm", "uart"}
  BY TracksFound DEF SlotOf
<1>2. "TK1" \in Decoded(IF slot[1] = "uart" THEN "pcm" ELSE slot[1])
  BY <1>1, IdIsDecoded
<1> HIDE DEF slot
<1>3. ASSUME NEW l, l.att = "TK1" PROVE Tells(text, k, slot, l) <=> l.n = k
  BY <1>2, <1>3, IdIsPlain DEF Tells
<1>4. QED
  BY <1>3 DEF States, Line, slot

\* The types after a parse are the ones the file states.
LEMMA NamesAsStated ==
  ASSUME NEW text, WellFormed(text), NEW names, NamesFit(text, Len(Sorted(text)), names),
         NEW id \in Ids
  PROVE  LET of == {k \in TracksOf(text) : States(text, k, "TK1", id)}
         IN  names[id] = IF of = {} THEN "none" ELSE NameOf(Use(text, CHOOSE k \in of : TRUE))
<1> DEFINE t == Visible(text)
           s == Sorted(text)
           of == {k \in TracksOf(text) : States(text, k, "TK1", id)}
<1>1. WellFormedLines(t) /\ Part(t, s, SomeNumbers(t, CopiedKinds))
  BY SortedPart DEF WellFormed
<1>2. ASSUME NEW k \in of PROVE \E p \in Opens(s) : s[p].n = k /\ s[p].v = id
  <2>1. PICK p \in Opens(s) : s[p].n = k
    BY TracksFound
  <2>2. PICK i \in DOMAIN t : t[i].att = "TK1" /\ t[i].n = k /\ t[i].v = id
    BY StatesId DEF Line
  <2>3. PICK f \in DOMAIN t : s[p] = t[f]
    BY <1>1, OpensTrack
  <2>4. s[p].att = "TK1"
    BY <1>1, OpensTrack
  <2>5. f \in Anywhere(t, {"TK1"}) /\ i \in Anywhere(t, {"TK1"}) /\ t[f].n = t[i].n
    BY <2>1, <2>2, <2>3, <2>4 DEF Anywhere
  <2>6. \A x, y \in Anywhere(t, {"TK1"}) : t[x].n = t[y].n => x = y
    BY <1>1 DEF WellFormedLines
  <2> HIDE DEF t, s
  <2>7. f = i
    BY <2>5, <2>6
  <2>8. QED
    BY <2>1, <2>2, <2>3, <2>7
<1>3. ASSUME NEW p \in Opens(s), s[p].v = id PROVE s[p].n \in of
  <2>1. PICK f \in DOMAIN t : s[p] = t[f]
    BY <1>1, OpensTrack
  <2>2. s[p].att = "TK1"
    BY <1>1, OpensTrack
  <2>3. \E c \in DOMAIN t : t[c].att = "CDT" /\ t[c].n = s[p].n
    BY <1>1, LooksAhead
  <2>4. s[p].n \in TracksOf(text)
    BY <2>1, <2>2, <2>3 DEF TracksOf, HasLine, Line
  <2>5. States(text, s[p].n, "TK1", id)
    <3>1. Line(text, f).att = "TK1" /\ Line(text, f).n = s[p].n /\ Line(text, f).v = id
      BY <1>3, <2>1, <2>2 DEF Line
    <3>2. QED
      BY <2>4, <3>1, StatesId
  <2>6. QED
    BY <2>4, <2>5
<1>4. \A r \in Opens(s) : r <= Len(s)
  BY OpensAreNumbers
<1> HIDE DEF of, t
<1>5. CASE of = {}
  <2>1. \A r \in Opens(s) : s[r].v # id
    BY <1>3, <1>5
  <2>2. names[id] = "none"
    BY <2>1 DEF NamesFit
  <2>3. QED
    BY <1>5, <2>2 DEF of
<1>6. CASE of # {}
  <2> DEFINE k == CHOOSE x \in of : TRUE
  <2>1. k \in of
    BY <1>6
  <2> HIDE DEF k
  <2>2. PICK p \in Opens(s) : s[p].n = k /\ s[p].v = id
    BY <1>2, <2>1
  <2>3. names[id] = NameOf(Use(text, k))
    BY <1>4, <2>2 DEF NamesFit
  <2>4. QED
    BY <1>6, <2>3 DEF of, k
<1>7. QED
  BY <1>5, <1>6

-----------------------------------------------------------------------------
(* What the sorted text has of every track.                                *)

\* The lines copied for track k of this kind, the x-th of them.
CopiesFor(t, kind, k, x) ==
  CASE kind = "time" -> Own(t, k, TimeNumbered) \cup Anywhere(t, TimePlain)
    [] kind = "eth" -> Own(t, k, EthernetNumbered) \cup Anywhere(t, EthernetPlain)
    [] kind = "voice" -> Own(t, k, VoiceCopied)
    [] kind = "m1553" -> Own(t, k, M1553Recorder \cup M1553Vendor)
    [] kind = "video" -> Own(t, k, VideoRecorder \cup VideoOverlay \cup VideoVendor)
                           \cup Own(t, x, VideoPlaced)
    [] kind = "pcm" -> Own(t, k, PcmRecorder \cup PcmVendor) \cup LinkLines(t, x)
CopiesOf(t, k) == CopiesFor(t, TrackKind(t, k), k, Place(t, k))

\* s has for each of its tracks the lines copied for it and no others, but for lines of
\* the Ethernet track where there is none.
Filled(t, s) ==
  /\ s \in Seq(Copyable)
  /\ \A p \in Opens(s) :
       /\ \A q \in DOMAIN s : Within(s, p, q) =>
            s[q].att \in EthernetPlain \/ \E i \in CopiesOf(t, s[p].n) : s[q] = t[i]
       /\ \A i \in CopiesOf(t, s[p].n) : \E q \in DOMAIN s : s[q] = t[i] /\ Within(s, p, q)

\* What u begins with is not about the last track of s.
Shut(s, u) ==
  \A p \in Opens(s), q \in DOMAIN u : Within(s \o u, p, Len(s) + q) => u[q].att \in EthernetPlain
Starts(u) == u = <<>> \/ Ends(u[1])
Stops(s) == s = <<>> \/ s[Len(s)].att = "COM"

LEMMA WithinBack ==
  ASSUME NEW L, NEW s \in Seq(L), NEW u \in Seq(L)
  PROVE  /\ \A p, q \in DOMAIN s : Within(s \o u, p, q) => Within(s, p, q)
         /\ \A p, q \in DOMAIN u : Within(s \o u, Len(s) + p, Len(s) + q) => Within(u, p, q)
<1>1. ASSUME NEW p \in DOMAIN s, NEW q \in DOMAIN s, Within(s \o u, p, q)
      PROVE  Within(s, p, q)
  <2>1. \A r \in (p + 1)..q : (s \o u)[r] = s[r]
    BY Joined
  <2>2. QED
    BY <1>1, <2>1 DEF Within
<1>2. ASSUME NEW p \in DOMAIN u, NEW q \in DOMAIN u, Within(s \o u, Len(s) + p, Len(s) + q)
      PROVE  Within(u, p, q)
  <2>1. p \in 1..Len(u) /\ q \in 1..Len(u) /\ Len(s) \in Nat /\ p \in Nat /\ q \in Nat
    BY Joined
  <2>2. Len(s) + p < Len(s) + q
    BY <1>2 DEF Within
  <2>3. p < q
    BY <2>1, <2>2
  <2>4. ASSUME NEW r \in (p + 1)..q PROVE ~Ends(u[r])
    <3>1. r \in 1..Len(u) /\ Len(s) + r \in (Len(s) + p + 1)..(Len(s) + q)
      BY <2>1
    <3>2. (s \o u)[Len(s) + r] = u[r]
      BY <3>1, Joined
    <3>3. QED
      BY <1>2, <3>1, <3>2 DEF Within
  <2>5. QED
    BY <2>3, <2>4 DEF Within
<1>3. QED
  BY <1>1, <1>2

LEMMA FilledJoined ==
  ASSUME NEW t, NEW s, NEW u, Filled(t, s), Filled(t, u), Shut(s, u)
  PROVE  Filled(t, s \o u)
<1> DEFINE z == s \o u
<1>1. s \in Seq(Copyable) /\ u \in Seq(Copyable) /\ z \in Seq(Copyable)
  BY DEF Filled
<1>2. /\ Len(s) \in Nat /\ Len(u) \in Nat
      /\ DOMAIN s = 1..Len(s) /\ DOMAIN u = 1..Len(u) /\ DOMAIN z = 1..(Len(s) + Len(u))
      /\ \A p \in DOMAIN s : p \in DOMAIN z /\ z[p] = s[p]
      /\ \A p \in DOMAIN u : Len(s) + p \in DOMAIN z /\ z[Len(s) + p] = u[p]
      /\ \A p \in DOMAIN z : p \in DOMAIN s \/ (p - Len(s) \in DOMAIN u /\ p = Len(s) + (p - Len(s)))
  BY <1>1, Joined
<1>3. /\ \A p, q \in DOMAIN s : Within(s, p, q) <=> Within(z, p, q)
      /\ \A p, q \in DOMAIN u : Within(u, p, q) <=> Within(z, Len(s) + p, Len(s) + q)
  BY <1>1, WithinJoined, WithinBack
<1>4. \A p \in Opens(z) :
        \/ p \in Opens(s) /\ p \in DOMAIN s /\ z[p] = s[p]
        \/ \E a \in Opens(u) : a \in DOMAIN u /\ p = Len(s) + a /\ z[p] = u[a]
  BY <1>2 DEF Opens, Positions
<1>5. \A p \in Opens(s), q \in DOMAIN u : Within(z, p, Len(s) + q) => u[q].att \in EthernetPlain
  BY DEF Shut
<1> HIDE DEF z
<1>6. ASSUME NEW p \in Opens(s), p \in DOMAIN s, z[p] = s[p], NEW q \in DOMAIN z, Within(z, p, q)
      PROVE  z[q].att \in EthernetPlain \/ \E i \in CopiesOf(t, z[p].n) : z[q] = t[i]
  <2>1. CASE q \in DOMAIN s
    <3>1. Within(s, p, q) /\ z[q] = s[q]
      BY <1>2, <1>3, <1>6, <2>1
    <3>2. QED
      BY <1>6, <2>1, <3>1 DEF Filled
  <2>2. CASE q - Len(s) \in DOMAIN u /\ q = Len(s) + (q - Len(s))
    <3>1. z[q] = u[q - Len(s)]
      BY <1>2, <2>2
    <3>2. u[q - Len(s)].att \in EthernetPlain
      BY <1>5, <1>6, <2>2
    <3>3. QED
      BY <3>1, <3>2
  <2>3. QED
    BY <1>2, <2>1, <2>2
<1>7. ASSUME NEW a \in Opens(u), a \in DOMAIN u, NEW q \in DOMAIN z, Within(z, Len(s) + a, q)
      PROVE  z[q].att \in EthernetPlain \/ \E i \in CopiesOf(t, u[a].n) : z[q] = t[i]
  <2>1. Len(s) + a < q
    BY <1>7 DEF Within
  <2>2. q \notin DOMAIN s
    BY <1>2, <1>7, <2>1
  <2>3. q - Len(s) \in DOMAIN u /\ q = Len(s) + (q - Len(s))
    BY <1>2, <2>2
  <2>4. z[q] = u[q - Len(s)] /\ Within(u, a, q - Len(s))
    BY <1>2, <1>3, <1>7, <2>3
  <2>5. QED
    BY <1>7, <2>3, <2>4 DEF Filled
<1>8. ASSUME NEW p \in Opens(s), p \in DOMAIN s, NEW i \in CopiesOf(t, s[p].n)
      PROVE  \E q \in DOMAIN z : z[q] = t[i] /\ Within(z, p, q)
  <2>1. PICK q \in DOMAIN s : s[q] = t[i] /\ Within(s, p, q)
    BY DEF Filled
  <2>2. QED
    BY <1>2, <1>3, <1>8, <2>1
<1>9. ASSUME NEW a \in Opens(u), a \in DOMAIN u, NEW i \in CopiesOf(t, u[a].n)
      PROVE  \E q \in DOMAIN z : z[q] = t[i] /\ Within(z, Len(s) + a, q)
  <2>1. PICK q \in DOMAIN u : u[q] = t[i] /\ Within(u, a, q)
    BY DEF Filled
  <2>2. QED
    BY <1>2, <1>3, <1>9, <2>1
<1>10. ASSUME NEW p \in Opens(z)
       PROVE  /\ \A q \in DOMAIN z : Within(z, p, q) =>
                   z[q].att \in EthernetPlain \/ \E i \in CopiesOf(t, z[p].n) : z[q] = t[i]
              /\ \A i \in CopiesOf(t, z[p].n) : \E q \in DOMAIN z : z[q] = t[i] /\ Within(z, p, q)
  <2>1. CASE p \in Opens(s) /\ p \in DOMAIN s /\ z[p] = s[p]
    BY <1>6, <1>8, <2>1
  <2>2. ASSUME NEW a \in Opens(u), a \in DOMAIN u, p = Len(s) + a, z[p] = u[a]
        PROVE  /\ \A q \in DOMAIN z : Within(z, p, q) =>
                    z[q].att \in EthernetPlain \/ \E i \in CopiesOf(t, z[p].n) : z[q] = t[i]
               /\ \A i \in CopiesOf(t, z[p].n) : \E q \in DOMAIN z : z[q] = t[i] /\ Within(z, p, q)
    BY <1>7, <1>9, <2>2
  <2>3. QED
    BY <1>4, <2>1, <2>2
<1>11. QED
  BY <1>1, <1>10 DEF Filled, z

\* When what follows is not about the last track.
LEMMA ShutByStart ==
  ASSUME NEW s \in Seq(Copyable), NEW u \in Seq(Copyable),
         \/ Opens(s) = {}
         \/ Starts(u)
         \/ Stops(s)
         \/ \A q \in DOMAIN u : u[q].att \in EthernetPlain
  PROVE  Shut(s, u)
<1>1. SUFFICES ASSUME NEW p \in Opens(s), NEW q \in DOMAIN u, Within(s \o u, p, Len(s) + q),
                      Starts(u) \/ Stops(s)
               PROVE  FALSE
  BY DEF Shut
<1>2. /\ Len(s) \in Nat /\ Len(u) \in Nat /\ p \in 1..Len(s) /\ q \in 1..Len(u)
      /\ s[p].att = "TK1" /\ p \in Nat /\ q \in Nat
  BY DEF Opens, Positions
<1>3. \A r \in (p + 1)..(Len(s) + q) : ~Ends((s \o u)[r])
  BY <1>1 DEF Within
<1>4. CASE Starts(u)
  <2>1. u # <<>> /\ 1 \in 1..Len(u)
    BY <1>2
  <2>2. Ends(u[1]) /\ (s \o u)[Len(s) + 1] = u[1]
    BY <1>4, <2>1, Joined DEF Starts
  <2>3. Len(s) + 1 \in (p + 1)..(Len(s) + q)
    BY <1>2
  <2>4. QED
    BY <1>3, <2>2, <2>3
<1>5. CASE Stops(s)
  <2>1. s # <<>> /\ Len(s) \in 1..Len(s)
    BY <1>2
  <2>2. s[Len(s)].att = "COM" /\ (s \o u)[Len(s)] = s[Len(s)]
    BY <1>5, <2>1, Joined DEF Stops
  <2>3. p # Len(s)
    BY <1>2, <2>2
  <2>4. Len(s) \in (p + 1)..(Len(s) + q)
    BY <1>2, <2>3
  <2>5. Ends((s \o u)[Len(s)])
    BY <2>2 DEF Ends
  <2>6. QED
    BY <1>3, <2>4, <2>5
<1>6. QED
  BY <1>1, <1>4, <1>5

LEMMA StartsJoined ==
  ASSUME NEW s \in Seq(Copyable), NEW u \in Seq(Copyable), Starts(s), Starts(u)
  PROVE  Starts(s \o u)
<1>1. CASE s = <<>>
  BY <1>1
<1>2. CASE s # <<>>
  <2>1. 1 \in 1..Len(s)
    BY <1>2
  <2>2. (s \o u)[1] = s[1]
    BY <2>1, Joined
  <2>3. QED
    BY <1>2, <2>2 DEF Starts
<1>3. QED
  BY <1>1, <1>2

LEMMA StopsJoined ==
  ASSUME NEW s \in Seq(Copyable), NEW u \in Seq(Copyable), Stops(u), u = <<>> => Stops(s)
  PROVE  Stops(s \o u)
<1>1. CASE u = <<>>
  BY <1>1
<1>2. CASE u # <<>>
  <2>1. Len(u) \in 1..Len(u)
    BY <1>2
  <2>2. (s \o u)[Len(s) + Len(u)] = u[Len(u)] /\ Len(s \o u) = Len(s) + Len(u)
    BY <2>1, Joined
  <2>3. QED
    BY <1>2, <2>2 DEF Stops
<1>3. QED
  BY <1>1, <1>2

\* A text of which nothing is copied.
LEMMA NoneFilled ==
  ASSUME NEW t, NEW s \in Seq(Copyable), Opens(s) = {}
  PROVE  Filled(t, s)
BY DEF Filled

\* The first line of a track, and what is copied for it.
LEMMA TrackFilled ==
  ASSUME NEW t, WellFormedLines(t), NEW kind, NEW i \in DOMAIN Tracks(t, kind),
         NEW k, k = Tracks(t, kind)[i], NEW P, P = CopiesFor(t, kind, k, i), P \subseteq DOMAIN t,
         \A q \in P : ~Ends(t[q])
  PROVE  /\ Filled(t, FirstLine(t, k) \o LinesAt(t, P))
         /\ LET z == FirstLine(t, k) \o LinesAt(t, P) IN z # <<>> /\ Ends(z[1])
<1>1. t \in Seq(Copyable)
  BY WellFormedIsText
<1>2. TrackKind(t, k) = kind /\ Place(t, k) = i /\ \E f \in DOMAIN t : t[f].att = "TK1" /\ t[f].n = k
  BY TrackIs
<1>3. PICK f \in DOMAIN t : t[f].att = "TK1" /\ t[f].n = k
  BY <1>2
<1>4. FirstLine(t, k) = <<t[f]>>
  BY <1>3, FirstIsTK1
<1> DEFINE w == LinesAt(t, P)
           z == <<t[f]>> \o w
<1>5. /\ w \in Seq(Copyable)
      /\ \A a \in DOMAIN w : \E j \in P : w[a] = t[j]
      /\ \A j \in P : \E a \in DOMAIN w : w[a] = t[j]
  <2> HIDE DEF w
  <2>1. w \in Seq(Copyable)
    BY <1>1, LinesAreAtP DEF w
  <2>2. \A a \in DOMAIN w : \E j \in P : w[a] = t[j]
    BY <1>1, LinesAreAtP DEF w
  <2>3. \A j \in P : \E a \in DOMAIN w : w[a] = t[j]
    BY <1>1, AllLinesAtP DEF w
  <2>4. QED
    BY <2>1, <2>2, <2>3
<1> HIDE DEF w
<1>6. /\ z \in Seq(Copyable) /\ Len(w) \in Nat /\ DOMAIN w = 1..Len(w)
      /\ DOMAIN z = 1..(1 + Len(w)) /\ z[1] = t[f]
      /\ \A a \in 1..Len(w) : z[1 + a] = w[a]
  <2>1. <<t[f]>> \in Seq(Copyable) /\ Len(<<t[f]>>) = 1 /\ 1 \in 1..1 /\ <<t[f]>>[1] = t[f]
    BY <1>1
  <2>2. QED
    BY <1>5, <2>1, Joined
<1> HIDE DEF z
<1>7. \A q \in DOMAIN z : q = 1 \/ (q - 1 \in DOMAIN w /\ z[q] = w[q - 1] /\ 1 < q)
  <2> SUFFICES ASSUME NEW q \in DOMAIN z, q # 1
               PROVE  q - 1 \in DOMAIN w /\ z[q] = w[q - 1] /\ 1 < q
    OBVIOUS
  <2>1. q - 1 \in 1..Len(w) /\ 1 + (q - 1) = q /\ 1 < q
    BY <1>6
  <2>2. QED
    BY <1>6, <2>1
<1>8. \A q \in DOMAIN z : q # 1 => ~Ends(z[q])
  BY <1>5, <1>7
<1>9. Opens(z) = {1}
  <2>1. 1 \in DOMAIN z
    BY <1>6
  <2>2. \A q \in DOMAIN z : z[q].att = "TK1" => Ends(z[q])
    BY DEF Ends
  <2>3. QED
    BY <1>3, <1>6, <1>8, <2>1, <2>2 DEF Opens, Positions
<1>10. \A q \in DOMAIN z : 1 < q => Within(z, 1, q)
  <2> SUFFICES ASSUME NEW q \in DOMAIN z, 1 < q PROVE Within(z, 1, q)
    OBVIOUS
  <2>1. \A r \in 2..q : r \in DOMAIN z /\ r # 1
    BY <1>6
  <2>2. QED
    BY <1>8, <2>1 DEF Within
<1>11. CopiesOf(t, z[1].n) = P
  BY <1>2, <1>3, <1>6 DEF CopiesOf
<1>12. \A q \in DOMAIN z : Within(z, 1, q) => \E j \in P : z[q] = t[j]
  <2> SUFFICES ASSUME NEW q \in DOMAIN z, Within(z, 1, q) PROVE \E j \in P : z[q] = t[j]
    OBVIOUS
  <2>1. q # 1
    BY DEF Within
  <2>2. QED
    BY <1>5, <1>7, <2>1
<1>13. \A j \in P : \E q \in DOMAIN z : z[q] = t[j] /\ Within(z, 1, q)
  <2> SUFFICES ASSUME NEW j \in P PROVE \E q \in DOMAIN z : z[q] = t[j] /\ Within(z, 1, q)
    OBVIOUS
  <2>1. PICK a \in DOMAIN w : w[a] = t[j]
    BY <1>5
  <2>2. 1 + a \in DOMAIN z /\ z[1 + a] = t[j] /\ 1 < 1 + a
    BY <1>6, <2>1
  <2>3. QED
    BY <1>10, <2>2
<1>14. Filled(t, z)
  BY <1>6, <1>9, <1>11, <1>12, <1>13 DEF Filled
<1>15. z # <<>> /\ Ends(z[1])
  <2>1. Ends(t[f])
    BY <1>3 DEF Ends
  <2>2. z # <<>>
    BY <1>9, <1>3, <1>6 DEF Opens, Positions
  <2>3. QED
    BY <1>6, <2>1, <2>2
<1>16. QED
  BY <1>4, <1>14, <1>15 DEF z, w

\* The tracks of a kind, one after the other.
LEMMA KindFilled ==
  ASSUME NEW t, NEW n \in Nat, NEW segs, segs = [i \in 1..n |-> segs[i]],
         \A i \in 1..n : Filled(t, segs[i]) /\ segs[i] # <<>> /\ Ends(segs[i][1])
  PROVE  /\ Filled(t, FlattenSeq(segs)) /\ Starts(FlattenSeq(segs))
         /\ (\A i \in 1..n : Stops(segs[i])) => Stops(FlattenSeq(segs))
<1> DEFINE stops == \A i \in 1..n : Stops(segs[i])
           Fine(z) == Filled(t, z) /\ Starts(z) /\ (stops => Stops(z))
<1> SUFFICES Fine(FlattenSeq(segs))
  OBVIOUS
<1>1. segs \in Seq(Seq(Copyable)) /\ Len(segs) = n
  <2>1. \A i \in 1..n : segs[i] \in Seq(Copyable)
    BY DEF Filled
  <2>2. segs \in [1..n -> Seq(Copyable)]
    BY <2>1
  <2>3. QED
    BY <2>2
<1>2. CASE n = 0
  <2>1. FlattenSeq(segs) = segs /\ segs = <<>>
    BY <1>1, <1>2 DEF FlattenSeq
  <2>2. <<>> \in Seq(Copyable) /\ Opens(<<>>) = {}
    BY DEF Opens, Positions
  <2>3. QED
    BY <2>1, <2>2, NoneFilled DEF Starts, Stops
<1>3. CASE n # 0
  <2>1. PICK flat :
          /\ flat = [i \in 1..n |-> IF i = 1 THEN segs[i] ELSE flat[i - 1] \o segs[i]]
          /\ FlattenSeq(segs) = flat[n]
    BY <1>1, <1>3, Flattened
  <2> DEFINE S == {m \in Nat : m + 1 <= n => Fine(flat[m + 1])}
  <2>2. \A i \in 1..n : Fine(segs[i])
    BY DEF Starts
  <2>3. 0 \in S
    <3>1. flat[1] = segs[1] /\ 1 \in 1..n
      BY <1>3, <2>1
    <3> HIDE DEF Fine
    <3>2. QED
      BY <2>2, <3>1
  <2>4. ASSUME NEW m \in Nat, m \in S PROVE m + 1 \in S
    <3> SUFFICES ASSUME (m + 1) + 1 <= n PROVE Fine(flat[(m + 1) + 1])
      OBVIOUS
    <3> DEFINE j == (m + 1) + 1
               x == flat[m + 1]
    <3>1. j \in 1..n /\ j # 1 /\ j - 1 = m + 1
      OBVIOUS
    <3>2. flat[j] = x \o segs[j]
      BY <2>1, <3>1
    <3>3. Fine(x)
      BY <2>4, <3>1
    <3>4. Fine(segs[j]) /\ segs[j] # <<>> /\ Ends(segs[j][1])
      BY <2>2, <3>1
    <3> HIDE DEF j, x
    <3>5. x \in Seq(Copyable) /\ segs[j] \in Seq(Copyable)
      BY <3>3, <3>4 DEF Filled
    <3>6. Filled(t, x \o segs[j])
      BY <3>3, <3>4, <3>5, ShutByStart, FilledJoined
    <3>7. Starts(x \o segs[j])
      BY <3>3, <3>4, <3>5, StartsJoined
    <3>8. stops => Stops(x \o segs[j])
      BY <3>3, <3>4, <3>5, StopsJoined
    <3>9. Fine(flat[j])
      BY <3>2, <3>6, <3>7, <3>8
    <3>10. QED
      BY <3>9 DEF j
  <2>5. n - 1 \in Nat /\ (n - 1) + 1 = n
    BY <1>3
  <2>6. n - 1 \in S
    <3> HIDE DEF S
    <3>1. QED BY <2>3, <2>4, <2>5, InductionBySet
  <2>7. Fine(flat[(n - 1) + 1])
    <3> HIDE DEF Fine
    <3>1. (n - 1) + 1 <= n
      BY <2>5
    <3>2. QED
      BY <2>6, <3>1
  <2> HIDE DEF Fine
  <2>8. QED
    BY <2>1, <2>5, <2>7
<1>4. QED
  BY <1>2, <1>3

\* What is copied of the tracks of a kind of which there may be many.
LEMMA ManyFilled ==
  ASSUME NEW t, WellFormedLines(t), NEW kind, NEW copied, copied \cap EndAtts = {},
         \A k, x : CopiesFor(t, kind, k, x) = Own(t, k, copied)
  PROVE  LET z == FlattenSeq([i \in DOMAIN Tracks(t, kind) |->
                                TrackLines(t, Tracks(t, kind)[i], copied)])
         IN  Filled(t, z) /\ Starts(z)
<1> DEFINE r == Tracks(t, kind)
           segs == [i \in DOMAIN r |-> TrackLines(t, r[i], copied)]
<1>1. PICK n \in Nat : DOMAIN r = 1..n
  BY TracksAre
<1>2. ASSUME NEW i \in DOMAIN r
      PROVE  Filled(t, segs[i]) /\ segs[i] # <<>> /\ Ends(segs[i][1])
  <2> DEFINE P == Own(t, r[i], copied)
  <2>1. P \subseteq DOMAIN t /\ \A q \in P : ~Ends(t[q])
    BY DEF Own, Ends, EndAtts
  <2>2. P = CopiesFor(t, kind, r[i], i)
    OBVIOUS
  <2>3. segs[i] = FirstLine(t, r[i]) \o LinesAt(t, P)
    BY DEF TrackLines
  <2> HIDE DEF P, segs
  <2>4. QED
    BY <2>1, <2>2, <2>3, TrackFilled
<1>3. segs = [i \in 1..n |-> segs[i]]
  BY <1>1
<1> HIDE DEF segs
<1>4. Filled(t, FlattenSeq(segs)) /\ Starts(FlattenSeq(segs))
  BY <1>1, <1>2, <1>3, KindFilled
<1>5. QED
  BY <1>4 DEF segs

LEMMA VoiceFilled ==
  ASSUME NEW t, WellFormedLines(t)
  PROVE  Filled(t, VoiceLines(t)) /\ Starts(VoiceLines(t))
<1>1. VoiceCopied \cap EndAtts = {}
  BY DEF VoiceCopied, EndAtts, EventAtts, IndexAtts
<1>2. \A k, x : CopiesFor(t, "voice", k, x) = Own(t, k, VoiceCopied)
  BY DEF CopiesFor
<1>3. QED
  BY <1>1, <1>2, ManyFilled DEF VoiceLines

LEMMA M1553Filled ==
  ASSUME NEW t, WellFormedLines(t)
  PROVE  Filled(t, M1553Lines(t)) /\ Starts(M1553Lines(t))
<1> DEFINE copied == M1553Recorder \cup M1553Vendor
<1>1. copied \cap EndAtts = {}
  BY DEF M1553Recorder, M1553Vendor, EndAtts, EventAtts, IndexAtts
<1>2. \A k, x : CopiesFor(t, "m1553", k, x) = Own(t, k, copied)
  BY DEF CopiesFor
<1>3. M1553Lines(t) = FlattenSeq([i \in DOMAIN Tracks(t, "m1553") |->
                                    TrackLines(t, Tracks(t, "m1553")[i], copied)])
  BY DEF M1553Lines
<1> HIDE DEF copied
<1>4. QED
  BY <1>1, <1>2, <1>3, ManyFilled

LEMMA VideoFilled ==
  ASSUME NEW t, WellFormedLines(t)
  PROVE  Filled(t, VideoLines(t)) /\ Starts(VideoLines(t))
<1> DEFINE r == Tracks(t, "video")
           copied == VideoRecorder \cup VideoOverlay \cup VideoVendor
           P(i) == Own(t, r[i], copied) \cup Own(t, i, VideoPlaced)
           segs == [i \in DOMAIN r |-> FirstLine(t, r[i]) \o LinesAt(t, P(i))]
<1>1. PICK n \in Nat : DOMAIN r = 1..n
  BY TracksAre
<1>2. ASSUME NEW i \in DOMAIN r
      PROVE  Filled(t, segs[i]) /\ segs[i] # <<>> /\ Ends(segs[i][1])
  <2>1. copied \cap EndAtts = {} /\ VideoPlaced \cap EndAtts = {}
    BY DEF VideoRecorder, VideoOverlay, VideoVendor, VideoPlaced, EndAtts, EventAtts, IndexAtts
  <2>2. P(i) = CopiesFor(t, "video", r[i], i)
    BY DEF CopiesFor
  <2> HIDE DEF copied
  <2>3. P(i) \subseteq DOMAIN t /\ \A q \in P(i) : ~Ends(t[q])
    BY <2>1 DEF Own, Ends, EndAtts
  <2>4. segs[i] = FirstLine(t, r[i]) \o LinesAt(t, P(i))
    OBVIOUS
  <2> HIDE DEF P, segs
  <2>5. QED
    BY <2>2, <2>3, <2>4, TrackFilled
<1>3. segs = [i \in 1..n |-> segs[i]]
  BY <1>1
<1>4. VideoLines(t) = FlattenSeq(segs)
  BY DEF VideoLines
<1> HIDE DEF segs
<1>5. \A i \in 1..n : Filled(t, segs[i]) /\ segs[i] # <<>> /\ Ends(segs[i][1])
  BY <1>1, <1>2
<1> HIDE DEF r
<1>6. Filled(t, FlattenSeq(segs)) /\ Starts(FlattenSeq(segs))
  BY <1>3, <1>5, KindFilled
<1>7. QED
  BY <1>4, <1>6

LEMMA SeparatorFilled ==
  ASSUME NEW t
  PROVE  Separator \in Seq(Copyable) /\ Filled(t, Separator) /\ Starts(Separator) /\ Stops(Separator)
         /\ Separator # <<>>
<1>1. /\ Separator \in Seq(Copyable) /\ DOMAIN Separator = {1} /\ Separator[1].att = "COM"
      /\ Len(Separator) = 1 /\ Separator # <<>>
  BY DEF Separator, Copyable
<1>2. Opens(Separator) = {}
  BY <1>1 DEF Opens, Positions
<1>3. QED
  BY <1>1, <1>2, NoneFilled DEF Starts, Stops, Ends

LEMMA PcmFilled ==
  ASSUME NEW t, WellFormedLines(t)
  PROVE  Filled(t, PcmLines(t)) /\ Starts(PcmLines(t)) /\ Stops(PcmLines(t))
<1> DEFINE r == Tracks(t, "pcm")
           copied == PcmRecorder \cup PcmVendor
           P(i) == Own(t, r[i], copied) \cup LinkLines(t, i)
           segs == [i \in DOMAIN r |-> FirstLine(t, r[i]) \o LinesAt(t, P(i)) \o Separator]
<1>1. PICK n \in Nat : DOMAIN r = 1..n
  BY TracksAre
<1>2. ASSUME NEW i \in DOMAIN r
      PROVE  Filled(t, segs[i]) /\ segs[i] # <<>> /\ Ends(segs[i][1]) /\ Stops(segs[i])
  <2>1. copied \cap EndAtts = {} /\ LinkAtts \cap EndAtts = {}
    BY DEF PcmRecorder, PcmVendor, LinkAtts, EndAtts, EventAtts, IndexAtts
  <2>2. P(i) = CopiesFor(t, "pcm", r[i], i)
    BY DEF CopiesFor
  <2> HIDE DEF copied
  <2>3. \A q \in LinkLines(t, i) : q \in DOMAIN t /\ t[q].att \in LinkAtts
    BY DEF LinkLines
  <2>4. P(i) \subseteq DOMAIN t /\ \A q \in P(i) : ~Ends(t[q])
    BY <2>1, <2>3 DEF Own, Ends, EndAtts
  <2> DEFINE x == FirstLine(t, r[i]) \o LinesAt(t, P(i))
  <2>5. segs[i] = x \o Separator
    OBVIOUS
  <2> HIDE DEF P, segs
  <2>6. Filled(t, x) /\ x # <<>> /\ Ends(x[1])
    BY <2>2, <2>4, TrackFilled
  <2> HIDE DEF x
  <2>7. x \in Seq(Copyable) /\ Separator \in Seq(Copyable) /\ Filled(t, Separator)
        /\ Starts(Separator) /\ Stops(Separator) /\ Separator # <<>>
    BY <2>6, SeparatorFilled DEF Filled
  <2>8. Filled(t, x \o Separator)
    BY <2>6, <2>7, ShutByStart, FilledJoined
  <2>9. Stops(x \o Separator)
    BY <2>7, StopsJoined
  <2>10. x \o Separator # <<>> /\ Ends((x \o Separator)[1])
    <3>1. 1 \in 1..Len(x) /\ Len(x) \in Nat
      BY <2>6, <2>7
    <3>2. (x \o Separator)[1] = x[1] /\ 1 \in DOMAIN (x \o Separator)
      BY <2>7, <3>1, Joined
    <3>3. QED
      BY <2>6, <3>2
  <2>11. QED
    BY <2>5, <2>8, <2>9, <2>10
<1>3. segs = [i \in 1..n |-> segs[i]]
  BY <1>1
<1>4. PcmLines(t) = FlattenSeq(segs)
  BY DEF PcmLines
<1> HIDE DEF segs
<1>5. \A i \in 1..n : Filled(t, segs[i]) /\ segs[i] # <<>> /\ Ends(segs[i][1])
  BY <1>1, <1>2
<1>6. \A i \in 1..n : Stops(segs[i])
  BY <1>1, <1>2
<1> HIDE DEF r
<1>7. Filled(t, FlattenSeq(segs)) /\ Starts(FlattenSeq(segs)) /\ Stops(FlattenSeq(segs))
  BY <1>3, <1>5, <1>6, KindFilled
<1>8. QED
  BY <1>4, <1>7

\* The one track of a kind, or what is copied without one.
LEMMA SingleFilled ==
  ASSUME NEW t, WellFormedLines(t), \A i \in DOMAIN t : t[i].n # NoTrack,
         NEW kind \in {"time", "eth"}, NEW numbered, NEW plain, (numbered \cup plain) \cap EndAtts = {},
         \A k, x : CopiesFor(t, kind, k, x) = Own(t, k, numbered) \cup Anywhere(t, plain),
         NEW n, n = LastTrack(Tracks(t, kind), NoTrack),
         NEW z, z = FirstLine(t, n) \o LinesAt(t, Own(t, n, numbered) \cup Anywhere(t, plain))
  PROVE  Filled(t, z) /\ (Starts(z) \/ \A q \in DOMAIN z : z[q].att \in plain)
<1> DEFINE r == Tracks(t, kind)
           P == Own(t, n, numbered) \cup Anywhere(t, plain)
<1>1. t \in Seq(Copyable)
  BY WellFormedIsText
<1>2. PICK m \in Nat : DOMAIN r = 1..m /\ r = [i \in 1..m |-> r[i]]
  BY TracksAre
<1>3. P \subseteq DOMAIN t /\ \A q \in P : ~Ends(t[q])
  BY DEF Own, Anywhere, Ends, EndAtts
<1>4. CASE m = 0
  <2>1. r = <<>>
    BY <1>2, <1>4
  <2>2. n = NoTrack
    BY <2>1 DEF LastTrack
  <2> DEFINE w == LinesAt(t, P)
  <2>3. P = Anywhere(t, plain)
    BY <2>2 DEF Own
  <2>4. w \in Seq(Copyable) /\ \A a \in DOMAIN w : \E q \in P : w[a] = t[q]
    <3> HIDE DEF P
    <3>1. w \in Seq(Copyable)
      BY <1>1, LinesAreAtP
    <3>2. \A a \in DOMAIN w : \E q \in P : w[a] = t[q]
      BY <1>1, LinesAreAtP
    <3>3. QED
      BY <3>1, <3>2
  <2>5. z = w
    <3>1. z = FirstLine(t, n) \o w
      OBVIOUS
    <3>2. FirstLine(t, n) = <<>>
      BY <2>2, NoneFirst
    <3> HIDE DEF w
    <3>3. QED
      BY <2>4, <3>1, <3>2
  <2> HIDE DEF w, P
  <2>6. \A q \in DOMAIN w : w[q].att \in plain /\ w[q].att # "TK1"
    BY <1>3, <2>3, <2>4 DEF Anywhere, Ends
  <2>7. Opens(w) = {}
    BY <2>6 DEF Opens, Positions
  <2>8. Filled(t, w)
    BY <2>4, <2>7, NoneFilled
  <2>9. QED
    BY <2>5, <2>6, <2>8
<1>5. CASE m # 0
  <2>1. m \in 1..m
    BY <1>5
  <2>2. n = r[m] /\ m \in DOMAIN r
    <3>1. Len(r) = m /\ r # <<>>
      <4>1. \A x : [i \in 1..m |-> r[i]] = x => Len(x) = m
        OBVIOUS
      <4> HIDE DEF r
      <4>2. Len(r) = m
        BY <1>2
      <4>3. r # <<>>
        BY <1>2, <2>1
      <4>4. QED
        BY <4>2, <4>3
    <3>2. QED
      BY <1>2, <2>1, <3>1 DEF LastTrack
  <2>3. P = CopiesFor(t, kind, n, m)
    OBVIOUS
  <2> HIDE DEF P
  <2>4. LET y == FirstLine(t, n) \o LinesAt(t, P) IN Filled(t, y) /\ y # <<>> /\ Ends(y[1])
    BY <1>3, <2>2, <2>3, TrackFilled
  <2>5. QED
    BY <2>4 DEF P, Starts
<1>6. QED
  BY <1>4, <1>5

LEMMA AnywhereFilled ==
  ASSUME NEW t, WellFormedLines(t), NEW copied, "TK1" \notin copied
  PROVE  LET w == LinesAt(t, Anywhere(t, copied)) IN Filled(t, w) /\ Opens(w) = {}
<1> DEFINE w == LinesAt(t, Anywhere(t, copied))
<1>1. t \in Seq(Copyable)
  BY WellFormedIsText
<1>2. w \in Seq(Copyable)
  BY <1>1, LinesAreAtP
<1>3. \A a \in DOMAIN w : \E q \in Anywhere(t, copied) : q \in DOMAIN t /\ w[a] = t[q]
  BY <1>1, LinesAreAtP
<1> HIDE DEF w
<1>4. Opens(w) = {}
  BY <1>3 DEF Opens, Positions, Anywhere
<1>5. Filled(t, w)
  BY <1>2, <1>4, NoneFilled
<1>6. QED
  BY <1>4, <1>5 DEF w

\* The sorted text has for every track what is copied for it.
LEMMA SortedFilled ==
  ASSUME NEW text, WellFormed(text), \A i \in DOMAIN Visible(text) : Visible(text)[i].n # NoTrack
  PROVE  Filled(Visible(text), Sorted(text))
<1> DEFINE t == Visible(text)
<1>1. WellFormedLines(t)
  BY DEF WellFormed
<1>2. Filled(t, GeneralLines(t)) /\ Opens(GeneralLines(t)) = {}
  <2>1. "TK1" \notin GeneralCopied \union ConversionAtts
    BY DEF GeneralCopied, ConversionAtts
  <2>2. QED
    BY <1>1, <2>1, AnywhereFilled DEF GeneralLines
<1>3. Filled(t, RestLines(t))
  <2>1. "TK1" \notin EventAtts \union IndexAtts \union VideoPlaced
    BY DEF EventAtts, IndexAtts, VideoPlaced
  <2>2. QED
    BY <1>1, <2>1, AnywhereFilled DEF RestLines
<1>4. Filled(t, TimeLines(t))
  <2>1. (TimeNumbered \cup TimePlain) \cap EndAtts = {}
    BY DEF TimeNumbered, TimePlain, EndAtts, EventAtts, IndexAtts
  <2>2. \A k, x : CopiesFor(t, "time", k, x) = Own(t, k, TimeNumbered) \cup Anywhere(t, TimePlain)
    BY DEF CopiesFor
  <2>3. QED
    BY <1>1, <2>1, <2>2, SingleFilled DEF TimeLines
<1>5. /\ Filled(t, EthernetLines(t))
      /\ Starts(EthernetLines(t)) \/ \A q \in DOMAIN EthernetLines(t) : EthernetLines(t)[q].att \in EthernetPlain
  <2>1. (EthernetNumbered \cup EthernetPlain) \cap EndAtts = {}
    BY DEF EthernetNumbered, EthernetPlain, EndAtts, EventAtts, IndexAtts
  <2>2. \A k, x : CopiesFor(t, "eth", k, x) = Own(t, k, EthernetNumbered) \cup Anywhere(t, EthernetPlain)
    BY DEF CopiesFor
  <2> DEFINE n == LastTrack(Tracks(t, "eth"), NoTrack)
             z == FirstLine(t, n) \o LinesAt(t, Own(t, n, EthernetNumbered) \cup Anywhere(t, EthernetPlain))
  <2>3. EthernetLines(t) = z /\ n = LastTrack(Tracks(t, "eth"), NoTrack)
    BY DEF EthernetLines
  <2>4. \A i \in DOMAIN t : t[i].n # NoTrack
    OBVIOUS
  <2>5. z = FirstLine(t, n) \o LinesAt(t, Own(t, n, EthernetNumbered) \cup Anywhere(t, EthernetPlain))
    OBVIOUS
  <2> HIDE DEF n, z, t
  <2>6. QED
    BY <1>1, <2>1, <2>2, <2>3, <2>4, <2>5, SingleFilled
<1>6. /\ Filled(t, VoiceLines(t)) /\ Starts(VoiceLines(t))
      /\ Filled(t, M1553Lines(t)) /\ Starts(M1553Lines(t))
      /\ Filled(t, VideoLines(t)) /\ Starts(VideoLines(t))
      /\ Filled(t, PcmLines(t)) /\ Starts(PcmLines(t)) /\ Stops(PcmLines(t))
      /\ Filled(t, Separator) /\ Starts(Separator) /\ Stops(Separator) /\ Separator # <<>>
  BY <1>1, VoiceFilled, M1553Filled, VideoFilled, PcmFilled, SeparatorFilled
<1> DEFINE A1 == GeneralLines(t) \o TimeLines(t)
           A2 == A1 \o VoiceLines(t)
           A3 == A2 \o M1553Lines(t)
           A4 == A3 \o VideoLines(t)
           A5 == A4 \o EthernetLines(t)
           A6 == A5 \o Separator
           A7 == A6 \o PcmLines(t)
<1>7. Sorted(text) = A7 \o RestLines(t)
  BY DEF Sorted
<1> HIDE DEF t
<1>8. ASSUME NEW s, NEW u, Filled(t, s), Filled(t, u),
             Opens(s) = {} \/ Starts(u) \/ Stops(s) \/ \A q \in DOMAIN u : u[q].att \in EthernetPlain
      PROVE  Filled(t, s \o u)
  <2>1. s \in Seq(Copyable) /\ u \in Seq(Copyable)
    BY <1>8 DEF Filled
  <2>2. QED
    BY <1>8, <2>1, ShutByStart, FilledJoined
<1>9. Filled(t, A1)
  BY <1>2, <1>4, <1>8
<1> HIDE DEF A1
<1>10. Filled(t, A2)
  BY <1>6, <1>8, <1>9
<1> HIDE DEF A2
<1>11. Filled(t, A3)
  BY <1>6, <1>8, <1>10
<1> HIDE DEF A3
<1>12. Filled(t, A4)
  BY <1>6, <1>8, <1>11
<1> HIDE DEF A4
<1>13. Filled(t, A5)
  BY <1>5, <1>8, <1>12
<1> HIDE DEF A5
<1>14. Filled(t, A6) /\ Stops(A6)
  <2>1. A5 \in Seq(Copyable) /\ Separator \in Seq(Copyable)
    BY <1>6, <1>13 DEF Filled
  <2>2. QED
    BY <1>6, <1>8, <1>13, <2>1, StopsJoined
<1> HIDE DEF A6
<1>15. Filled(t, A7) /\ Stops(A7)
  <2>1. A6 \in Seq(Copyable) /\ PcmLines(t) \in Seq(Copyable)
    BY <1>6, <1>14 DEF Filled
  <2>2. QED
    BY <1>6, <1>8, <1>14, <2>1, StopsJoined
<1> HIDE DEF A7
<1>16. QED
  BY <1>3, <1>7, <1>8, <1>15 DEF t

-----------------------------------------------------------------------------
(* The channels counted.                                                   *)

Expected(text) == WellFormed(text) /\ Orderly(text)

\* The kind of the tracks with a use.
KindOfUse(use) == IF use = "dm" THEN "m1553" ELSE IF use = "uart" THEN "pcm" ELSE use

LEMMA OpenTracks ==
  ASSUME NEW text, WellFormed(text), NEW p \in Opens(Sorted(text))
  PROVE  LET t == Visible(text)
             k == Sorted(text)[p].n
         IN  /\ k \in TracksOf(text) /\ k \in Nat
             /\ TypeOf(text, k) = TrackType(t, k) /\ LookAhead(Sorted(text), p) = TypeOf(text, k)
             /\ KindOf(TypeOf(text, k)) = TrackKind(t, k)
             /\ TypeOf(text, k) \in ChannelTypes
             /\ TrackKind(t, k) \in CopiedKinds
             /\ Use(text, k) \in CopiedKinds \cup {"dm", "uart"}
             /\ KindOfUse(Use(text, k)) = TrackKind(t, k)
             /\ Place(t, k) \in DOMAIN Tracks(t, TrackKind(t, k))
             /\ Tracks(t, TrackKind(t, k))[Place(t, k)] = k
<1> DEFINE t == Visible(text)
           s == Sorted(text)
           k == s[p].n
<1>1. WellFormedLines(t) /\ Part(t, s, SomeNumbers(t, CopiedKinds))
  BY SortedPart DEF WellFormed
<1>2. PICK f \in DOMAIN t : s[p] = t[f] /\ t[f].att = "TK1"
  BY <1>1, OpensTrack
<1>3. /\ LookAhead(s, p) = TrackType(t, k) /\ TrackType(t, k) \in ChannelTypes
      /\ \E c \in DOMAIN t : t[c].att = "CDT" /\ t[c].n = k
  BY <1>1, LooksAhead
<1>4. k \in Nat
  <2>1. t[f] \in Lines
    BY <1>1, <1>2 DEF WellFormedLines
  <2>2. QED
    BY <1>2, <2>1 DEF Lines
<1>5. k \in TracksOf(text)
  <2>1. HasLine(text, "CDT", t[f].n)
    BY <1>2, <1>3 DEF HasLine, Line
  <2>2. f \in {j \in DOMAIN t : Line(text, j).att = "TK1" /\ HasLine(text, "CDT", Line(text, j).n)}
    BY <1>2, <2>1 DEF Line
  <2>3. k = Line(text, f).n
    BY <1>2 DEF Line
  <2> HIDE DEF k
  <2>4. QED
    BY <2>2, <2>3 DEF TracksOf
<1>6. TypeOf(text, k) = TrackType(t, k)
  BY DEF TypeOf, TrackType, Line
<1>7. KindOf(TypeOf(text, k)) = TrackKind(t, k)
  BY <1>6 DEF TrackKind
<1>8. TrackKind(t, k) \in CopiedKinds
  BY <1>3, <1>6, <1>7, KindOfTypes
<1>9. Use(text, k) \in CopiedKinds \cup {"dm", "uart"} /\ KindOfUse(Use(text, k)) = TrackKind(t, k)
  <2>1. BlockUse(Block(s, p), TrackType(t, k)) = Use(text, k)
    BY <1>3, UseIs
  <2> DEFINE type == TrackType(t, k)
             b == Block(s, p)
             kind == KindOf(type)
  <2>2. kind \in CopiedKinds /\ kind = TrackKind(t, k)
    BY <1>6, <1>7, <1>8
  <2>3. BlockUse(b, type) =
         IF kind = "m1553" THEN IF Has(b, "DTF") \/ Has(b, "DMSK") THEN "dm" ELSE "m1553"
         ELSE IF kind = "pcm"
              THEN IF type = "UARTIN" /\ HasValue(b, "CUCE", "T") THEN "uart" ELSE "pcm"
         ELSE kind
    BY DEF BlockUse
  <2> HIDE DEF type, b, kind
  <2>4. BlockUse(b, type) \in CopiedKinds \cup {"dm", "uart"} /\ KindOfUse(BlockUse(b, type)) = kind
    BY <2>2, <2>3 DEF KindOfUse, CopiedKinds
  <2>5. QED
    BY <2>1, <2>2, <2>4 DEF type, b
<1>10. /\ Place(t, k) \in DOMAIN Tracks(t, TrackKind(t, k))
       /\ Tracks(t, TrackKind(t, k))[Place(t, k)] = k
  <2>1. PICK c \in DOMAIN t : t[c].att = "CDT" /\ t[c].n = k
    BY <1>3
  <2>2. TrackKind(t, k) = KindOf(t[c].v)
    BY <1>1, <2>1, TypeIs
  <2>3. c \in CdtsOf(t, TrackKind(t, k))
    BY <2>1, <2>2 DEF CdtsOf
  <2> HIDE DEF k, t
  <2>4. \E i \in DOMAIN Tracks(t, TrackKind(t, k)) : Tracks(t, TrackKind(t, k))[i] = k
    BY <1>1, <2>1, <2>3, TracksAre
  <2>5. QED
    BY <2>4 DEF Place
<1>11. QED
  BY <1>3, <1>4, <1>5, <1>6, <1>7, <1>8, <1>9, <1>10

\* The tracks of a kind stand by their numbers.
LEMMA TracksRise ==
  ASSUME NEW t, WellFormedLines(t), NEW kind, \A i, j \in CdtsOf(t, kind) : i < j => t[i].n < t[j].n,
         NEW i \in DOMAIN Tracks(t, kind), NEW j \in DOMAIN Tracks(t, kind), i < j
  PROVE  Tracks(t, kind)[i] < Tracks(t, kind)[j]
<1> DEFINE cdts == LinesAt(t, CdtsOf(t, kind))
           Q == CdtsOf(t, kind) \cap DOMAIN t
<1>1. t \in Seq(Copyable)
  BY WellFormedIsText
<1>2. cdts \in Seq(Copyable) /\ \E g : Picks(t, Q, cdts, g)
  BY <1>1, LinesAtPicks
<1>3. DOMAIN Tracks(t, kind) = DOMAIN cdts /\ \A a \in DOMAIN cdts : Tracks(t, kind)[a] = cdts[a].n
  BY DEF Tracks
<1> HIDE DEF cdts
<1>4. PICK g : Picks(t, Q, cdts, g)
  BY <1>2
<1>5. DOMAIN cdts = 1..Len(cdts)
  BY <1>2
<1>6. g[i] \in Q /\ g[j] \in Q /\ g[i] < g[j] /\ cdts[i] = t[g[i]] /\ cdts[j] = t[g[j]]
  BY <1>3, <1>4, <1>5 DEF Picks
<1>7. QED
  BY <1>3, <1>6

LEMMA OpensRise ==
  ASSUME NEW text, Expected(text), NEW p \in Opens(Sorted(text)), NEW r \in Opens(Sorted(text)), p < r,
         TrackKind(Visible(text), Sorted(text)[p].n) = TrackKind(Visible(text), Sorted(text)[r].n)
  PROVE  Sorted(text)[p].n < Sorted(text)[r].n
<1> DEFINE t == Visible(text)
           s == Sorted(text)
           kind == TrackKind(t, s[p].n)
<1>1. WellFormed(text) /\ Orderly(text)
  BY DEF Expected
<1>2. WellFormedLines(t) /\ Part(t, s, SomeNumbers(t, CopiedKinds))
  BY <1>1, SortedPart DEF WellFormed
<1>3. Place(t, s[p].n) < Place(t, s[r].n)
  BY <1>2 DEF Part, InOrder, Before
<1>4. /\ kind \in CopiedKinds
      /\ Place(t, s[p].n) \in DOMAIN Tracks(t, kind) /\ Tracks(t, kind)[Place(t, s[p].n)] = s[p].n
      /\ Place(t, s[r].n) \in DOMAIN Tracks(t, kind) /\ Tracks(t, kind)[Place(t, s[r].n)] = s[r].n
  BY <1>1, OpenTracks
<1>5. \A i, j \in CdtsOf(t, kind) : i < j => t[i].n < t[j].n
  <2>1. kind \in Kinds
    BY <1>4 DEF CopiedKinds, Kinds
  <2> HIDE DEF kind
  <2>2. QED
    BY <1>1, <2>1 DEF Orderly
<1> HIDE DEF kind, t, s
<1>6. s[p].n < s[r].n
  BY <1>2, <1>3, <1>4, <1>5, TracksRise
<1>7. QED
  BY <1>6 DEF s

\* The tracks with a use among the first m lines of the sorted text.
Passed(text, m, use) ==
  {Sorted(text)[r].n : r \in {q \in Opens(Sorted(text)) : q <= m /\ Use(text, Sorted(text)[q].n) = use}}

\* A channel has the place of its track among those with its use.
LEMMA SlotIs ==
  ASSUME NEW text, Expected(text), NEW p \in Opens(Sorted(text)),
         NEW k, k = Sorted(text)[p].n, NEW use, use = Use(text, k)
  PROVE  SlotOf(text, k) = <<use, Cardinality(Passed(text, p - 1, use))>>
<1> DEFINE s == Sorted(text)
           T == {m \in TracksOf(text) : m < k /\ Use(text, m) = use}
<1>1. WellFormed(text)
  BY DEF Expected
<1>2. \A r \in Opens(s) : r \in Nat /\ s[r].n \in Nat /\ s[r].n \in TracksOf(text)
  BY <1>1, OpenTracks, OpensAreNumbers
<1>3. ASSUME NEW r \in Opens(s), Use(text, s[r].n) = use
      PROVE  TrackKind(Visible(text), s[r].n) = TrackKind(Visible(text), k)
  <2>1. KindOfUse(Use(text, s[r].n)) = TrackKind(Visible(text), s[r].n)
    BY <1>1, OpenTracks
  <2>2. KindOfUse(Use(text, k)) = TrackKind(Visible(text), k)
    BY <1>1, OpenTracks
  <2>3. QED
    BY <1>3, <2>1, <2>2
<1>4. ASSUME NEW m \in T PROVE m \in Passed(text, p - 1, use)
  <2>1. m \in TracksOf(text) /\ m < k /\ Use(text, m) = use
    OBVIOUS
  <2>2. PICK r \in Opens(s) : s[r].n = m
    BY <1>1, <2>1, TracksFound
  <2>3. ~(p < r)
    <3>1. p < r => k < m
      BY <1>3, <2>1, <2>2, OpensRise
    <3>2. QED
      BY <1>2, <2>1, <2>2, <3>1
  <2>4. r # p
    BY <1>2, <2>1, <2>2
  <2>5. r <= p - 1
    BY <1>2, <2>3, <2>4
  <2>6. QED
    BY <2>1, <2>2, <2>5 DEF Passed
<1>5. ASSUME NEW m \in Passed(text, p - 1, use) PROVE m \in T
  <2>1. PICK r \in Opens(s) : r <= p - 1 /\ Use(text, s[r].n) = use /\ m = s[r].n
    BY DEF Passed
  <2>2. r < p
    BY <1>2, <2>1
  <2>3. m < k
    BY <1>3, <2>1, <2>2, OpensRise
  <2>4. QED
    BY <1>2, <2>1, <2>3
<1>6. T = Passed(text, p - 1, use)
  BY <1>4, <1>5
<1>7. SlotOf(text, k) = <<use, Cardinality(T)>>
  BY DEF SlotOf
<1>8. QED
  BY <1>6, <1>7

LEMMA OpensApart ==
  ASSUME NEW text, WellFormed(text), NEW p \in Opens(Sorted(text)), NEW r \in Opens(Sorted(text)),
         Sorted(text)[p].n = Sorted(text)[r].n
  PROVE  p = r
<1> DEFINE t == Visible(text)
           s == Sorted(text)
           k == s[p].n
<1>1. Part(t, s, SomeNumbers(t, CopiedKinds))
  BY SortedPart
<1>2. p \in Nat /\ r \in Nat
  BY OpensAreNumbers
<1>3. Place(t, k) \in DOMAIN Tracks(t, TrackKind(t, k))
  BY OpenTracks, TracksAre
<1>4. PICK m \in Nat : DOMAIN Tracks(t, TrackKind(t, k)) = 1..m
  BY TracksAre DEF WellFormed
<1>5. Place(t, k) \in Nat
  BY <1>3, <1>4
<1>6. ASSUME NEW a \in Opens(s), NEW b \in Opens(s), a < b, s[a].n = k, s[b].n = k PROVE FALSE
  <2>1. Place(t, k) < Place(t, k)
    BY <1>1, <1>6 DEF Part, InOrder, Before
  <2>2. QED
    BY <1>5, <2>1
<1>7. QED
  BY <1>2, <1>6

LEMMA PassedOn ==
  ASSUME NEW text, WellFormed(text), NEW m \in Nat, NEW use
  PROVE  LET k == Sorted(text)[m + 1].n
         IN  IF m + 1 \in Opens(Sorted(text)) /\ Use(text, k) = use
             THEN Passed(text, m + 1, use) = Passed(text, m, use) \cup {k} /\ k \notin Passed(text, m, use)
             ELSE Passed(text, m + 1, use) = Passed(text, m, use)
<1> DEFINE s == Sorted(text)
           k == s[m + 1].n
<1>1. \A r \in Opens(s) : r \in Nat
  BY OpensAreNumbers
<1>2. \A r \in Opens(s) : r <= m + 1 <=> (r <= m \/ r = m + 1)
  BY <1>1
<1>3. CASE m + 1 \in Opens(s) /\ Use(text, k) = use
  <2>1. Passed(text, m + 1, use) = Passed(text, m, use) \cup {k}
    BY <1>2, <1>3 DEF Passed
  <2>2. ASSUME k \in Passed(text, m, use) PROVE FALSE
    <3>1. PICK r \in Opens(s) : r <= m /\ s[r].n = k
      BY <2>2 DEF Passed
    <3>2. r = m + 1
      BY <1>3, <3>1, OpensApart
    <3>3. QED
      BY <3>1, <3>2
  <2>3. QED
    BY <1>3, <2>1, <2>2
<1>4. CASE ~(m + 1 \in Opens(s) /\ Use(text, k) = use)
  <2>1. Passed(text, m + 1, use) = Passed(text, m, use)
    BY <1>2, <1>4 DEF Passed
  <2>2. QED
    BY <1>4, <2>1
<1>5. QED
  BY <1>3, <1>4

LEMMA NonePassed ==
  ASSUME NEW text, WellFormed(text), NEW use
  PROVE  Passed(text, 0, use) = {}
<1>1. \A r \in Opens(Sorted(text)) : r \in Nat /\ ~(r <= 0)
  BY OpensAreNumbers
<1>2. QED
  BY <1>1 DEF Passed

LEMMA PassedFinite ==
  ASSUME NEW text, WellFormed(text), NEW m \in Nat, NEW use
  PROVE  IsFiniteSet(Passed(text, m, use)) /\ Cardinality(Passed(text, m, use)) \in Nat
<1> DEFINE S == {i \in Nat : IsFiniteSet(Passed(text, i, use))}
<1>1. 0 \in S
  BY NonePassed, FS_EmptySet
<1>2. ASSUME NEW i \in Nat, i \in S PROVE i + 1 \in S
  <2>1. IsFiniteSet(Passed(text, i, use))
    BY <1>2
  <2>2. \/ Passed(text, i + 1, use) = Passed(text, i, use)
        \/ \E k : Passed(text, i + 1, use) = Passed(text, i, use) \cup {k}
    BY PassedOn
  <2>3. IsFiniteSet(Passed(text, i + 1, use))
    BY <2>1, <2>2, FS_AddElement
  <2>4. QED
    BY <2>3
<1>3. m \in S
  <2> HIDE DEF S
  <2>1. QED BY <1>1, <1>2, InductionBySet
<1>4. QED
  BY <1>3, FS_CardinalityType

\* When m lines are parsed, the channels of a kind are the tracks passed with that use.
CountsAre(text, m, n) ==
  n \in [Kinds -> Nat] /\ \A use \in Kinds : n[use] = Cardinality(Passed(text, m, use))

LEMMA CountsOn ==
  ASSUME NEW text, WellFormed(text), NEW m \in Nat, m + 1 \in Opens(Sorted(text)),
         NEW n, CountsAre(text, m, n), NEW use \in Kinds, use = Use(text, Sorted(text)[m + 1].n)
  PROVE  CountsAre(text, m + 1, OneMore(n, use))
<1>1. /\ n \in [Kinds -> Nat] /\ \A kind \in Kinds : n[kind] = Cardinality(Passed(text, m, kind))
  BY DEF CountsAre
<1>2. /\ OneMore(n, use) \in [Kinds -> Nat]
      /\ \A kind \in Kinds : OneMore(n, use)[kind] = IF kind = use THEN n[kind] + 1 ELSE n[kind]
  BY <1>1, CountsAndNames
<1>3. ASSUME NEW kind \in Kinds
      PROVE  OneMore(n, use)[kind] = Cardinality(Passed(text, m + 1, kind))
  <2>1. CASE kind = use
    <3> DEFINE k == Sorted(text)[m + 1].n
    <3>1. Passed(text, m + 1, use) = Passed(text, m, use) \cup {k} /\ k \notin Passed(text, m, use)
      BY PassedOn
    <3>2. IsFiniteSet(Passed(text, m, use))
      BY PassedFinite
    <3> HIDE DEF k
    <3>3. Cardinality(Passed(text, m + 1, use)) = Cardinality(Passed(text, m, use)) + 1
      BY <3>1, <3>2, FS_AddElement
    <3>4. QED
      BY <1>1, <1>2, <2>1, <3>3
  <2>2. CASE kind # use
    <3>1. Passed(text, m + 1, kind) = Passed(text, m, kind)
      BY <2>2, PassedOn
    <3>2. QED
      BY <1>1, <1>2, <2>2, <3>1
  <2>3. QED
    BY <2>1, <2>2
<1>4. QED
  BY <1>2, <1>3 DEF CountsAre

LEMMA CountsOver ==
  ASSUME NEW text, WellFormed(text), NEW m \in Nat, m + 1 \notin Opens(Sorted(text)),
         NEW n, CountsAre(text, m, n)
  PROVE  CountsAre(text, m + 1, n)
<1>1. \A use : Passed(text, m + 1, use) = Passed(text, m, use)
  BY PassedOn
<1>2. QED
  BY <1>1 DEF CountsAre

\* A track passed is counted.
LEMMA PassedMore ==
  ASSUME NEW text, WellFormed(text), NEW m \in Nat, NEW r \in Opens(Sorted(text)), r <= m,
         NEW use, use = Use(text, Sorted(text)[r].n)
  PROVE  Cardinality(Passed(text, r - 1, use)) < Cardinality(Passed(text, m, use))
<1> DEFINE A == Passed(text, r - 1, use)
           B == Passed(text, m, use)
           k == Sorted(text)[r].n
<1>1. r \in Nat /\ r - 1 \in Nat /\ (r - 1) + 1 = r /\ \A q \in Opens(Sorted(text)) : q \in Nat
  BY OpensAreNumbers
<1>2. k \notin A
  BY <1>1, PassedOn
<1>3. A \subseteq B
  <2>1. \A q \in Opens(Sorted(text)) : q <= r - 1 => q <= m
    BY <1>1
  <2>2. QED
    BY <2>1 DEF Passed
<1>4. k \in B
  BY DEF Passed
<1>5. IsFiniteSet(B) /\ Cardinality(A) \in Nat /\ Cardinality(B) \in Nat
  BY <1>1, PassedFinite
<1> HIDE DEF A, B, k
<1>6. Cardinality(A) <= Cardinality(B) /\ (Cardinality(B) = Cardinality(A) => B = A)
  BY <1>3, <1>5, FS_Subset
<1>7. Cardinality(A) # Cardinality(B)
  BY <1>2, <1>4, <1>6
<1>8. QED
  BY <1>5, <1>6, <1>7 DEF A, B

\* As many values as arguments.
Values(f, n) == {f[i] : i \in 1..n}
LEMMA Distinct ==
  ASSUME NEW f, NEW n \in Nat, \A i, j \in 1..n : f[i] = f[j] => i = j
  PROVE  IsFiniteSet(Values(f, n)) /\ Cardinality(Values(f, n)) = n
<1> DEFINE V(m) == Values(f, m)
           Fine(m) == IsFiniteSet(V(m)) /\ Cardinality(V(m)) = m
           S == {m \in Nat : m <= n => Fine(m)}
<1>1. 0 \in S
  <2>1. V(0) = {}
    <3>1. 1..0 = {}
      OBVIOUS
    <3>2. QED
      BY <3>1 DEF Values
  <2> HIDE DEF V
  <2>2. QED
    BY <2>1, FS_EmptySet
<1>2. ASSUME NEW m \in Nat, m \in S PROVE m + 1 \in S
  <2> SUFFICES ASSUME m + 1 <= n PROVE Fine(m + 1)
    OBVIOUS
  <2>1. V(m + 1) = V(m) \cup {f[m + 1]}
    <3>1. 1..(m + 1) = (1..m) \cup {m + 1}
      OBVIOUS
    <3>2. QED
      BY <3>1 DEF Values
  <2>2. f[m + 1] \notin V(m)
    <3> SUFFICES ASSUME NEW i \in 1..m, f[i] = f[m + 1] PROVE FALSE
      BY DEF Values
    <3>1. i \in 1..n /\ m + 1 \in 1..n /\ i # m + 1
      OBVIOUS
    <3>2. QED
      BY <3>1
  <2>3. Fine(m)
    BY <1>2
  <2> HIDE DEF V
  <2>4. IsFiniteSet(V(m)) /\ Cardinality(V(m)) = m
    BY <2>3
  <2>5. IsFiniteSet(V(m + 1)) /\ Cardinality(V(m + 1)) = Cardinality(V(m)) + 1
    <3> DEFINE A == V(m)
               x == f[m + 1]
    <3>1. V(m + 1) = A \cup {x} /\ x \notin A /\ IsFiniteSet(A)
      BY <2>1, <2>2, <2>4
    <3> HIDE DEF A, x
    <3>2. IsFiniteSet(A \cup {x}) /\ Cardinality(A \cup {x}) = Cardinality(A) + 1
      BY <3>1, FS_AddElement
    <3>3. QED
      BY <3>1, <3>2 DEF A
  <2>6. QED
    BY <2>4, <2>5
<1>3. n \in S
  <2> HIDE DEF S
  <2>1. QED BY <1>1, <1>2, InductionBySet
<1>4. QED
  BY <1>3

\* The tracks of a kind before the line p are those with a smaller place.
PassedKind(text, p, kind) ==
  {Sorted(text)[r].n : r \in {q \in Opens(Sorted(text)) :
     q < p /\ TrackKind(Visible(text), Sorted(text)[q].n) = kind}}

LEMMA KindPassed ==
  ASSUME NEW text, WellFormed(text), NEW p \in Opens(Sorted(text)),
         NEW k, k = Sorted(text)[p].n, NEW kind, kind = TrackKind(Visible(text), k)
  PROVE  LET x == Place(Visible(text), k)
         IN  /\ x \in Nat /\ x >= 1
             /\ PassedKind(text, p, kind) = {Tracks(Visible(text), kind)[j] : j \in 1..(x - 1)}
             /\ IsFiniteSet(PassedKind(text, p, kind))
             /\ Cardinality(PassedKind(text, p, kind)) = x - 1
<1> DEFINE t == Visible(text)
           s == Sorted(text)
           r == Tracks(t, kind)
           x == Place(t, k)
<1>1. WellFormedLines(t) /\ Part(t, s, SomeNumbers(t, CopiedKinds))
  BY SortedPart DEF WellFormed
<1>2. PICK n \in Nat : DOMAIN r = 1..n
  BY <1>1, TracksAre
<1>3. kind \in CopiedKinds /\ x \in DOMAIN r /\ r[x] = k
  BY OpenTracks
<1>4. x \in Nat /\ x >= 1 /\ x <= n
  BY <1>2, <1>3
<1>5. \A a \in Opens(s) : a \in Nat
  BY OpensAreNumbers
<1>6. \A a, b \in Opens(s) : a < b => Before(t, s[a].n, s[b].n)
  BY <1>1 DEF Part, InOrder
<1>7. ASSUME NEW m \in PassedKind(text, p, kind) PROVE \E j \in 1..(x - 1) : m = r[j]
  <2>1. PICK q \in Opens(s) : q < p /\ TrackKind(t, s[q].n) = kind /\ m = s[q].n
    BY DEF PassedKind
  <2>2. Place(t, m) < x
    BY <1>6, <2>1 DEF Before
  <2>3. Place(t, m) \in DOMAIN r /\ r[Place(t, m)] = m
    BY <2>1, OpenTracks
  <2>4. Place(t, m) \in 1..(x - 1)
    BY <1>2, <1>4, <2>2, <2>3
  <2>5. QED
    BY <2>3, <2>4
<1>8. ASSUME NEW j \in 1..(x - 1) PROVE r[j] \in PassedKind(text, p, kind)
  <2>1. j \in DOMAIN r /\ j < x /\ j \in Nat
    BY <1>2, <1>4
  <2>2. TrackKind(t, r[j]) = kind /\ Place(t, r[j]) = j
    BY <1>1, <2>1, TrackIs
  <2>3. r[j] \in SomeNumbers(t, CopiedKinds)
    <3>1. r[j] \in TrackNumbers(t, kind)
      BY <2>1 DEF TrackNumbers
    <3> HIDE DEF r
    <3>2. QED
      BY <1>3, <3>1 DEF SomeNumbers
  <2>4. PICK q \in Opens(s) : s[q].n = r[j]
    BY <1>1, <2>3 DEF Part, AllTracks
  <2>5. ~(p < q)
    <3>1. p < q => x < j
      BY <1>6, <2>2, <2>4 DEF Before
    <3>2. QED
      BY <1>4, <2>1, <3>1
  <2>6. q # p
    BY <1>4, <2>1, <2>2, <2>4
  <2>7. q < p
    BY <1>5, <2>5, <2>6
  <2> HIDE DEF r
  <2>8. QED
    BY <2>2, <2>4, <2>7 DEF PassedKind
<1>9. PassedKind(text, p, kind) = {r[j] : j \in 1..(x - 1)}
  BY <1>7, <1>8
<1>10. \A i, j \in 1..(x - 1) : r[i] = r[j] => i = j
  <2>1. \A i \in 1..(x - 1) : i \in DOMAIN r
    BY <1>2, <1>4
  <2>2. QED
    BY <1>1, <2>1, TracksAre
<1>11. PICK m \in Nat : m = x - 1
  BY <1>4
<1>12. IsFiniteSet({r[j] : j \in 1..(x - 1)}) /\ Cardinality({r[j] : j \in 1..(x - 1)}) = x - 1
  <2> HIDE DEF r, x
  <2>1. \A i, j \in 1..m : r[i] = r[j] => i = j
    BY <1>10, <1>11
  <2>2. IsFiniteSet(Values(r, m)) /\ Cardinality(Values(r, m)) = m
    BY <2>1, Distinct
  <2>3. QED
    BY <1>11, <2>2 DEF Values
<1> HIDE DEF r, x
<1>13. QED
  BY <1>4, <1>9, <1>12 DEF r, x

\* The index of a video channel.
LEMMA VideoIndex ==
  ASSUME NEW text, Expected(text), NEW p \in Opens(Sorted(text)), NEW k, k = Sorted(text)[p].n,
         Use(text, k) = "video"
  PROVE  SlotOf(text, k)[2] + 1 = Place(Visible(text), k)
<1>1. WellFormed(text)
  BY DEF Expected
<1>2. TrackKind(Visible(text), k) = "video"
  BY <1>1, OpenTracks DEF KindOfUse
<1>3. ASSUME NEW q \in Opens(Sorted(text))
      PROVE  q \in Nat /\ (Use(text, Sorted(text)[q].n) = "video"
                            <=> TrackKind(Visible(text), Sorted(text)[q].n) = "video")
  BY <1>1, OpenTracks, OpensAreNumbers DEF KindOfUse
<1>4. \A q \in Opens(Sorted(text)) : q <= p - 1 <=> q < p
  BY <1>3
<1>5. Passed(text, p - 1, "video") = PassedKind(text, p, "video")
  BY <1>3, <1>4 DEF Passed, PassedKind
<1>6. /\ Place(Visible(text), k) \in Nat
      /\ Cardinality(PassedKind(text, p, "video")) = Place(Visible(text), k) - 1
  BY <1>1, <1>2, KindPassed
<1>7. SlotOf(text, k)[2] = Cardinality(Passed(text, p - 1, "video"))
  BY SlotIs
<1>8. QED
  BY <1>5, <1>6, <1>7

\* The P-group of a PCM channel: one less than its place when the UART of the controller
\* comes first.
LEMMA PcmIndex ==
  ASSUME NEW text, Expected(text), NEW p \in Opens(Sorted(text)), NEW k, k = Sorted(text)[p].n,
         Use(text, k) = "pcm"
  PROVE  LET x == Place(Visible(text), k)
         IN  /\ x \in Nat
             /\ IF \E u \in TracksOf(text) : Use(text, u) = "uart"
                THEN x > 1 /\ SlotOf(text, k)[2] + 1 = x - 1
                ELSE SlotOf(text, k)[2] + 1 = x
<1> DEFINE s == Sorted(text)
           x == Place(Visible(text), k)
           A == PassedKind(text, p, "pcm")
<1>1. WellFormed(text) /\ Orderly(text)
  BY DEF Expected
<1>2. TrackKind(Visible(text), k) = "pcm"
  BY <1>1, OpenTracks DEF KindOfUse
<1>3. ASSUME NEW q \in Opens(s)
      PROVE  /\ q \in Nat /\ s[q].n \in TracksOf(text) /\ s[q].n \in Nat
             /\ Use(text, s[q].n) \in {"pcm", "uart"} <=> TrackKind(Visible(text), s[q].n) = "pcm"
             /\ KindOf(TypeOf(text, s[q].n)) = TrackKind(Visible(text), s[q].n)
  BY <1>1, OpenTracks, OpensAreNumbers DEF KindOfUse
<1>4. \A q \in Opens(s) : q <= p - 1 <=> q < p
  BY <1>3
<1>5. x \in Nat /\ x >= 1 /\ IsFiniteSet(A) /\ Cardinality(A) = x - 1
  BY <1>1, <1>2, KindPassed
<1>6. SlotOf(text, k)[2] = Cardinality(Passed(text, p - 1, "pcm"))
  BY SlotIs
<1>7. CASE ~\E u \in TracksOf(text) : Use(text, u) = "uart"
  <2>1. Passed(text, p - 1, "pcm") = A
    BY <1>3, <1>4, <1>7 DEF Passed, PassedKind
  <2>2. QED
    BY <1>5, <1>6, <1>7, <2>1
<1>8. CASE \E u \in TracksOf(text) : Use(text, u) = "uart"
  <2>1. PICK u \in TracksOf(text) : Use(text, u) = "uart"
    BY <1>8
  <2>2. PICK q \in Opens(s) : s[q].n = u
    BY <1>1, <2>1, TracksFound
  <2>3. TrackKind(Visible(text), u) = "pcm"
    BY <1>3, <2>1, <2>2
  <2>4. ASSUME NEW o \in Opens(s), TrackKind(Visible(text), s[o].n) = "pcm" PROVE u <= s[o].n
    <3>1. s[o].n \in TracksOf(text) /\ KindOf(TypeOf(text, s[o].n)) = "pcm"
      BY <1>3, <2>4
    <3>2. \A y, z \in TracksOf(text) :
            Use(text, y) = "uart" /\ KindOf(TypeOf(text, z)) = "pcm" => y <= z
      BY <1>1 DEF Orderly
    <3>3. QED
      BY <2>1, <3>1, <3>2
  <2>5. q < p
    <3>1. u <= k /\ u # k /\ u \in Nat /\ k \in Nat
      BY <1>2, <1>3, <2>1, <2>2, <2>4
    <3>2. p < q => k < u
      BY <1>2, <2>2, <2>3, OpensRise
    <3>3. p # q
      BY <2>2, <3>1
    <3>4. QED
      BY <1>3, <3>1, <3>2, <3>3
  <2>6. u \in A
    BY <2>2, <2>3, <2>5 DEF PassedKind
  <2>7. ASSUME NEW o \in Opens(s), Use(text, s[o].n) = "uart" PROVE s[o].n = u
    <3>1. TrackKind(Visible(text), s[o].n) = "pcm" /\ s[o].n \in TracksOf(text)
      BY <1>3, <2>7
    <3>2. u <= s[o].n
      BY <2>4, <3>1
    <3>3. s[o].n <= u
      <4>1. KindOf(TypeOf(text, u)) = "pcm"
        BY <1>3, <2>2, <2>3
      <4>2. \A y, z \in TracksOf(text) :
              Use(text, y) = "uart" /\ KindOf(TypeOf(text, z)) = "pcm" => y <= z
        BY <1>1 DEF Orderly
      <4>3. QED
        BY <2>7, <3>1, <4>1, <4>2
    <3>4. QED
      BY <1>3, <2>2, <3>2, <3>3
  <2>8. Passed(text, p - 1, "pcm") = A \ {u}
    <3>1. \A o \in Opens(s) : Use(text, s[o].n) = "pcm"
                                <=> TrackKind(Visible(text), s[o].n) = "pcm" /\ s[o].n # u
      BY <1>3, <2>1, <2>7
    <3>2. QED
      BY <1>4, <3>1 DEF Passed, PassedKind
  <2> HIDE DEF A, x, s
  <2>9. Cardinality(A \ {u}) = Cardinality(A) - 1
    BY <1>5, <2>6, FS_RemoveElement
  <2>10. Cardinality(A \ {u}) \in Nat
    <3>1. IsFiniteSet(A \ {u})
      BY <1>5, FS_RemoveElement
    <3>2. QED
      BY <3>1, FS_CardinalityType
  <2>11. x > 1 /\ Cardinality(Passed(text, p - 1, "pcm")) + 1 = x - 1
    <3> DEFINE a == Cardinality(A)
               d == Cardinality(A \ {u})
    <3>1. a = x - 1 /\ d = a - 1 /\ d \in Nat /\ x \in Nat
      BY <1>5, <2>9, <2>10
    <3>2. Cardinality(Passed(text, p - 1, "pcm")) = d
      BY <2>8
    <3> HIDE DEF a, d
    <3>3. x > 1 /\ d + 1 = x - 1
      BY <3>1
    <3>4. QED
      BY <3>2, <3>3
  <2>12. QED
    BY <1>5, <1>6, <1>8, <2>11 DEF x
<1>9. QED
  BY <1>7, <1>8

\* The lines of a P-group that are copied for a PCM channel.
LEMMA LinkLinesAre ==
  ASSUME NEW text, Expected(text), NEW p \in Opens(Sorted(text)), NEW k, k = Sorted(text)[p].n,
         Use(text, k) = "pcm", NEW i \in DOMAIN Visible(text), Visible(text)[i].att \in LinkAtts
  PROVE  i \in LinkLines(Visible(text), Place(Visible(text), k))
           <=> Visible(text)[i].n = SlotOf(text, k)[2] + 1
<1> DEFINE t == Visible(text)
           x == Place(t, k)
<1>1. WellFormed(text) /\ Orderly(text)
  BY DEF Expected
<1>2. CASE \E u \in TracksOf(text) : Use(text, u) = "uart"
  <2>1. PICK u \in TracksOf(text) : Use(text, u) = "uart"
    BY <1>2
  <2>2. SaysTrue(text, "CUCE", u)
    <3>1. PICK q \in Opens(Sorted(text)) : Sorted(text)[q].n = u
      BY <1>1, <2>1, TracksFound
    <3>2. KindOf(TypeOf(text, u)) \in CopiedKinds
      BY <1>1, <3>1, OpenTracks
    <3>3. KindOf(TypeOf(text, u)) # "uart"
      BY <3>2 DEF CopiedKinds
    <3>4. QED
      BY <2>1, <3>3 DEF Use
  <2>3. \E j \in DOMAIN t : t[j].att = "CUCE" /\ t[j].v = "T"
    BY <2>2 DEF SaysTrue, Line
  <2>4. x \in Nat /\ x > 1 /\ SlotOf(text, k)[2] + 1 = x - 1
    BY <1>2, PcmIndex
  <2>5. CountsFromZero(t, x, i)
    BY <2>3, <2>4 DEF CountsFromZero
  <2> HIDE DEF x, t
  <2>6. i \in LinkLines(t, x) <=> t[i].n = x - 1
    BY <2>5 DEF LinkLines, t
  <2>7. QED
    BY <2>4, <2>6 DEF x, t
<1>3. CASE ~\E u \in TracksOf(text) : Use(text, u) = "uart"
  <2>1. \A j \in DOMAIN t : ~(t[j].att = "CUCE" /\ t[j].v = "T")
    BY <1>1, <1>3 DEF Orderly, Anywhere
  <2>2. SlotOf(text, k)[2] + 1 = x
    BY <1>3, PcmIndex
  <2>3. ~CountsFromZero(t, x, i)
    BY <2>1 DEF CountsFromZero
  <2> HIDE DEF x, t
  <2>4. i \in LinkLines(t, x) <=> t[i].n = x
    BY <2>3 DEF LinkLines, t
  <2>5. QED
    BY <2>2, <2>4 DEF x, t
<1>4. QED
  BY <1>2, <1>3

-----------------------------------------------------------------------------
(* What a decoder leaves in a channel.                                     *)

LEMMA SourceIsNoField ==
  ASSUME NEW kind \in DecoderKinds, NEW att \in Decoded(kind)
  PROVE  Field(kind, att) # "source"
<1>1. CASE kind = "video"
  <2>1. att # "source"
    BY <1>1 DEF Decoded, VideoRecorderDecoded, OverlayDecoded, VideoVendorDecoded, AudioDecoded,
                VideoOverlayDecoded
  <2>2. VideoField(att) # "source"
    BY <2>1 DEF VideoField
  <2>3. QED
    BY <1>1, <2>2 DEF Field
<1>2. CASE kind # "video"
  <2>1. att # "source"
    BY <1>2 DEF Decoded, DecoderKinds, M1553RecorderDecoded, FilterDecoded, M1553VendorDecoded,
                DiscreteDecoded, PcmRecorderDecoded, PcmFrameDecoded, PcmFilterDecoded, LinkAtts,
                VoiceDecoded, EthernetDecoded, EthernetPlain, TimeDecoded
  <2>2. QED
    BY <1>2, <2>1 DEF Field
<1>3. QED
  BY <1>1, <1>2

\* The source of the time only.
LEMMA TimeSourceOnly ==
  ASSUME NEW chan, NEW l
  PROVE  LET c == TimeSourceSet(chan, l)
         IN  /\ DOMAIN chan \subseteq DOMAIN c /\ DOMAIN c \subseteq DOMAIN chan \cup {"source"}
             /\ \A f \in DOMAIN chan \ {"source"} : c[f] = chan[f]
<1>1. ASSUME NEW v
      PROVE  LET c == With(chan, "source", v)
             IN  /\ DOMAIN chan \subseteq DOMAIN c /\ DOMAIN c \subseteq DOMAIN chan \cup {"source"}
                 /\ \A f \in DOMAIN chan \ {"source"} : c[f] = chan[f]
  BY DEF With
<1> DEFINE source == IF "source" \in DOMAIN chan THEN chan["source"] ELSE "internal"
           A == l.att = "TMS.E" /\ l.v = "T"
           B == l.att = "TSRC" /\ l.v = "E" /\ source # "m1553"
           C == l.att = "TSRC" /\ l.v = "R"
<1>2. TimeSourceSet(chan, l) =
        CASE A -> With(chan, "source", "m1553") [] B -> With(chan, "source", "irig")
          [] C -> With(chan, "source", "rmm") [] OTHER -> chan
  BY DEF TimeSourceSet
<1> HIDE DEF A, B, C
<1>3. \/ \E v : TimeSourceSet(chan, l) = With(chan, "source", v)
      \/ TimeSourceSet(chan, l) = chan
  BY <1>2
<1>4. QED
  BY <1>1, <1>3

\* One line: its field, and of the others the source only.
LEMMA LineRead ==
  ASSUME NEW kind \in DecoderKinds, NEW chan, NEW l
  PROVE  LET c == DecodeLine(kind, chan, l)
             f == Field(kind, l.att)
         IN  IF l.att \in Decoded(kind)
             THEN /\ DOMAIN chan \subseteq DOMAIN c /\ f \in DOMAIN c /\ c[f] = l.v
                  /\ DOMAIN c \subseteq DOMAIN chan \cup {f, "source"}
                  /\ \A g \in DOMAIN chan \ {f, "source"} : c[g] = chan[g]
             ELSE c = chan
<1> DEFINE x == IF kind = "time" THEN TimeSourceSet(chan, l) ELSE chan
           f == Field(kind, l.att)
           c == DecodeLine(kind, chan, l)
<1>1. c = IF l.att \notin Decoded(kind) THEN chan ELSE With(x, f, l.v)
  BY DEF DecodeLine
<1>2. /\ DOMAIN chan \subseteq DOMAIN x /\ DOMAIN x \subseteq DOMAIN chan \cup {"source"}
      /\ \A g \in DOMAIN chan \ {"source"} : x[g] = chan[g]
  BY TimeSourceOnly
<1> HIDE DEF c, f, x
<1>3. CASE l.att \in Decoded(kind)
  <2>1. c = With(x, f, l.v)
    BY <1>1, <1>3
  <2>2. /\ DOMAIN c = DOMAIN x \cup {f} /\ c[f] = l.v
        /\ \A g \in DOMAIN x \ {f} : c[g] = x[g]
    BY <2>1 DEF With
  <2>3. QED
    BY <1>2, <1>3, <2>2 DEF c, f
<1>4. CASE l.att \notin Decoded(kind)
  BY <1>1, <1>4 DEF c
<1>5. QED
  BY <1>3, <1>4

\* The fields of a channel after m lines of a block: those of the lines, with the value
\* of one of them, and no others but what was there before.
Reads(kind, block, a) == block[a].att \in Decoded(kind)
FieldAt(kind, block, a) == Field(kind, block[a].att)
LinesRead(kind, chan, block, m, c) ==
  /\ \A a \in 1..m : Reads(kind, block, a) =>
       /\ FieldAt(kind, block, a) \in DOMAIN c
       /\ \E b \in 1..m : /\ Reads(kind, block, b) /\ FieldAt(kind, block, b) = FieldAt(kind, block, a)
                          /\ block[b].v = c[FieldAt(kind, block, a)]
  /\ \A f \in DOMAIN c : \/ f \in DOMAIN chan \/ f = "source"
                         \/ \E a \in 1..m : Reads(kind, block, a) /\ FieldAt(kind, block, a) = f

LEMMA LinesReadOn ==
  ASSUME NEW kind \in DecoderKinds, NEW chan, NEW block, NEW m \in Nat, NEW c,
         LinesRead(kind, chan, block, m, c)
  PROVE  LinesRead(kind, chan, block, m + 1, DecodeLine(kind, c, block[m + 1]))
<1> DEFINE l == block[m + 1]
           d == DecodeLine(kind, c, l)
           F(a) == FieldAt(kind, block, a)
           D(a) == Reads(kind, block, a)
           f == F(m + 1)
<1>1. /\ \A a \in 1..m : D(a) =>
           F(a) \in DOMAIN c /\ \E b \in 1..m : D(b) /\ F(b) = F(a) /\ block[b].v = c[F(a)]
      /\ \A g \in DOMAIN c : \/ g \in DOMAIN chan \/ g = "source"
                             \/ \E a \in 1..m : D(a) /\ F(a) = g
  BY DEF LinesRead
<1>2. IF D(m + 1)
      THEN /\ DOMAIN c \subseteq DOMAIN d /\ f \in DOMAIN d /\ d[f] = l.v
           /\ DOMAIN d \subseteq DOMAIN c \cup {f, "source"}
           /\ \A g \in DOMAIN c \ {f, "source"} : d[g] = c[g]
      ELSE d = c
  BY LineRead DEF Reads, FieldAt
<1>3. \A a : D(a) => F(a) # "source"
  BY SourceIsNoField DEF Reads, FieldAt
<1>4. m + 1 \in 1..(m + 1) /\ \A a \in 1..m : a \in 1..(m + 1)
  OBVIOUS
<1>5. \A a \in 1..(m + 1) : a \in 1..m \/ a = m + 1
  OBVIOUS
<1>6. l = block[m + 1]
  OBVIOUS
<1> HIDE DEF d, F, D, l, f
<1>7. f = F(m + 1)
  BY DEF f
<1>8. ASSUME NEW a \in 1..(m + 1), D(a)
      PROVE  F(a) \in DOMAIN d /\ \E b \in 1..(m + 1) : D(b) /\ F(b) = F(a) /\ block[b].v = d[F(a)]
  <2>1. CASE F(a) = f /\ D(m + 1)
    BY <1>2, <1>4, <1>6, <1>7, <2>1
  <2>2. CASE ~(F(a) = f /\ D(m + 1))
    <3>1. a \in 1..m
      BY <1>5, <1>7, <1>8, <2>2
    <3>2. F(a) \in DOMAIN c /\ \E b \in 1..m : D(b) /\ F(b) = F(a) /\ block[b].v = c[F(a)]
      BY <1>1, <1>8, <3>1
    <3>3. F(a) # "source"
      BY <1>3, <1>8
    <3>4. F(a) \in DOMAIN d /\ d[F(a)] = c[F(a)]
      BY <1>2, <2>2, <3>2, <3>3
    <3>5. QED
      BY <1>4, <3>2, <3>4
  <2>3. QED
    BY <2>1, <2>2
<1>9. ASSUME NEW g \in DOMAIN d
      PROVE  g \in DOMAIN chan \/ g = "source" \/ \E a \in 1..(m + 1) : D(a) /\ F(a) = g
  <2>1. g \in DOMAIN c \/ (D(m + 1) /\ g \in {f, "source"})
    BY <1>2
  <2>2. QED
    BY <1>1, <1>4, <1>7, <2>1
<1>10. LinesRead(kind, chan, block, m + 1, d)
  BY <1>8, <1>9 DEF LinesRead, F, D
<1>11. QED
  BY <1>10 DEF d, l

LEMMA BlockRead ==
  ASSUME NEW kind \in DecoderKinds, NEW chan, NEW block, Len(block) \in Nat
  PROVE  LinesRead(kind, Without(chan, Cleared(kind)), block, Len(block), Decode(kind, chan, block))
<1> DEFINE N == Len(block)
           first == Without(chan, Cleared(kind))
<1>1. PICK after : Decoding(kind, first, block, after) /\ DecodeLines(kind, first, block) = after[N]
  BY LinesDecoded
<1>2. N \in Nat
  OBVIOUS
<1> HIDE DEF N, first
<1>3. /\ after[0] = first
      /\ \A i \in 1..N : after[i] = DecodeLine(kind, after[i - 1], block[i])
  BY <1>1, <1>2 DEF Decoding, N
<1> DEFINE S == {m \in Nat : m <= N => LinesRead(kind, first, block, m, after[m])}
<1>4. 0 \in S
  <2>1. LinesRead(kind, first, block, 0, first)
    BY DEF LinesRead
  <2>2. QED
    BY <1>3, <2>1
<1>5. ASSUME NEW m \in Nat, m \in S PROVE m + 1 \in S
  <2> SUFFICES ASSUME m + 1 <= N PROVE LinesRead(kind, first, block, m + 1, after[m + 1])
    OBVIOUS
  <2>1. m <= N /\ m + 1 \in 1..N /\ (m + 1) - 1 = m
    BY <1>2
  <2>2. LinesRead(kind, first, block, m, after[m])
    BY <1>5, <2>1
  <2>3. after[m + 1] = DecodeLine(kind, after[m], block[m + 1])
    BY <1>3, <2>1
  <2>4. QED
    BY <2>2, <2>3, LinesReadOn
<1>6. N \in S
  <2> HIDE DEF S
  <2>1. QED BY <1>2, <1>4, <1>5, InductionBySet
<1>7. LinesRead(kind, first, block, N, after[N])
  BY <1>2, <1>6
<1>8. Decode(kind, chan, block) = after[N]
  BY <1>1 DEF Decode, first
<1>9. QED
  BY <1>7, <1>8 DEF N, first

\* The source of the time after m lines: the bus before the external one before the
\* clock of the recorder.
Says(block, m, att, v) == \E a \in 1..m : block[a].att = att /\ block[a].v = v
SourceOf(chan) == IF "source" \in DOMAIN chan THEN chan["source"] ELSE "internal"
SourceSaid(block, m) ==
  IF Says(block, m, "TMS.E", "T") THEN "m1553"
  ELSE IF Says(block, m, "TSRC", "E") THEN "irig"
  ELSE IF Says(block, m, "TSRC", "R") THEN "rmm" ELSE "internal"

\* No block says one source and another, or the cartridge and the bus.
OneSource(block, n) ==
  ~(Says(block, n, "TSRC", "R") /\ (Says(block, n, "TSRC", "E") \/ Says(block, n, "TMS.E", "T")))

LEMMA SaysOn ==
  ASSUME NEW block, NEW m \in Nat, NEW att, NEW v
  PROVE  Says(block, m + 1, att, v)
           <=> Says(block, m, att, v) \/ (block[m + 1].att = att /\ block[m + 1].v = v)
<1>1. \A a \in 1..(m + 1) : a \in 1..m \/ a = m + 1
  OBVIOUS
<1>2. m + 1 \in 1..(m + 1) /\ \A a \in 1..m : a \in 1..(m + 1)
  OBVIOUS
<1>3. QED
  BY <1>1, <1>2 DEF Says

LEMMA SaysLater ==
  ASSUME NEW block, NEW m \in Nat, NEW n \in Nat, m <= n, NEW att, NEW v, Says(block, m, att, v)
  PROVE  Says(block, n, att, v)
<1>1. \A a \in 1..m : a \in 1..n
  OBVIOUS
<1>2. QED
  BY <1>1 DEF Says

LEMMA SourceOfWith ==
  ASSUME NEW chan, NEW f, NEW v
  PROVE  SourceOf(With(chan, f, v)) = IF f = "source" THEN v ELSE SourceOf(chan)
BY DEF SourceOf, With

LEMMA SourceSetIs ==
  ASSUME NEW chan, NEW l
  PROVE  SourceOf(TimeSourceSet(chan, l)) =
           IF l.att = "TMS.E" /\ l.v = "T" THEN "m1553"
           ELSE IF l.att = "TSRC" /\ l.v = "E" /\ SourceOf(chan) # "m1553" THEN "irig"
           ELSE IF l.att = "TSRC" /\ l.v = "R" THEN "rmm" ELSE SourceOf(chan)
<1> DEFINE A == l.att = "TMS.E" /\ l.v = "T"
           B == l.att = "TSRC" /\ l.v = "E" /\ SourceOf(chan) # "m1553"
           C == l.att = "TSRC" /\ l.v = "R"
<1>1. TimeSourceSet(chan, l) =
        CASE A -> With(chan, "source", "m1553") [] B -> With(chan, "source", "irig")
          [] C -> With(chan, "source", "rmm") [] OTHER -> chan
  BY DEF TimeSourceSet, SourceOf
<1>2. ~(A /\ B) /\ ~(A /\ C) /\ ~(B /\ C)
  OBVIOUS
<1>3. \A v : SourceOf(With(chan, "source", v)) = v
  BY SourceOfWith
<1> HIDE DEF A, B, C
<1>4. SourceOf(TimeSourceSet(chan, l)) =
        IF A THEN "m1553" ELSE IF B THEN "irig" ELSE IF C THEN "rmm" ELSE SourceOf(chan)
  BY <1>1, <1>2, <1>3
<1>5. QED
  BY <1>4 DEF A, B, C

LEMMA SourceLine ==
  ASSUME NEW block, NEW m \in Nat, NEW c, OneSource(block, m + 1), SourceOf(c) = SourceSaid(block, m)
  PROVE  SourceOf(DecodeLine("time", c, block[m + 1])) = SourceSaid(block, m + 1)
<1> DEFINE l == block[m + 1]
           d == DecodeLine("time", c, l)
           A == l.att = "TMS.E" /\ l.v = "T"
           B == l.att = "TSRC" /\ l.v = "E"
           C == l.att = "TSRC" /\ l.v = "R"
           E == Says(block, m, "TMS.E", "T")
           F == Says(block, m, "TSRC", "E")
           G == Says(block, m, "TSRC", "R")
<1>1. /\ Says(block, m + 1, "TMS.E", "T") <=> E \/ A
      /\ Says(block, m + 1, "TSRC", "E") <=> F \/ B
      /\ Says(block, m + 1, "TSRC", "R") <=> G \/ C
  BY SaysOn
<1>2. SourceOf(d) = IF A THEN "m1553" ELSE IF B /\ SourceOf(c) # "m1553" THEN "irig"
                    ELSE IF C THEN "rmm" ELSE SourceOf(c)
  <2>1. CASE l.att \in Decoded("time")
    <3>1. d = With(TimeSourceSet(c, l), Field("time", l.att), l.v)
      BY <2>1 DEF DecodeLine
    <3>2. Field("time", l.att) # "source"
      BY <2>1, SourceIsNoField DEF DecoderKinds
    <3>3. SourceOf(d) = SourceOf(TimeSourceSet(c, l))
      BY <3>1, <3>2, SourceOfWith
    <3>4. QED
      BY <3>3, SourceSetIs
  <2>2. CASE l.att \notin Decoded("time")
    <3>1. d = c
      BY <2>2 DEF DecodeLine
    <3>2. ~A /\ ~B /\ ~C
      BY <2>2 DEF Decoded, TimeDecoded
    <3>3. QED
      BY <3>1, <3>2
  <2>3. QED
    BY <2>1, <2>2
<1>3. SourceOf(c) = IF E THEN "m1553" ELSE IF F THEN "irig" ELSE IF G THEN "rmm" ELSE "internal"
  BY DEF SourceSaid
<1>4. ~((G \/ C) /\ (F \/ B \/ E \/ A))
  BY <1>1 DEF OneSource
<1>5. SourceSaid(block, m + 1) =
        IF E \/ A THEN "m1553" ELSE IF F \/ B THEN "irig" ELSE IF G \/ C THEN "rmm" ELSE "internal"
  BY <1>1 DEF SourceSaid
<1>6. ~(A /\ B) /\ ~(A /\ C) /\ ~(B /\ C)
  OBVIOUS
<1> HIDE DEF A, B, C, E, F, G, d
<1>7. SourceOf(d) = SourceSaid(block, m + 1)
  BY <1>2, <1>3, <1>4, <1>5, <1>6
<1>8. QED
  BY <1>7 DEF d

LEMMA SourceRead ==
  ASSUME NEW chan, NEW block, Len(block) \in Nat, OneSource(block, Len(block))
  PROVE  SourceOf(Decode("time", chan, block)) = SourceSaid(block, Len(block))
<1> DEFINE N == Len(block)
           first == Without(chan, Cleared("time"))
<1>1. PICK after : Decoding("time", first, block, after) /\ DecodeLines("time", first, block) = after[N]
  BY LinesDecoded
<1>2. N \in Nat
  OBVIOUS
<1>3. SourceOf(first) = "internal"
  BY DEF SourceOf, Without, Cleared
<1> HIDE DEF N, first
<1>4. /\ after[0] = first
      /\ \A i \in 1..N : after[i] = DecodeLine("time", after[i - 1], block[i])
  BY <1>1, <1>2 DEF Decoding, N
<1> DEFINE S == {m \in Nat : m <= N => SourceOf(after[m]) = SourceSaid(block, m)}
<1>5. 0 \in S
  <2>1. SourceSaid(block, 0) = "internal"
    BY DEF SourceSaid, Says
  <2>2. QED
    BY <1>3, <1>4, <2>1
<1>6. ASSUME NEW m \in Nat, m \in S PROVE m + 1 \in S
  <2> SUFFICES ASSUME m + 1 <= N PROVE SourceOf(after[m + 1]) = SourceSaid(block, m + 1)
    OBVIOUS
  <2>1. m <= N /\ m + 1 \in 1..N /\ (m + 1) - 1 = m /\ m + 1 \in Nat
    BY <1>2
  <2>2. SourceOf(after[m]) = SourceSaid(block, m)
    BY <1>6, <2>1
  <2>3. after[m + 1] = DecodeLine("time", after[m], block[m + 1])
    BY <1>4, <2>1
  <2>4. OneSource(block, m + 1)
    <3>1. \A att, v : Says(block, m + 1, att, v) => Says(block, N, att, v)
      BY <1>2, <2>1, SaysLater
    <3>2. OneSource(block, N)
      BY DEF N
    <3>3. QED
      BY <3>1, <3>2 DEF OneSource
  <2>5. QED
    BY <2>2, <2>3, <2>4, SourceLine
<1>7. N \in S
  <2> HIDE DEF S
  <2>1. QED BY <1>2, <1>5, <1>6, InductionBySet
<1>8. SourceOf(after[N]) = SourceSaid(block, N)
  BY <1>2, <1>7
<1>9. Decode("time", chan, block) = after[N]
  BY <1>1 DEF Decode, first
<1>10. QED
  BY <1>8, <1>9 DEF N

-----------------------------------------------------------------------------
(* The block of a track has the lines the text states of it.               *)

Unnumbered == TimePlain \cup EthernetPlain \cup VideoPlaced \cup LinkAtts

\* What a kind copies by the number of its track.
CopiedOf(kind) ==
  CASE kind = "time" -> TimeNumbered
    [] kind = "eth" -> EthernetNumbered
    [] kind = "voice" -> VoiceCopied
    [] kind = "m1553" -> M1553Recorder \cup M1553Vendor
    [] kind = "video" -> VideoRecorder \cup VideoOverlay \cup VideoVendor
    [] kind = "pcm" -> PcmRecorder \cup PcmVendor
\* And besides.
Extra(t, kind, x) ==
  CASE kind = "time" -> Anywhere(t, TimePlain)
    [] kind = "eth" -> Anywhere(t, EthernetPlain)
    [] kind = "video" -> Own(t, x, VideoPlaced)
    [] kind = "pcm" -> LinkLines(t, x)
    [] OTHER -> {}

LEMMA CopiesAre ==
  ASSUME NEW t, NEW kind \in CopiedKinds, NEW k, NEW x
  PROVE  CopiesFor(t, kind, k, x) = Own(t, k, CopiedOf(kind)) \cup Extra(t, kind, x)
<1>1. CASE kind = "time" BY <1>1 DEF CopiesFor, CopiedOf, Extra
<1>2. CASE kind = "eth" BY <1>2 DEF CopiesFor, CopiedOf, Extra
<1>3. CASE kind = "voice" BY <1>3 DEF CopiesFor, CopiedOf, Extra
<1>4. CASE kind = "m1553" BY <1>4 DEF CopiesFor, CopiedOf, Extra
<1>5. CASE kind = "video" BY <1>5 DEF CopiesFor, CopiedOf, Extra
<1>6. CASE kind = "pcm" BY <1>6 DEF CopiesFor, CopiedOf, Extra
<1>7. QED
  BY <1>1, <1>2, <1>3, <1>4, <1>5, <1>6 DEF CopiedKinds

LEMMA CopiedIsPlain ==
  ASSUME NEW kind \in CopiedKinds
  PROVE  CopiedOf(kind) \cap Unnumbered = {}
<1> USE DEF Unnumbered, TimePlain, EthernetPlain, VideoPlaced, LinkAtts
<1>1. CASE kind = "time" BY <1>1 DEF CopiedOf, TimeNumbered
<1>2. CASE kind = "eth" BY <1>2 DEF CopiedOf, EthernetNumbered
<1>3. CASE kind = "voice" BY <1>3 DEF CopiedOf, VoiceCopied
<1>4. CASE kind = "m1553" BY <1>4 DEF CopiedOf, M1553Recorder, M1553Vendor
<1>5. CASE kind = "video" BY <1>5 DEF CopiedOf, VideoRecorder, VideoOverlay, VideoVendor
<1>6. CASE kind = "pcm" BY <1>6 DEF CopiedOf, PcmRecorder, PcmVendor
<1>7. QED
  BY <1>1, <1>2, <1>3, <1>4, <1>5, <1>6 DEF CopiedKinds

\* The lines without a number of a track are decoded by one kind each.
LEMMA SpecialDecoded ==
  ASSUME NEW kind \in DecoderKinds, NEW att \in Decoded(kind)
  PROVE  /\ att \in TimePlain => kind = "time"
         /\ att \in EthernetPlain => kind = "eth"
         /\ att \in VideoPlaced => kind = "video"
         /\ att \in LinkAtts => kind = "pcm"
<1> USE DEF Decoded, TimePlain, EthernetPlain, VideoPlaced, LinkAtts
<1>1. CASE kind = "time" BY <1>1 DEF TimeDecoded
<1>2. CASE kind = "eth" BY <1>2 DEF EthernetDecoded
<1>3. CASE kind = "voice" BY <1>3 DEF VoiceDecoded
<1>4. CASE kind = "m1553" BY <1>4 DEF M1553RecorderDecoded, FilterDecoded, M1553VendorDecoded
<1>5. CASE kind = "dm" BY <1>5 DEF DiscreteDecoded
<1>6. CASE kind = "video"
  BY <1>6 DEF VideoRecorderDecoded, OverlayDecoded, VideoVendorDecoded, AudioDecoded, VideoOverlayDecoded
<1>7. CASE kind = "pcm" BY <1>7 DEF PcmRecorderDecoded, PcmFrameDecoded, PcmFilterDecoded
<1>8. QED
  BY <1>1, <1>2, <1>3, <1>4, <1>5, <1>6, <1>7 DEF DecoderKinds

\* The lines without a number of a track are of one sort each.
LEMMA SpecialApart ==
  /\ TimePlain \cap EthernetPlain = {} /\ TimePlain \cap VideoPlaced = {}
  /\ TimePlain \cap LinkAtts = {} /\ EthernetPlain \cap VideoPlaced = {}
  /\ EthernetPlain \cap LinkAtts = {} /\ VideoPlaced \cap LinkAtts = {}
BY DEF TimePlain, EthernetPlain, VideoPlaced, LinkAtts

\* What is decoded and is not copied.
LEMMA DecodedCopied ==
  ASSUME NEW kind \in DecoderKinds, NEW att \in Decoded(kind), att \notin Unnumbered, att # "TK1",
         NEW of, of = (IF kind = "dm" THEN "m1553" ELSE kind), att \notin NotCopied(of)
  PROVE  att \in CopiedOf(of)
<1> USE DEF Decoded, CopiedOf, NotCopied, Unnumbered
<1>1. CASE kind = "time" BY <1>1 DEF TimeDecoded, TimeNumbered, TimePlain
<1>2. CASE kind = "eth" BY <1>2 DEF EthernetDecoded, EthernetNumbered
<1>3. CASE kind = "voice" BY <1>3 DEF VoiceDecoded, VoiceCopied
<1>4. CASE kind = "m1553"
  BY <1>4 DEF M1553RecorderDecoded, FilterDecoded, M1553VendorDecoded, M1553Recorder, M1553Vendor
<1>5. CASE kind = "dm" BY <1>5 DEF DiscreteDecoded, M1553Recorder, M1553Vendor
<1>6. CASE kind = "video"
  BY <1>6 DEF VideoRecorderDecoded, OverlayDecoded, VideoVendorDecoded, AudioDecoded, VideoOverlayDecoded,
              VideoRecorder, VideoOverlay, VideoVendor, VideoPlaced
<1>7. CASE kind = "pcm"
  BY <1>7 DEF PcmRecorderDecoded, PcmFrameDecoded, PcmFilterDecoded, PcmRecorder, PcmVendor
<1>8. QED
  BY <1>1, <1>2, <1>3, <1>4, <1>5, <1>6, <1>7 DEF DecoderKinds

\* Whether a line is told of a track.
LEMMA TellsIs ==
  ASSUME NEW text, NEW k, NEW s, NEW l
  PROVE  Tells(text, k, s, l) <=>
           /\ l.att \in Decoded(DecodedAs(s[1]))
           /\ l.att \in TimePlain => s[1] = "time"
           /\ l.att \in EthernetPlain => s[1] = "eth"
           /\ l.att \in VideoPlaced \cup LinkAtts => l.n = s[2] + 1
           /\ l.att \notin Unnumbered => l.n = k
<1> DEFINE A == l.att \in TimePlain
           B == l.att \in EthernetPlain
           C == l.att \in VideoPlaced \cup LinkAtts
<1>1. Tells(text, k, s, l) <=>
        /\ l.att \in Decoded(DecodedAs(s[1]))
        /\ CASE A -> s[1] = "time" [] B -> s[1] = "eth" [] C -> l.n = s[2] + 1 [] OTHER -> l.n = k
  BY DEF Tells, DecodedAs
<1>2. ~(A /\ B) /\ ~(A /\ C) /\ ~(B /\ C)
  BY SpecialApart
<1>3. l.att \in Unnumbered <=> A \/ B \/ C
  BY DEF Unnumbered
<1> HIDE DEF A, B, C
<1>4. (CASE A -> s[1] = "time" [] B -> s[1] = "eth" [] C -> l.n = s[2] + 1 [] OTHER -> l.n = k)
        <=> /\ A => s[1] = "time"
            /\ B => s[1] = "eth"
            /\ C => l.n = s[2] + 1
            /\ ~(A \/ B \/ C) => l.n = k
  <2>1. CASE A BY <1>2, <2>1
  <2>2. CASE B BY <1>2, <2>2
  <2>3. CASE C BY <1>2, <2>3
  <2>4. CASE ~A /\ ~B /\ ~C BY <2>4
  <2>5. QED
    BY <2>1, <2>2, <2>3, <2>4
<1>5. QED
  BY <1>1, <1>3, <1>4 DEF A, B, C

\* The decoder and the kind that go with a use.
LEMMA UseKinds ==
  ASSUME NEW use \in CopiedKinds \cup {"dm", "uart"}
  PROVE  /\ DecodedAs(use) \in DecoderKinds /\ KindOfUse(use) \in CopiedKinds
         /\ KindOfUse(use) = (IF DecodedAs(use) = "dm" THEN "m1553" ELSE DecodedAs(use))
         /\ \A kind \in {"time", "eth", "video"} : DecodedAs(use) = kind <=> use = kind
         /\ \A kind \in {"time", "eth", "video", "voice"} : KindOfUse(use) = kind <=> use = kind
         /\ DecodedAs(use) = "pcm" <=> use \in {"pcm", "uart"}
         /\ KindOfUse(use) = "pcm" <=> use \in {"pcm", "uart"}
BY DEF DecodedAs, KindOfUse, CopiedKinds, DecoderKinds

LEMMA Located ==
  ASSUME NEW text, Expected(text), NEW p \in Opens(Sorted(text)), NEW k, k = Sorted(text)[p].n
  PROVE  /\ WellFormedLines(Visible(text)) /\ Orderly(text)
         /\ Part(Visible(text), Sorted(text), SomeNumbers(Visible(text), CopiedKinds))
         /\ Filled(Visible(text), Sorted(text))
         /\ k \in TracksOf(text) /\ Use(text, k) \in CopiedKinds \cup {"dm", "uart"}
         /\ KindOfUse(Use(text, k)) = TrackKind(Visible(text), k)
         /\ TrackKind(Visible(text), k) = KindOf(TypeOf(text, k))
         /\ SlotOf(text, k)[1] = Use(text, k)
         /\ CopiesOf(Visible(text), k) =
              Own(Visible(text), k, CopiedOf(KindOfUse(Use(text, k))))
                \cup Extra(Visible(text), KindOfUse(Use(text, k)), Place(Visible(text), k))
<1>1. WellFormed(text) /\ Orderly(text)
  BY DEF Expected
<1>2. WellFormedLines(Visible(text))
  BY <1>1 DEF WellFormed
<1>3. Part(Visible(text), Sorted(text), SomeNumbers(Visible(text), CopiedKinds))
  BY <1>1, SortedPart
<1>4. Filled(Visible(text), Sorted(text))
  <2>1. \A i \in DOMAIN Visible(text) : Visible(text)[i].n # NoTrack
    BY <1>1 DEF Orderly
  <2>2. QED
    BY <1>1, <2>1, SortedFilled
<1>5. /\ k \in TracksOf(text) /\ Use(text, k) \in CopiedKinds \cup {"dm", "uart"}
      /\ KindOfUse(Use(text, k)) = TrackKind(Visible(text), k)
      /\ TrackKind(Visible(text), k) = KindOf(TypeOf(text, k))
      /\ TrackKind(Visible(text), k) \in CopiedKinds
  BY <1>1, OpenTracks
<1>6. SlotOf(text, k)[1] = Use(text, k)
  BY DEF SlotOf
<1>7. CopiesOf(Visible(text), k) =
        Own(Visible(text), k, CopiedOf(KindOfUse(Use(text, k))))
          \cup Extra(Visible(text), KindOfUse(Use(text, k)), Place(Visible(text), k))
  BY <1>5, CopiesAre DEF CopiesOf
<1>8. QED
  BY <1>1, <1>2, <1>3, <1>4, <1>5, <1>6, <1>7

\* The lines of the block that are read are told of the track (those of the P-group apart,
\* when the track is the UART of the controller).
LEMMA BlockTold ==
  ASSUME NEW text, Expected(text), NEW p \in Opens(Sorted(text)), NEW k, k = Sorted(text)[p].n,
         NEW use, use = Use(text, k), NEW b, b = Block(Sorted(text), p), NEW a \in DOMAIN b,
         b[a].att \in Decoded(DecodedAs(use)), use = "uart" => b[a].att \notin LinkAtts
  PROVE  \E i \in Told(text, k) : Visible(text)[i] = b[a]
<1> DEFINE t == Visible(text)
           s == Sorted(text)
           l == b[a]
           kind == KindOfUse(use)
           x == Place(t, k)
           slot == SlotOf(text, k)
<1>1. /\ WellFormedLines(t) /\ Part(t, s, SomeNumbers(t, CopiedKinds)) /\ Filled(t, s)
      /\ use \in CopiedKinds \cup {"dm", "uart"} /\ slot[1] = use
      /\ CopiesOf(t, k) = Own(t, k, CopiedOf(kind)) \cup Extra(t, kind, x)
  BY Located
<1>2. s \in Seq(Copyable) /\ p \in DOMAIN s /\ s[p].att = "TK1" /\ \E f \in DOMAIN t : s[p] = t[f]
  BY <1>1, OpensTrack DEF Part
<1>3. /\ DecodedAs(use) \in DecoderKinds /\ kind \in CopiedKinds
      /\ \A z \in {"time", "eth", "video"} : DecodedAs(use) = z <=> use = z
      /\ \A z \in {"time", "eth", "video", "voice"} : kind = z <=> use = z
      /\ DecodedAs(use) = "pcm" <=> use \in {"pcm", "uart"}
      /\ kind = "pcm" <=> use \in {"pcm", "uart"}
  BY <1>1, UseKinds
<1>4. SUFFICES \E i \in DOMAIN t : t[i] = l /\ Tells(text, k, slot, t[i])
  BY DEF Told, Line
<1>5. /\ b[1] = s[p]
      /\ \A c \in DOMAIN b : c # 1 => \E q \in DOMAIN s : b[c] = s[q] /\ Within(s, p, q)
  BY <1>2, InBlock
<1>6. CopiedOf(kind) \cap Unnumbered = {}
  BY <1>3, CopiedIsPlain
<1>7. /\ l.att \in TimePlain => use = "time"
      /\ l.att \in EthernetPlain => use = "eth"
      /\ l.att \in VideoPlaced => use = "video"
      /\ l.att \in LinkAtts => use = "pcm"
  BY <1>3, SpecialDecoded
<1>8. CASE a = 1
  <2>1. PICK f \in DOMAIN t : s[p] = t[f]
    BY <1>2
  <2>2. l = t[f] /\ l.n = k /\ l.att = "TK1"
    BY <1>2, <1>5, <1>8, <2>1
  <2>3. l.att \notin Unnumbered
    BY <2>2, IdIsPlain DEF Unnumbered
  <2> HIDE DEF l, t, slot
  <2>4. Tells(text, k, slot, t[f])
    BY <1>1, <2>2, <2>3, TellsIs DEF l, Unnumbered
  <2>5. QED
    BY <2>2, <2>4 DEF t, slot
<1>9. CASE a # 1
  <2>1. PICK q \in DOMAIN s : l = s[q] /\ Within(s, p, q)
    BY <1>5, <1>9
  <2>2. l.att \in EthernetPlain \/ \E i \in CopiesOf(t, k) : l = t[i]
    BY <1>1, <2>1 DEF Filled
  <2>3. CASE l.att \in EthernetPlain
    <3>1. l.att # "COM"
      BY <2>3 DEF EthernetPlain
    <3>2. PICK i \in DOMAIN t : s[q] = t[i]
      BY <1>1, <2>1, <3>1 DEF Part, LinesKept
    <3>3. l = t[i] /\ use = "eth"
      BY <1>7, <2>1, <2>3, <3>2
    <3>4. l.att \notin TimePlain /\ l.att \notin VideoPlaced \cup LinkAtts /\ l.att \in Unnumbered
      BY <2>3, SpecialApart DEF Unnumbered
    <3> HIDE DEF l, t, slot
    <3>5. Tells(text, k, slot, t[i])
      BY <1>1, <3>3, <3>4, TellsIs DEF l
    <3>6. QED
      BY <3>3, <3>5 DEF t, slot
  <2>4. ASSUME NEW i \in CopiesOf(t, k), l = t[i] PROVE \E j \in DOMAIN t : t[j] = l /\ Tells(text, k, slot, t[j])
    <3>1. CASE i \in Own(t, k, CopiedOf(kind))
      <4>1. i \in DOMAIN t /\ l.n = k /\ l.att \notin Unnumbered
        BY <1>6, <2>4, <3>1 DEF Own
      <4> HIDE DEF l, t, slot
      <4>2. Tells(text, k, slot, t[i])
        BY <1>1, <2>4, <4>1, TellsIs DEF l, Unnumbered
      <4>3. QED
        BY <2>4, <4>1, <4>2
    <3>2. CASE i \in Extra(t, kind, x)
      <4>1. CASE kind = "time"
        <5>1. i \in DOMAIN t /\ l.att \in TimePlain
          BY <2>4, <3>2, <4>1 DEF Extra, Anywhere
        <5>2. l.att \notin EthernetPlain /\ l.att \notin VideoPlaced \cup LinkAtts /\ l.att \in Unnumbered
          BY <5>1, SpecialApart DEF Unnumbered
        <5>3. use = "time"
          BY <1>3, <4>1
        <5> HIDE DEF l, t, slot
        <5>4. Tells(text, k, slot, t[i])
          BY <1>1, <2>4, <5>2, <5>3, TellsIs DEF l
        <5>5. QED
          BY <2>4, <5>1, <5>4
      <4>2. CASE kind = "eth"
        <5>1. l.att \in EthernetPlain
          BY <2>4, <3>2, <4>2 DEF Extra, Anywhere
        <5>2. QED
          BY <2>3, <1>4, <5>1
      <4>3. CASE kind = "video"
        <5>1. i \in DOMAIN t /\ l.att \in VideoPlaced /\ l.n = x
          BY <2>4, <3>2, <4>3 DEF Extra, Own
        <5>2. l.att \notin EthernetPlain /\ l.att \notin TimePlain /\ l.att \in Unnumbered
          BY <5>1, SpecialApart DEF Unnumbered
        <5>3. use = "video"
          BY <1>3, <4>3
        <5>4. slot[2] + 1 = x
          BY <5>3, VideoIndex
        <5> HIDE DEF l, t, slot, x
        <5>5. Tells(text, k, slot, t[i])
          BY <1>1, <2>4, <5>1, <5>2, <5>4, TellsIs DEF l
        <5>6. QED
          BY <2>4, <5>1, <5>5
      <4>4. CASE kind = "pcm"
        <5>1. i \in DOMAIN t /\ l.att \in LinkAtts /\ i \in LinkLines(t, x)
          BY <2>4, <3>2, <4>4 DEF Extra, LinkLines
        <5>2. l.att \notin EthernetPlain /\ l.att \notin TimePlain /\ l.att \in Unnumbered
          BY <5>1, SpecialApart DEF Unnumbered
        <5>3. use = "pcm"
          BY <1>7, <5>1
        <5>4. l.n = slot[2] + 1
          <6>1. Visible(text)[i].att \in LinkAtts /\ i \in DOMAIN Visible(text) /\ Use(text, k) = "pcm"
            BY <2>4, <5>1, <5>3
          <6>2. i \in LinkLines(Visible(text), Place(Visible(text), k))
            BY <5>1
          <6>3. Visible(text)[i].n = SlotOf(text, k)[2] + 1
            BY <6>1, <6>2, LinkLinesAre
          <6>4. QED
            BY <2>4, <6>3
        <5> HIDE DEF l, t, slot, x
        <5>5. Tells(text, k, slot, t[i])
          BY <1>1, <2>4, <5>1, <5>2, <5>4, TellsIs DEF l
        <5>6. QED
          BY <2>4, <5>1, <5>5
      <4>5. CASE kind \notin {"time", "eth", "video", "pcm"}
        BY <3>2, <4>5 DEF Extra
      <4>6. QED
        BY <4>1, <4>2, <4>3, <4>4, <4>5
    <3>3. QED
      BY <1>1, <2>4, <3>1, <3>2
  <2>5. QED
    <3> HIDE DEF l, t, slot
    <3>1. CASE l.att \in EthernetPlain
      BY <2>3, <3>1
    <3>2. CASE l.att \notin EthernetPlain
      BY <2>2, <2>4, <3>2
    <3>3. QED
      BY <3>1, <3>2
<1>10. QED
  BY <1>8, <1>9

\* And what is told of the track is in its block.
LEMMA ToldInBlock ==
  ASSUME NEW text, Expected(text), NEW p \in Opens(Sorted(text)), NEW k, k = Sorted(text)[p].n,
         NEW use, use = Use(text, k), NEW b, b = Block(Sorted(text), p), NEW i \in Told(text, k),
         use = "uart" => Visible(text)[i].att \notin LinkAtts
  PROVE  \E a \in DOMAIN b : b[a] = Visible(text)[i]
<1> DEFINE t == Visible(text)
           s == Sorted(text)
           l == t[i]
           kind == KindOfUse(use)
           x == Place(t, k)
           slot == SlotOf(text, k)
<1>1. /\ WellFormedLines(t) /\ Part(t, s, SomeNumbers(t, CopiedKinds)) /\ Filled(t, s)
      /\ use \in CopiedKinds \cup {"dm", "uart"} /\ slot[1] = use /\ Orderly(text)
      /\ k \in TracksOf(text) /\ kind = KindOf(TypeOf(text, k))
      /\ CopiesOf(t, k) = Own(t, k, CopiedOf(kind)) \cup Extra(t, kind, x)
  BY Located
<1>2. /\ s \in Seq(Copyable) /\ p \in DOMAIN s /\ s[p].att = "TK1"
  BY <1>1, OpensTrack DEF Part
<1>3. PICK f \in DOMAIN t : s[p] = t[f]
  BY <1>1, OpensTrack
<1>4. /\ DecodedAs(use) \in DecoderKinds /\ kind \in CopiedKinds
      /\ kind = (IF DecodedAs(use) = "dm" THEN "m1553" ELSE DecodedAs(use))
      /\ \A z \in {"time", "eth", "video"} : DecodedAs(use) = z <=> use = z
      /\ \A z \in {"time", "eth", "video", "voice"} : kind = z <=> use = z
      /\ DecodedAs(use) = "pcm" <=> use \in {"pcm", "uart"}
      /\ kind = "pcm" <=> use \in {"pcm", "uart"}
  BY <1>1, UseKinds
<1>5. /\ Len(b) >= 1 /\ b \in Seq(Copyable) /\ b[1] = s[p]
      /\ \A q \in DOMAIN s : Within(s, p, q) => \E a \in DOMAIN b : b[a] = s[q]
  BY <1>2, InBlock
<1>6. i \in DOMAIN t /\ Tells(text, k, slot, l)
  BY DEF Told, Line
<1>7. /\ l.att \in Decoded(DecodedAs(use))
      /\ l.att \in TimePlain => use = "time"
      /\ l.att \in EthernetPlain => use = "eth"
      /\ l.att \in VideoPlaced \cup LinkAtts => l.n = slot[2] + 1
      /\ l.att \notin Unnumbered => l.n = k
  <2> HIDE DEF l, t, slot
  <2>1. QED BY <1>1, <1>6, TellsIs
<1>8. /\ l.att \in VideoPlaced => use = "video"
      /\ l.att \in LinkAtts => use = "pcm"
  BY <1>4, <1>7, SpecialDecoded
<1>9. ASSUME i \in CopiesOf(t, k) PROVE \E a \in DOMAIN b : b[a] = t[i]
  <2>1. PICK q \in DOMAIN s : s[q] = t[i] /\ Within(s, p, q)
    BY <1>1, <1>2, <1>3, <1>9 DEF Filled, Opens
  <2>2. QED
    BY <1>5, <2>1
<1>10. CASE l.att = "TK1"
  <2>1. l.n = k
    BY <1>7, <1>10, IdIsPlain DEF Unnumbered
  <2>2. i \in Anywhere(t, {"TK1"}) /\ f \in Anywhere(t, {"TK1"})
    BY <1>2, <1>3, <1>6, <1>10 DEF Anywhere
  <2>3. \A y, z \in Anywhere(t, {"TK1"}) : t[y].n = t[z].n => y = z
    BY <1>1 DEF WellFormedLines
  <2>4. t[i].n = t[f].n
    BY <1>3, <2>1
  <2>5. i = f
    <3> HIDE DEF t, l
    <3>1. QED BY <2>2, <2>3, <2>4
  <2>6. 1 \in DOMAIN b
    BY <1>5
  <2>7. QED
    BY <1>3, <1>5, <2>5, <2>6
<1>11. CASE l.att \notin Unnumbered /\ l.att # "TK1"
  <2>1. l.n = k
    BY <1>7, <1>11
  <2>2. l.att \notin NotCopied(kind)
    <3>1. \A m \in TracksOf(text) : \A j \in DOMAIN t :
            t[j].n = m => t[j].att \notin NotCopied(KindOf(TypeOf(text, m)))
      BY <1>1 DEF Orderly
    <3>2. QED
      BY <1>1, <1>6, <2>1, <3>1
  <2>3. l.att \in CopiedOf(kind)
    <3> HIDE DEF l, kind
    <3>1. QED BY <1>4, <1>7, <1>11, <2>2, DecodedCopied
  <2>4. i \in Own(t, k, CopiedOf(kind))
    BY <1>6, <2>1, <2>3 DEF Own
  <2>5. QED
    BY <1>1, <1>9, <2>4
<1>12. CASE l.att \in TimePlain
  <2>1. kind = "time" /\ i \in Anywhere(t, TimePlain)
    BY <1>4, <1>6, <1>7, <1>12 DEF Anywhere
  <2>2. i \in Extra(t, kind, x)
    BY <2>1 DEF Extra
  <2>3. QED
    BY <1>1, <1>9, <2>2
<1>13. CASE l.att \in EthernetPlain
  <2>1. kind = "eth" /\ i \in Anywhere(t, EthernetPlain)
    BY <1>4, <1>6, <1>7, <1>13 DEF Anywhere
  <2>2. i \in Extra(t, kind, x)
    BY <2>1 DEF Extra
  <2>3. QED
    BY <1>1, <1>9, <2>2
<1>14. CASE l.att \in VideoPlaced
  <2>1. kind = "video" /\ use = "video" /\ l.n = slot[2] + 1
    BY <1>4, <1>7, <1>8, <1>14
  <2>2. slot[2] + 1 = x
    BY <2>1, VideoIndex
  <2>3. i \in Own(t, x, VideoPlaced)
    BY <1>6, <1>14, <2>1, <2>2 DEF Own
  <2>4. i \in Extra(t, kind, x)
    BY <2>1, <2>3 DEF Extra
  <2>5. QED
    BY <1>1, <1>9, <2>4
<1>15. CASE l.att \in LinkAtts
  <2>1. kind = "pcm" /\ use = "pcm" /\ l.n = slot[2] + 1
    BY <1>4, <1>7, <1>8, <1>15
  <2>2. i \in LinkLines(t, x)
    BY <1>6, <1>15, <2>1, LinkLinesAre
  <2>3. i \in Extra(t, kind, x)
    BY <2>1, <2>2 DEF Extra
  <2>4. QED
    BY <1>1, <1>9, <2>3
<1>16. QED
  <2>1. l.att \in Unnumbered => l.att \in TimePlain \/ l.att \in EthernetPlain \/ l.att \in VideoPlaced
                              \/ l.att \in LinkAtts
    BY DEF Unnumbered
  <2> HIDE DEF l
  <2>2. QED
    BY <1>10, <1>11, <1>12, <1>13, <1>14, <1>15, <2>1

-----------------------------------------------------------------------------
(* A channel decoded from its block is what the text states.               *)

LEMMA LinkFields ==
  ASSUME NEW att
  PROVE  (Field("pcm", att) \in LinkAtts <=> att \in LinkAtts)
         /\ (Field("pcm", att) \in Kept => att \notin LinkAtts)
<1>1. Field("pcm", att) = IF att = "CN" THEN "TK4" ELSE att
  BY DEF Field
<1>2. "CN" \notin LinkAtts /\ "TK4" \notin LinkAtts /\ Kept \cap LinkAtts = {}
  BY DEF LinkAtts, Kept
<1>3. QED
  BY <1>1, <1>2

\* The fields that are told have the value of one of the lines that tell them.
LEMMA FieldsDecoded ==
  ASSUME NEW text, Expected(text), NEW p \in Opens(Sorted(text)), NEW k, k = Sorted(text)[p].n,
         NEW use, use = Use(text, k), NEW old,
         NEW c, c = Decode(DecodedAs(use), old, Block(Sorted(text), p)),
         NEW i \in Told(text, k), use = "uart" => Visible(text)[i].att \notin LinkAtts
  PROVE  LET f == Field(DecodedAs(use), Visible(text)[i].att)
         IN  /\ f \in DOMAIN c
             /\ \E j \in Told(text, k) : /\ Field(DecodedAs(use), Visible(text)[j].att) = f
                                         /\ Visible(text)[j].v = c[f]
<1> DEFINE t == Visible(text)
           b == Block(Sorted(text), p)
           dk == DecodedAs(use)
           f == Field(dk, t[i].att)
<1>1. /\ use \in CopiedKinds \cup {"dm", "uart"} /\ SlotOf(text, k)[1] = use
      /\ Part(t, Sorted(text), SomeNumbers(t, CopiedKinds)) /\ WellFormedLines(t)
  BY Located
<1>2. dk \in DecoderKinds
  BY <1>1, UseKinds
<1>3. b \in Seq(Copyable)
  <2>1. Sorted(text) \in Seq(Copyable) /\ p \in DOMAIN Sorted(text)
    BY <1>1, OpensTrack DEF Part
  <2>2. QED
    BY <2>1, InBlock
<1>4. Len(b) \in Nat /\ DOMAIN b = 1..Len(b)
  <2> HIDE DEF b
  <2>1. QED BY <1>3
<1>5. LinesRead(dk, Without(old, Cleared(dk)), b, Len(b), c)
  <2> HIDE DEF b, dk
  <2>1. QED BY <1>2, <1>4, BlockRead DEF b, dk
<1>6. PICK a \in DOMAIN b : b[a] = t[i]
  BY ToldInBlock
<1>7. t[i].att \in Decoded(dk)
  <2>1. Tells(text, k, SlotOf(text, k), t[i])
    BY DEF Told, Line
  <2>2. QED
    BY <1>1, <2>1 DEF Tells, DecodedAs
<1> HIDE DEF b
<1>8. Reads(dk, b, a) /\ FieldAt(dk, b, a) = f
  BY <1>6, <1>7 DEF Reads, FieldAt
<1>9. /\ f \in DOMAIN c
      /\ \E m \in 1..Len(b) : Reads(dk, b, m) /\ FieldAt(dk, b, m) = f /\ b[m].v = c[f]
  BY <1>4, <1>5, <1>8 DEF LinesRead
<1>10. PICK m \in 1..Len(b) : Reads(dk, b, m) /\ FieldAt(dk, b, m) = f /\ b[m].v = c[f]
  BY <1>9
<1>11. use = "uart" => b[m].att \notin LinkAtts
  <2>1. use = "uart" => dk = "pcm"
    BY DEF DecodedAs
  <2>2. QED
    BY <1>10, <2>1, LinkFields DEF FieldAt
<1>12. \E j \in Told(text, k) : t[j] = b[m]
  BY <1>4, <1>10, <1>11, BlockTold DEF Reads, b
<1>13. QED
  BY <1>9, <1>10, <1>12 DEF FieldAt

\* A field with a default has a value only if it is told.
LEMMA DefaultsStay ==
  ASSUME NEW text, Expected(text), NEW p \in Opens(Sorted(text)), NEW k, k = Sorted(text)[p].n,
         NEW use, use = Use(text, k), use # "uart", NEW old,
         NEW c, c = Decode(DecodedAs(use), old, Block(Sorted(text), p)),
         NEW f \in (Cleared(use) \ {"source"}) \cap DOMAIN c
  PROVE  f \in FieldsTold(text, k)
<1> DEFINE t == Visible(text)
           b == Block(Sorted(text), p)
           dk == DecodedAs(use)
<1>1. /\ use \in CopiedKinds \cup {"dm", "uart"}
      /\ Part(t, Sorted(text), SomeNumbers(t, CopiedKinds)) /\ WellFormedLines(t)
  BY Located
<1>2. dk \in DecoderKinds /\ dk = use
  BY <1>1, UseKinds DEF DecodedAs
<1>3. b \in Seq(Copyable)
  <2>1. Sorted(text) \in Seq(Copyable) /\ p \in DOMAIN Sorted(text)
    BY <1>1, OpensTrack DEF Part
  <2>2. QED
    BY <2>1, InBlock
<1>4. Len(b) \in Nat /\ DOMAIN b = 1..Len(b)
  <2> HIDE DEF b
  <2>1. QED BY <1>3
<1>5. LinesRead(dk, Without(old, Cleared(dk)), b, Len(b), c)
  <2> HIDE DEF b, dk
  <2>1. QED BY <1>2, <1>4, BlockRead DEF b, dk
<1>6. f \notin DOMAIN Without(old, Cleared(dk)) /\ f # "source" /\ f \in DOMAIN c
  BY <1>2 DEF Without
<1> HIDE DEF b
<1>7. PICK a \in 1..Len(b) : Reads(dk, b, a) /\ FieldAt(dk, b, a) = f
  BY <1>5, <1>6 DEF LinesRead
<1>8. PICK i \in Told(text, k) : t[i] = b[a]
  BY <1>4, <1>7, BlockTold DEF Reads, b
<1>9. f = Field(DecodedAs(Use(text, k)), Line(text, i).att)
  BY <1>7, <1>8 DEF FieldAt, Line
<1>10. QED
  BY <1>9 DEF FieldsTold

\* What the text states of the time is in the block of its track.
LEMMA BlockSays ==
  ASSUME NEW text, Expected(text), NEW p \in Opens(Sorted(text)), NEW k, k = Sorted(text)[p].n,
         Use(text, k) = "time", NEW b, b = Block(Sorted(text), p), NEW att \in TimeDecoded, NEW v
  PROVE  States(text, k, att, v) <=> Says(b, Len(b), att, v)
<1> DEFINE t == Visible(text)
<1>1. /\ Part(t, Sorted(text), SomeNumbers(t, CopiedKinds)) /\ WellFormedLines(t)
  BY Located
<1>2. b \in Seq(Copyable)
  <2>1. Sorted(text) \in Seq(Copyable) /\ p \in DOMAIN Sorted(text)
    BY <1>1, OpensTrack DEF Part
  <2>2. QED
    BY <2>1, InBlock
<1>3. Len(b) \in Nat /\ DOMAIN b = 1..Len(b)
  BY <1>2
<1>4. States(text, k, att, v) <=> \E i \in Told(text, k) : t[i].att = att /\ t[i].v = v
  BY DEF States, Told, Line
<1>5. ASSUME NEW i \in Told(text, k), t[i].att = att, t[i].v = v PROVE Says(b, Len(b), att, v)
  <2>1. PICK a \in DOMAIN b : b[a] = t[i]
    BY ToldInBlock
  <2>2. QED
    BY <1>3, <1>5, <2>1 DEF Says
<1>6. ASSUME Says(b, Len(b), att, v) PROVE \E i \in Told(text, k) : t[i].att = att /\ t[i].v = v
  <2>1. PICK a \in DOMAIN b : b[a].att = att /\ b[a].v = v
    BY <1>3, <1>6 DEF Says
  <2>2. att \in Decoded(DecodedAs("time"))
    BY DEF Decoded, DecodedAs
  <2>3. PICK i \in Told(text, k) : t[i] = b[a]
    BY <2>1, <2>2, BlockTold
  <2>4. QED
    BY <2>1, <2>3
<1>7. QED
  BY <1>4, <1>5, <1>6

LEMMA SourceAsStated ==
  ASSUME NEW text, Expected(text), NEW p \in Opens(Sorted(text)), NEW k, k = Sorted(text)[p].n,
         Use(text, k) = "time", NEW old
  PROVE  StatedSource(text, k) = SourceOf(Decode("time", old, Block(Sorted(text), p)))
<1> DEFINE t == Visible(text)
           b == Block(Sorted(text), p)
<1>1. /\ Part(t, Sorted(text), SomeNumbers(t, CopiedKinds)) /\ WellFormedLines(t) /\ Orderly(text)
  BY Located
<1>2. b \in Seq(Copyable)
  <2>1. Sorted(text) \in Seq(Copyable) /\ p \in DOMAIN Sorted(text)
    BY <1>1, OpensTrack DEF Part
  <2>2. QED
    BY <2>1, InBlock
<1> HIDE DEF b
<1>3. Len(b) \in Nat /\ DOMAIN b = 1..Len(b)
  BY <1>2
<1>4. "TMS.E" \in TimeDecoded /\ "TSRC" \in TimeDecoded
  BY DEF TimeDecoded
<1>5. \A v : \A att \in {"TMS.E", "TSRC"} : States(text, k, att, v) <=> Says(b, Len(b), att, v)
  BY <1>4, BlockSays DEF b
<1>6. StatedSource(text, k) = SourceSaid(b, Len(b))
  BY <1>5 DEF StatedSource, SourceSaid
<1>7. OneSource(b, Len(b))
  <2>1. SUFFICES ASSUME Says(b, Len(b), "TSRC", "R"),
                        Says(b, Len(b), "TSRC", "E") \/ Says(b, Len(b), "TMS.E", "T")
                 PROVE  FALSE
    BY DEF OneSource
  <2>2. \A v : \A att \in {"TMS.E", "TSRC"} : Says(b, Len(b), att, v) =>
          \E i \in DOMAIN t : t[i].att = att /\ t[i].v = v
    BY <1>5 DEF States
  <2>3. PICK i \in DOMAIN t : t[i].att = "TSRC" /\ t[i].v = "R"
    BY <2>1, <2>2
  <2>4. i \in Anywhere(t, {"TSRC"})
    BY <2>3 DEF Anywhere
  <2>5. CASE Says(b, Len(b), "TSRC", "E")
    <3>1. PICK j \in DOMAIN t : t[j].att = "TSRC" /\ t[j].v = "E"
      BY <2>2, <2>5
    <3>2. j \in Anywhere(t, {"TSRC"})
      BY <3>1 DEF Anywhere
    <3>3. \A x, y \in Anywhere(t, {"TSRC"}) : x = y
      BY <1>1 DEF Orderly
    <3> HIDE DEF t
    <3>4. i = j
      BY <2>4, <3>2, <3>3
    <3>5. QED
      BY <2>3, <3>1, <3>4
  <2>6. CASE Says(b, Len(b), "TMS.E", "T")
    <3>1. PICK j \in DOMAIN t : t[j].att = "TMS.E" /\ t[j].v = "T"
      BY <2>2, <2>6
    <3>2. j \in Anywhere(t, {"TMS.E"})
      BY <3>1 DEF Anywhere
    <3>3. \A x \in Anywhere(t, {"TSRC"}), y \in Anywhere(t, {"TMS.E"}) : ~(t[x].v = "R" /\ t[y].v = "T")
      BY <1>1 DEF Orderly
    <3> HIDE DEF t
    <3>4. QED
      BY <2>3, <2>4, <3>1, <3>2, <3>3
  <2>7. QED
    BY <2>1, <2>5, <2>6
<1>8. SourceOf(Decode("time", old, b)) = SourceSaid(b, Len(b))
  BY <1>3, <1>7, SourceRead
<1>9. QED
  BY <1>6, <1>8 DEF b

LEMMA DecodedAsStated ==
  ASSUME NEW text, Expected(text), NEW p \in Opens(Sorted(text)), NEW k, k = Sorted(text)[p].n,
         NEW use, use = Use(text, k), use # "uart", NEW old,
         NEW c, c = Decode(DecodedAs(use), old, Block(Sorted(text), p))
  PROVE  AsStated(text, k, c)
<1>1. ASSUME NEW i \in Told(text, k), NEW f, f = Field(DecodedAs(use), Line(text, i).att)
      PROVE  /\ f \in DOMAIN c
             /\ \E j \in Told(text, k) : Field(DecodedAs(use), Line(text, j).att) = f /\ Line(text, j).v = c[f]
  BY <1>1, FieldsDecoded DEF Line
<1>2. (Cleared(use) \ {"source"}) \cap DOMAIN c \subseteq FieldsTold(text, k)
  BY DefaultsStay
<1>3. use = "time" =>
        StatedSource(text, k) = (IF "source" \in DOMAIN c THEN c["source"] ELSE "internal")
  <2> SUFFICES ASSUME use = "time"
               PROVE  StatedSource(text, k) = (IF "source" \in DOMAIN c THEN c["source"] ELSE "internal")
    OBVIOUS
  <2>1. c = Decode("time", old, Block(Sorted(text), p))
    BY DEF DecodedAs
  <2>2. StatedSource(text, k) = SourceOf(c)
    BY <2>1, SourceAsStated
  <2>3. QED
    BY <2>2 DEF SourceOf
<1>4. \A f \in FieldsTold(text, k) :
        /\ f \in DOMAIN c
        /\ \E j \in Told(text, k) : Field(DecodedAs(use), Line(text, j).att) = f /\ Line(text, j).v = c[f]
  BY <1>1 DEF FieldsTold
<1>5. QED
  BY <1>2, <1>3, <1>4 DEF AsStated

\* The code of a UART, whatever the P-group said of it.
LEMMA LinkAsStated ==
  ASSUME NEW text, Orderly(text), NEW k \in TracksOf(text), TypeOf(text, k) = "UARTIN",
         Use(text, k) = "pcm", NEW c, AsStated(text, k, c)
  PROVE  AsStated(text, k, With(c, "L.D1", "UART"))
<1> DEFINE d == With(c, "L.D1", "UART")
<1>1. /\ DOMAIN d = DOMAIN c \cup {"L.D1"} /\ d["L.D1"] = "UART"
      /\ \A f \in DOMAIN c \ {"L.D1"} : d[f] = c[f]
  BY DEF With
<1> HIDE DEF d
<1>2. /\ \A f \in FieldsTold(text, k) :
           /\ f \in DOMAIN c
           /\ \E j \in Told(text, k) : Field("pcm", Line(text, j).att) = f /\ Line(text, j).v = c[f]
      /\ (Cleared("pcm") \ {"source"}) \cap DOMAIN c \subseteq FieldsTold(text, k)
  BY DEF AsStated, DecodedAs
<1>3. \A f \in FieldsTold(text, k) :
        /\ f \in DOMAIN d
        /\ \E j \in Told(text, k) : Field("pcm", Line(text, j).att) = f /\ Line(text, j).v = d[f]
  <2> SUFFICES ASSUME NEW f \in FieldsTold(text, k)
               PROVE  /\ f \in DOMAIN d
                      /\ \E j \in Told(text, k) : Field("pcm", Line(text, j).att) = f /\ Line(text, j).v = d[f]
    OBVIOUS
  <2>1. CASE f # "L.D1"
    BY <1>1, <1>2, <2>1
  <2>2. CASE f = "L.D1"
    <3>1. PICK j \in Told(text, k) : Field("pcm", Line(text, j).att) = f
      BY <1>2
    <3>2. Line(text, j).att = "L.D1"
      BY <2>2, <3>1 DEF Field
    <3>3. Line(text, j).v = "UART"
      BY <3>2 DEF Orderly, Line
    <3>4. QED
      BY <1>1, <2>2, <3>1, <3>3
  <2>3. QED
    BY <2>1, <2>2
<1>4. "L.D1" \notin Cleared("pcm")
  BY DEF Cleared, PcmCleared
<1>5. (Cleared("pcm") \ {"source"}) \cap DOMAIN d \subseteq FieldsTold(text, k)
  BY <1>1, <1>2, <1>4
<1>6. AsStated(text, k, d)
  BY <1>3, <1>5 DEF AsStated, DecodedAs
<1>7. QED
  BY <1>6 DEF d

\* The UART of the controller has the fields of the PCM channel that are its own.
LEMMA UartAsStated ==
  ASSUME NEW text, Expected(text), NEW p \in Opens(Sorted(text)), NEW k, k = Sorted(text)[p].n,
         Use(text, k) = "uart", NEW old, NEW uart
  PROVE  AsStated(text, k, TakenOver(Decode("pcm", old, Block(Sorted(text), p)), uart))
<1> DEFINE c == Decode("pcm", old, Block(Sorted(text), p))
           d == TakenOver(c, uart)
<1>1. \A f \in Kept \cap DOMAIN c : f \in DOMAIN d /\ d[f] = c[f]
  <2> HIDE DEF c
  <2>1. QED BY DEF TakenOver, Kept
<1> HIDE DEF c, d
<1>2. DecodedAs("uart") = "pcm"
  BY DEF DecodedAs
<1>3. ASSUME NEW f \in FieldsTold(text, k), f \in Kept
      PROVE  /\ f \in DOMAIN d
             /\ \E j \in Told(text, k) : Field("pcm", Line(text, j).att) = f /\ Line(text, j).v = d[f]
  <2>1. PICK i \in Told(text, k) : f = Field("pcm", Visible(text)[i].att)
    BY <1>2 DEF FieldsTold, Line
  <2>2. Visible(text)[i].att \notin LinkAtts
    BY <1>3, <2>1, LinkFields
  <2>3. /\ f \in DOMAIN c
        /\ \E j \in Told(text, k) : Field("pcm", Visible(text)[j].att) = f /\ Visible(text)[j].v = c[f]
    BY <1>2, <2>1, <2>2, FieldsDecoded DEF c
  <2>4. f \in DOMAIN d /\ d[f] = c[f]
    BY <1>1, <1>3, <2>3
  <2>5. QED
    BY <2>3, <2>4 DEF Line
<1>4. AsStated(text, k, d)
  BY <1>2, <1>3 DEF AsStated
<1>5. QED
  BY <1>4 DEF d, c

-----------------------------------------------------------------------------
(* Track after track, each in a channel of its own.                        *)

\* One track at most has a use that has one channel.
LEMMA AloneInUse ==
  ASSUME NEW text, Expected(text), NEW p \in Opens(Sorted(text)), NEW r \in Opens(Sorted(text)),
         NEW use \in {"dm", "uart", "time", "eth"},
         Use(text, Sorted(text)[p].n) = use, Use(text, Sorted(text)[r].n) = use
  PROVE  p = r
<1> DEFINE t == Visible(text)
           s == Sorted(text)
           k == s[p].n
           m == s[r].n
<1>1. WellFormed(text) /\ Orderly(text)
  BY DEF Expected
<1>2. /\ k \in TracksOf(text) /\ m \in TracksOf(text) /\ k \in Nat /\ m \in Nat
      /\ KindOf(TypeOf(text, k)) = TrackKind(t, k) /\ KindOf(TypeOf(text, m)) = TrackKind(t, m)
  BY <1>1, OpenTracks
<1>3. TrackKind(t, k) = KindOfUse(use) /\ TrackKind(t, m) = KindOfUse(use)
  BY Located
<1>4. k = m
  <2>1. CASE use = "dm"
    <3>1. KindOf(TypeOf(text, k)) = "m1553" /\ KindOf(TypeOf(text, m)) = "m1553"
      BY <1>2, <1>3, <2>1 DEF KindOfUse
    <3> HIDE DEF k, m
    <3>2. m <= k /\ k <= m
      BY <1>1, <1>2, <2>1, <3>1 DEF Orderly, k, m
    <3>3. QED
      BY <1>2, <3>2
  <2>2. CASE use = "uart"
    <3>1. KindOf(TypeOf(text, k)) = "pcm" /\ KindOf(TypeOf(text, m)) = "pcm"
      BY <1>2, <1>3, <2>2 DEF KindOfUse
    <3> HIDE DEF k, m
    <3>2. m <= k /\ k <= m
      BY <1>1, <1>2, <2>2, <3>1 DEF Orderly, k, m
    <3>3. QED
      BY <1>2, <3>2
  <2>3. CASE use \in {"time", "eth"}
    <3>1. WellFormedLines(t) /\ Part(t, s, SomeNumbers(t, CopiedKinds))
      BY <1>1, SortedPart DEF WellFormed
    <3>2. PICK i \in DOMAIN t : t[i].att = "CDT" /\ t[i].n = k
      BY <3>1, LooksAhead
    <3>3. PICK j \in DOMAIN t : t[j].att = "CDT" /\ t[j].n = m
      BY <3>1, LooksAhead
    <3>4. TrackType(t, k) = t[i].v /\ TrackType(t, m) = t[j].v
      BY <3>1, <3>2, <3>3, TypeIs
    <3>5. KindOf(t[i].v) = use /\ KindOf(t[j].v) = use
      BY <1>3, <2>3, <3>4 DEF TrackKind, KindOfUse
    <3>6. i \in CdtsOf(t, use) /\ j \in CdtsOf(t, use)
      BY <3>2, <3>3, <3>5 DEF CdtsOf
    <3>7. i = j
      BY <2>3, <3>1, <3>6 DEF WellFormedLines
    <3>8. QED
      BY <3>2, <3>3, <3>7
  <2>4. QED
    BY <2>1, <2>2, <2>3
<1>5. QED
  BY <1>1, <1>4, OpensApart

LEMMA FirstOfUse ==
  ASSUME NEW text, Expected(text), NEW p \in Opens(Sorted(text)),
         NEW use \in {"dm", "uart", "time", "eth"}, Use(text, Sorted(text)[p].n) = use
  PROVE  Cardinality(Passed(text, p - 1, use)) = 0
<1>1. ASSUME NEW r \in Opens(Sorted(text)), r <= p - 1, Use(text, Sorted(text)[r].n) = use
      PROVE  FALSE
  <2>1. r = p
    BY <1>1, AloneInUse
  <2>2. p \in Nat
    BY OpensAreNumbers DEF Expected
  <2>3. QED
    BY <1>1, <2>1, <2>2
<1>2. Passed(text, p - 1, use) = {}
  BY <1>1 DEF Passed
<1>3. QED
  BY <1>2, FS_EmptySet

\* The entry a track of a kind is decoded into.
Entry(n, kind) == <<kind, IF kind \in {"time", "eth"} THEN 0 ELSE n[kind]>>

\* What decoding a track does to the configuration.
Wrote(c, n, block, type, d) ==
  LET kind == KindOf(type)
      use == BlockUse(block, type)
      own == c[Entry(n, kind)]
  IN  /\ DOMAIN d = Slots
      /\ \A s \in Slots : d[s] = c[s] \/ s = Entry(n, kind) \/ (s = <<"dm", 0>> /\ kind = "m1553")
                            \/ (s = <<"uart", 0>> /\ use = "uart")
      /\ use = "dm" /\ <<"dm", 0>> \in Slots => d[<<"dm", 0>>] = Decode("dm", c[<<"dm", 0>>], block)
      /\ use = "uart" /\ <<"uart", 0>> \in Slots =>
           d[<<"uart", 0>>] = TakenOver(Decode("pcm", own, block), c[<<"uart", 0>>])
      /\ use = "pcm" => d[Entry(n, kind)] \in
           {Decode("pcm", own, block)} \cup
             {x \in {With(Decode("pcm", own, block), "L.D1", "UART")} : type = "UARTIN"}
      /\ use \notin {"dm", "uart", "pcm"} => d[Entry(n, kind)] = Decode(kind, own, block)

LEMMA BlockWrites ==
  ASSUME NEW c, DOMAIN c = Slots, NEW n, NEW names,
         NEW block \in Seq(Copyable), Len(block) >= 1, block[1].att = "TK1",
         \A a \in 2..Len(block) : block[a].att # "TK1",
         NEW type \in ChannelTypes, Entry(n, KindOf(type)) \in Slots
  PROVE  \E d : /\ Wrote(c, n, block, type, d)
                /\ DecodeBlock(Progress(c, n, names), block, type)
                     = Progress(d, OneMore(n, BlockUse(block, type)),
                                   Named(names, block[1].v, BlockUse(block, type)))
<1> DEFINE kind == KindOf(type)
           use == BlockUse(block, type)
           P(d) == Progress(d, OneMore(n, use), Named(names, block[1].v, use))
           q == Progress(c, n, names)
           slot == Entry(n, kind)
<1>1. q.config = c /\ q.n = n /\ \A d : [q EXCEPT !.config = d] = Progress(d, n, names)
  BY DEF Progress
<1>2. ASSUME NEW d PROVE Counted([q EXCEPT !.config = d], use, block[1].v) = P(d)
  <2>1. [q EXCEPT !.config = d] = Progress(d, n, names)
    BY <1>1
  <2> HIDE DEF q, use
  <2>2. Counted(Progress(d, n, names), use, block[1].v) = P(d)
    BY CountedIs
  <2>3. QED
    <3> HIDE DEF P
    <3>1. QED BY <2>1, <2>2
<1>3. kind \in CopiedKinds
  BY KindOfTypes
<1>4. ASSUME NEW k \in DecoderKinds, NEW chan PROVE Decode(k, chan, block)["TK1"] = block[1].v
  BY IdOfBlock
<1>5. slot \in Slots
  OBVIOUS
<1> HIDE DEF q
<1>6. CASE kind = "m1553"
  <2> DEFINE own == <<"m1553", n["m1553"]>>
             x == Decode("m1553", c[own], block)
             y == Decode("dm", c[<<"dm", 0>>], block)
             d == [c EXCEPT ![own] = x, ![<<"dm", 0>>] = y]
             d2 == [c EXCEPT ![own] = Decode("m1553", @, block), ![<<"dm", 0>>] = Decode("dm", @, block)]
  <2>1. own \in Slots /\ own # <<"dm", 0>> /\ slot = own
    BY <1>5, <1>6 DEF Entry
  <2>2. DecodeBlock(q, block, type) = DecodeM1553(q, block)
    BY <1>6 DEF DecodeBlock
  <2>3. use = IF Has(block, "DTF") \/ Has(block, "DMSK") THEN "dm" ELSE "m1553"
    BY <1>6 DEF BlockUse
  <2>4. DecodeM1553(q, block) = Counted([q EXCEPT !.config = d2], use, d2[own]["TK1"])
    BY <1>1, <2>3 DEF DecodeM1553
  <2>5. d2 = d
    <3> HIDE DEF own
    <3>1. QED BY <2>1
  <2>6. /\ DOMAIN d = Slots /\ d[own] = x /\ \A s \in Slots : d[s] = c[s] \/ s = own \/ s = <<"dm", 0>>
        /\ <<"dm", 0>> \in Slots => d[<<"dm", 0>>] = y
    <3> HIDE DEF own, x, y
    <3>1. QED BY <2>1
  <2>7. d[own]["TK1"] = block[1].v
    <3>1. x["TK1"] = block[1].v
      BY <1>4 DEF DecoderKinds
    <3> HIDE DEF x, d
    <3>2. QED BY <2>6, <3>1
  <2> HIDE DEF d, d2, own, use
  <2>8. DecodeBlock(q, block, type) = P(d)
    BY <1>2, <2>2, <2>4, <2>5, <2>7
  <2>9. Wrote(c, n, block, type, d)
    <3>1. use \in {"dm", "m1553"}
      BY <2>3
    <3> HIDE DEF slot
    <3>2. QED BY <1>6, <2>1, <2>6, <3>1 DEF Wrote, slot, use
  <2>10. QED
    BY <2>8, <2>9 DEF q, use
<1>7. CASE kind = "pcm"
  <2> DEFINE own == <<"pcm", n["pcm"]>>
             chan == Decode("pcm", c[own], block)
             mine == HasValue(block, "CUCE", "T")
             code == IF type = "UARTIN" /\ ~mine THEN With(chan, "L.D1", "UART") ELSE chan
             z == IF type = "UARTIN" /\ mine THEN TakenOver(chan, c[<<"uart", 0>>]) ELSE c[<<"uart", 0>>]
             d == [c EXCEPT ![own] = code, ![<<"uart", 0>>] = z]
             d2 == [c EXCEPT ![own] = code,
                      ![<<"uart", 0>>] = IF type = "UARTIN" /\ mine THEN TakenOver(chan, @) ELSE @]
  <2>1. own \in Slots /\ own # <<"uart", 0>> /\ slot = own
    BY <1>5, <1>7 DEF Entry
  <2>2. DecodeBlock(q, block, type) = DecodePcm(q, block, type)
    BY <1>7 DEF DecodeBlock
  <2>3. use = IF type = "UARTIN" /\ mine THEN "uart" ELSE "pcm"
    BY <1>7 DEF BlockUse
  <2>4. DecodePcm(q, block, type) = Counted([q EXCEPT !.config = d2], use, chan["TK1"])
    BY <1>1, <2>3 DEF DecodePcm
  <2>5. d2 = d
    <3> HIDE DEF own, chan, mine, code
    <3>1. QED BY <2>1
  <2>6. /\ DOMAIN d = Slots /\ d[own] = code
        /\ \A s \in Slots : d[s] = c[s] \/ s = own \/ s = <<"uart", 0>>
        /\ <<"uart", 0>> \in Slots => d[<<"uart", 0>>] = z
    <3> HIDE DEF own, code, z
    <3>1. QED BY <2>1
  <2>7. chan["TK1"] = block[1].v
    BY <1>4 DEF DecoderKinds
  <2> HIDE DEF d, d2, own, use, chan, mine
  <2>8. DecodeBlock(q, block, type) = P(d)
    BY <1>2, <2>2, <2>4, <2>5, <2>7
  <2>9. Wrote(c, n, block, type, d)
    <3>1. use \in {"uart", "pcm"} /\ chan = Decode("pcm", c[slot], block)
      BY <2>1, <2>3 DEF chan
    <3>2. use = "uart" /\ <<"uart", 0>> \in Slots => d[<<"uart", 0>>] = TakenOver(chan, c[<<"uart", 0>>])
      BY <2>3, <2>6
    <3>3. use = "pcm" => d[slot] \in {chan} \cup {x \in {With(chan, "L.D1", "UART")} : type = "UARTIN"}
      BY <2>1, <2>3, <2>6
    <3>4. \A s \in Slots : d[s] = c[s] \/ s = slot \/ (s = <<"uart", 0>> /\ use = "uart")
      BY <2>1, <2>3, <2>6
    <3> HIDE DEF slot
    <3>5. QED BY <1>7, <2>6, <3>1, <3>2, <3>3, <3>4 DEF Wrote, slot, use
  <2>10. QED
    BY <2>8, <2>9 DEF q, use
<1>8. CASE kind \notin {"m1553", "pcm"}
  <2> DEFINE x == Decode(kind, c[slot], block)
             d == [c EXCEPT ![slot] = x]
  <2>1. kind \in DecoderKinds /\ use = kind
    BY <1>3, <1>8 DEF CopiedKinds, DecoderKinds, BlockUse
  <2>2. DOMAIN d = Slots /\ d[slot] = x /\ \A s \in Slots : d[s] = c[s] \/ s = slot
    <3> HIDE DEF slot, x
    <3>1. QED BY <1>5
  <2>3. d[slot]["TK1"] = block[1].v
    BY <1>4, <2>1, <2>2
  <2>4. DecodeBlock(q, block, type) = Counted([q EXCEPT !.config = d], kind, d[slot]["TK1"])
    BY <1>1, <1>8 DEF DecodeBlock, Entry
  <2>5. Wrote(c, n, block, type, d)
    <3>1. kind \notin {"dm", "uart", "pcm"}
      BY <1>3, <1>8 DEF CopiedKinds
    <3> HIDE DEF slot, x, d, use
    <3>2. QED BY <2>1, <2>2, <3>1 DEF Wrote, slot, x, use
  <2> HIDE DEF d, slot, use, kind
  <2>6. DecodeBlock(q, block, type) = P(d)
    BY <1>2, <2>1, <2>3, <2>4
  <2>7. QED
    BY <2>5, <2>6 DEF q, use
<1>9. QED
  BY <1>6, <1>7, <1>8

\* When m lines are parsed the channels of the tracks passed are as the text states.
Configured(text, m, c) ==
  \A r \in Opens(Sorted(text)) : r <= m =>
    AsStated(text, Sorted(text)[r].n, c[SlotOf(text, Sorted(text)[r].n)])
Stated(text, m, q) ==
  \E c, n, names : /\ q = Progress(c, n, names) /\ DOMAIN c = Slots
                   /\ CountsFit(text, m, n) /\ CountsAre(text, m, n) /\ Configured(text, m, c)

\* Decoding a track leaves the channels of those before it.
LEMMA OthersStay ==
  ASSUME NEW text, Expected(text), NEW p \in Opens(Sorted(text)), NEW r \in Opens(Sorted(text)), r < p,
         NEW n, CountsAre(text, p - 1, n), NEW k, k = Sorted(text)[r].n,
         NEW kind, kind = TrackKind(Visible(text), Sorted(text)[p].n)
  PROVE  /\ SlotOf(text, k) # Entry(n, kind)
         /\ SlotOf(text, k) = <<"dm", 0>> => kind # "m1553"
         /\ SlotOf(text, k) = <<"uart", 0>> => Use(text, Sorted(text)[p].n) # "uart"
<1> DEFINE s == Sorted(text)
           use == Use(text, k)
           x == Cardinality(Passed(text, r - 1, use))
           mine == Use(text, s[p].n)
<1>1. WellFormed(text) /\ Orderly(text) /\ p \in Nat /\ r \in Nat /\ p - 1 \in Nat /\ r <= p - 1 /\ p # r
  BY OpensAreNumbers DEF Expected
<1>2. SlotOf(text, k) = <<use, x>>
  BY SlotIs
<1>3. /\ use \in CopiedKinds \cup {"dm", "uart"} /\ KindOfUse(use) = TrackKind(Visible(text), k)
      /\ mine \in CopiedKinds \cup {"dm", "uart"} /\ KindOfUse(mine) = kind
  BY Located
<1>4. use \in Kinds /\ kind \in Kinds
  BY <1>3 DEF Kinds, CopiedKinds, KindOfUse
<1>5. x < Cardinality(Passed(text, p - 1, use)) /\ n[use] = Cardinality(Passed(text, p - 1, use))
  BY <1>1, <1>4, PassedMore DEF CountsAre
<1>6. x \in Nat /\ n[use] \in Nat
  <2>1. r - 1 \in Nat
    BY OpensAreNumbers, <1>1 DEF Expected
  <2>2. QED
    BY <1>1, <1>4, <2>1, PassedFinite DEF CountsAre
<1> HIDE DEF use, x, mine
<1>7. SlotOf(text, k) # Entry(n, kind)
  <2> SUFFICES ASSUME <<use, x>> = Entry(n, kind) PROVE FALSE
    BY <1>2
  <2>1. use = kind /\ x = IF kind \in {"time", "eth"} THEN 0 ELSE n[kind]
    BY DEF Entry
  <2>2. kind \in {"time", "eth"}
    BY <1>5, <1>6, <2>1
  <2>3. mine = kind
    BY <1>3, <2>2 DEF KindOfUse
  <2>4. QED
    BY <1>1, <2>1, <2>2, <2>3, AloneInUse DEF use, mine
<1>8. SlotOf(text, k) = <<"dm", 0>> => kind # "m1553"
  <2> SUFFICES ASSUME use = "dm", kind = "m1553" PROVE FALSE
    BY <1>2
  <2>1. TrackKind(Visible(text), k) = kind
    BY <1>3 DEF KindOfUse
  <2>2. k < s[p].n
    BY <2>1, OpensRise
  <2>3. /\ s[p].n \in TracksOf(text) /\ k \in TracksOf(text) /\ s[p].n \in Nat /\ k \in Nat
        /\ KindOf(TypeOf(text, s[p].n)) = kind
    BY <1>1, OpenTracks
  <2>4. s[p].n <= k
    BY <1>1, <2>3 DEF Orderly, use
  <2>5. QED
    BY <2>2, <2>3, <2>4
<1>9. SlotOf(text, k) = <<"uart", 0>> => mine # "uart"
  <2> SUFFICES ASSUME use = "uart", mine = "uart" PROVE FALSE
    BY <1>2
  <2>1. QED
    BY <1>1, AloneInUse DEF use, mine
<1>10. QED
  BY <1>7, <1>8, <1>9 DEF mine

\* One track parsed: its channel is as the text states it, those before it stay so.
LEMMA ConfiguredOn ==
  ASSUME NEW text, Expected(text), NEW p \in Opens(Sorted(text)), NEW n, CountsAre(text, p - 1, n),
         NEW c, DOMAIN c = Slots, Configured(text, p - 1, c), NEW d,
         Wrote(c, n, Block(Sorted(text), p), LookAhead(Sorted(text), p), d)
  PROVE  Configured(text, p, d)
<1> DEFINE s == Sorted(text)
           k == s[p].n
           b == Block(s, p)
           type == LookAhead(s, p)
           use == Use(text, k)
           kind == KindOf(type)
           own == c[Entry(n, kind)]
<1>1. WellFormed(text) /\ Orderly(text)
  BY DEF Expected
<1>2. /\ k \in TracksOf(text) /\ TypeOf(text, k) = type /\ kind = TrackKind(Visible(text), k)
      /\ use \in CopiedKinds \cup {"dm", "uart"}
  BY <1>1, OpenTracks
<1>3. BlockUse(b, type) = use
  BY <1>1, UseIs
<1>4. KindOfUse(use) = kind
  BY <1>2, Located
<1>5. \A r \in Opens(s) : r \in Nat
  BY <1>1, OpensAreNumbers
<1>6. SlotOf(text, k) = <<use, Cardinality(Passed(text, p - 1, use))>> /\ SlotOf(text, k) \in Slots
  BY <1>1, <1>2, SlotIs DEF Orderly
<1>7. \A r \in Opens(s) : SlotOf(text, s[r].n) \in Slots
  BY <1>1, OpenTracks DEF Orderly
<1>8. use \in Kinds
  BY <1>2 DEF Kinds, CopiedKinds
<1> HIDE DEF kind, use, type, b, k
<1>9. /\ \A e \in Slots : d[e] = c[e] \/ e = Entry(n, kind) \/ (e = <<"dm", 0>> /\ kind = "m1553")
                            \/ (e = <<"uart", 0>> /\ use = "uart")
      /\ use = "dm" /\ <<"dm", 0>> \in Slots => d[<<"dm", 0>>] = Decode("dm", c[<<"dm", 0>>], b)
      /\ use = "uart" /\ <<"uart", 0>> \in Slots =>
           d[<<"uart", 0>>] = TakenOver(Decode("pcm", own, b), c[<<"uart", 0>>])
      /\ use = "pcm" => d[Entry(n, kind)] \in
           {Decode("pcm", own, b)} \cup {x \in {With(Decode("pcm", own, b), "L.D1", "UART")} : type = "UARTIN"}
      /\ use \notin {"dm", "uart", "pcm"} => d[Entry(n, kind)] = Decode(kind, own, b)
  <2>1. Wrote(c, n, b, type, d)
    BY DEF b, type
  <2> HIDE DEF own, s
  <2>2. QED
    BY <1>3, <2>1 DEF Wrote, kind, own
<1>10. ASSUME NEW r \in Opens(s), r <= p - 1
       PROVE  AsStated(text, s[r].n, d[SlotOf(text, s[r].n)])
  <2> DEFINE e == SlotOf(text, s[r].n)
  <2>1. r < p
    BY <1>5, <1>10
  <2>2. /\ e # Entry(n, kind) /\ (e = <<"dm", 0>> => kind # "m1553")
        /\ (e = <<"uart", 0>> => use # "uart")
    BY <1>2, <2>1, OthersStay DEF use, k
  <2>3. e \in Slots
    BY <1>7
  <2>4. AsStated(text, s[r].n, c[e])
    BY <1>10 DEF Configured
  <2> HIDE DEF e
  <2>5. d[e] = c[e]
    BY <1>9, <2>2, <2>3
  <2>6. QED
    BY <2>4, <2>5 DEF e
<1>11. k = s[p].n /\ use = Use(text, k) /\ b = Block(s, p)
  BY DEF k, use, b
<1>12. ASSUME use \in {"dm", "uart", "time", "eth"} PROVE SlotOf(text, k) = <<use, 0>>
  BY <1>6, <1>11, <1>12, FirstOfUse
<1>13. ASSUME use \notin {"dm", "uart", "time", "eth"} PROVE SlotOf(text, k) = Entry(n, kind) /\ kind = use
  <2>1. kind = use
    BY <1>4, <1>13 DEF KindOfUse
  <2>2. n[use] = Cardinality(Passed(text, p - 1, use))
    BY <1>8 DEF CountsAre
  <2>3. QED
    BY <1>6, <1>13, <2>1, <2>2 DEF Entry
<1>14. AsStated(text, k, d[SlotOf(text, k)])
  <2>1. CASE use = "dm"
    <3>1. d[SlotOf(text, k)] = Decode("dm", c[<<"dm", 0>>], b)
      BY <1>6, <1>9, <1>12, <2>1
    <3>2. DecodedAs("dm") = "dm"
      BY DEF DecodedAs
    <3>3. QED
      BY <1>11, <2>1, <3>1, <3>2, DecodedAsStated
  <2>2. CASE use = "uart"
    <3>1. d[SlotOf(text, k)] = TakenOver(Decode("pcm", own, b), c[<<"uart", 0>>])
      BY <1>6, <1>9, <1>12, <2>2
    <3>2. QED
      BY <1>11, <2>2, <3>1, UartAsStated
  <2>3. CASE use = "pcm"
    <3>1. AsStated(text, k, Decode("pcm", own, b))
      <4>1. DecodedAs("pcm") = "pcm"
        BY DEF DecodedAs
      <4>2. QED
        BY <1>11, <2>3, <4>1, DecodedAsStated
    <3>2. \/ d[SlotOf(text, k)] = Decode("pcm", own, b)
          \/ type = "UARTIN" /\ d[SlotOf(text, k)] = With(Decode("pcm", own, b), "L.D1", "UART")
      BY <1>9, <1>13, <2>3
    <3> HIDE DEF own
    <3>3. QED
      BY <1>1, <1>2, <1>11, <2>3, <3>1, <3>2, LinkAsStated
  <2>4. CASE use \in {"time", "eth"}
    <3>1. kind = use
      BY <1>4, <2>4 DEF KindOfUse
    <3>2. SlotOf(text, k) = Entry(n, kind)
      BY <1>12, <2>4, <3>1 DEF Entry
    <3>3. d[SlotOf(text, k)] = Decode(DecodedAs(use), own, b)
      BY <1>9, <2>4, <3>1, <3>2 DEF DecodedAs
    <3>4. QED
      BY <1>11, <2>4, <3>3, DecodedAsStated
  <2>5. CASE use \notin {"dm", "uart", "time", "eth", "pcm"}
    <3>1. d[SlotOf(text, k)] = Decode(DecodedAs(use), own, b)
      BY <1>9, <1>13, <2>5 DEF DecodedAs
    <3>2. QED
      BY <1>11, <2>5, <3>1, DecodedAsStated
  <2>6. QED
    BY <2>1, <2>2, <2>3, <2>4, <2>5
<1>15. \A r \in Opens(s) : r <= p => r <= p - 1 \/ r = p
  <2> HIDE DEF s
  <2>1. p \in Opens(s)
    BY DEF s
  <2>2. QED
    BY <1>5, <2>1
<1>16. QED
  BY <1>10, <1>14, <1>15 DEF Configured, k

LEMMA StatedOn ==
  ASSUME NEW text, Expected(text), NEW m \in Nat, m + 1 \in Opens(Sorted(text)),
         NEW q, Stated(text, m, q)
  PROVE  Stated(text, m + 1,
                DecodeBlock(q, Block(Sorted(text), m + 1), LookAhead(Sorted(text), m + 1)))
<1> DEFINE t == Visible(text)
           s == Sorted(text)
           p == m + 1
           b == Block(s, p)
           type == LookAhead(s, p)
           use == Use(text, s[p].n)
           kind == TrackKind(t, s[p].n)
<1>1. WellFormed(text) /\ WellFormedLines(t) /\ Part(t, s, SomeNumbers(t, CopiedKinds))
  BY SortedPart DEF Expected, WellFormed
<1>2. PICK c, n, names : /\ q = Progress(c, n, names) /\ DOMAIN c = Slots
                         /\ CountsFit(text, m, n) /\ CountsAre(text, m, n) /\ Configured(text, m, c)
  BY DEF Stated
<1>3. p \in Opens(s) /\ p \in DOMAIN s /\ s \in Seq(Copyable) /\ s[p].att = "TK1" /\ p - 1 = m
  BY <1>1, OpensAreNumbers
<1>4. /\ b \in Seq(Copyable) /\ Len(b) >= 1 /\ b[1] = s[p]
      /\ \A a \in 2..Len(b) : b[a].att # "TK1"
  BY <1>3, InBlock
<1>5. type \in ChannelTypes /\ KindOf(type) = kind
  BY <1>1, <1>3, LooksAhead DEF TrackKind
<1>6. BlockUse(b, type) = use
  BY <1>1, <1>3, UseIs
<1>7. /\ kind \in CopiedKinds /\ Place(t, s[p].n) \in Nat /\ 0 < Place(t, s[p].n)
      /\ \A x \in Nat : x < Place(t, s[p].n) => <<kind, x>> \in Slots
  BY <1>1, <1>3, RoomForTrack
<1>8. n \in [Kinds -> Nat] /\ n[kind] < Place(t, s[p].n)
  BY <1>2, <1>3 DEF CountsFit
<1>9. Entry(n, kind) \in Slots
  <2>1. n[kind] \in Nat
    BY <1>7, <1>8 DEF Kinds, CopiedKinds
  <2> HIDE DEF kind
  <2>2. QED
    BY <1>7, <1>8, <2>1 DEF Entry
<1>10. use \in {"dm", "uart", kind} /\ use \in Kinds
  <2>1. use \in {"dm", "uart", kind}
    BY <1>5, <1>6, BlockUseIs
  <2>2. QED
    BY <1>7, <2>1 DEF Kinds, CopiedKinds
<1>11. Entry(n, KindOf(type)) \in Slots
  <2> HIDE DEF kind, type
  <2>1. QED BY <1>5, <1>9
<1>12. b[1].att = "TK1"
  BY <1>3, <1>4
<1> HIDE DEF b, type, use, kind, p, s, t
<1>13. \E d : /\ Wrote(c, n, b, type, d)
              /\ DecodeBlock(Progress(c, n, names), b, type)
                   = Progress(d, OneMore(n, BlockUse(b, type)), Named(names, b[1].v, BlockUse(b, type)))
  BY <1>2, <1>4, <1>5, <1>11, <1>12, BlockWrites
<1>14. PICK d : /\ Wrote(c, n, b, type, d)
                /\ DecodeBlock(q, b, type) = Progress(d, OneMore(n, use), Named(names, s[p].v, use))
  BY <1>2, <1>4, <1>6, <1>13
<1>15. DOMAIN d = Slots
  BY <1>14 DEF Wrote
<1>16. CountsFit(text, p, OneMore(n, use))
  BY <1>1, <1>2, <1>10, CountsFitOn DEF p, s, t, kind
<1>17. CountsAre(text, p, OneMore(n, use))
  BY <1>1, <1>2, <1>10, CountsOn DEF p, s, use
<1>18. Configured(text, p, d)
  BY <1>2, <1>3, <1>14, ConfiguredOn DEF b, type, s
<1>19. Stated(text, p, DecodeBlock(q, b, type))
  BY <1>14, <1>15, <1>16, <1>17, <1>18 DEF Stated
<1>20. QED
  BY <1>19 DEF b, type, p, s

LEMMA StatedOver ==
  ASSUME NEW text, Expected(text), NEW m \in Nat, m + 1 \notin Opens(Sorted(text)),
         NEW q, Stated(text, m, q)
  PROVE  Stated(text, m + 1, q)
<1> DEFINE s == Sorted(text)
<1>1. WellFormed(text) /\ \A r \in Opens(s) : r \in Nat /\ r # m + 1
  BY OpensAreNumbers DEF Expected
<1> HIDE DEF s
<1>2. \A r \in Opens(s) : (r > m + 1 => r > m) /\ (r <= m + 1 => r <= m)
  BY <1>1
<1>3. PICK c, n, names : /\ q = Progress(c, n, names) /\ DOMAIN c = Slots
                         /\ CountsFit(text, m, n) /\ CountsAre(text, m, n) /\ Configured(text, m, c)
  BY DEF Stated
<1>4. CountsFit(text, m + 1, n)
  BY <1>2, <1>3 DEF CountsFit, s
<1>5. CountsAre(text, m + 1, n)
  BY <1>1, <1>3, CountsOver
<1>6. Configured(text, m + 1, c)
  BY <1>2, <1>3 DEF Configured, s
<1>7. QED
  BY <1>3, <1>4, <1>5, <1>6 DEF Stated

\* The parse of a whole sorted text.
LEMMA AllStated ==
  ASSUME NEW text, Expected(text), NEW c, DOMAIN c = Slots
  PROVE  Stated(text, Len(Sorted(text)),
                DecodeBlocks(Sorted(text), Progress(c, NoChannels, [id \in Ids |-> "none"])))
<1> DEFINE s == Sorted(text)
           N == Len(s)
           first == Progress(c, NoChannels, [id \in Ids |-> "none"])
<1>1. WellFormed(text) /\ N \in Nat /\ \A r \in 1..N : (r \in Opens(s)) <=> (s[r].att = "TK1")
  BY OpensAreNumbers DEF Expected
<1>2. \E after :
        /\ after = [i \in 0..N |->
             IF i = 0 THEN first
             ELSE IF s[i].att = "TK1"
                  THEN DecodeBlock(after[i - 1], Block(s, i), LookAhead(s, i))
                  ELSE after[i - 1]]
        /\ DecodeBlocks(s, first) = after[N]
  <2> HIDE DEF first, s
  <2>1. QED BY <1>1, BlocksDecoded
<1>3. PICK after :
        /\ after = [i \in 0..N |->
             IF i = 0 THEN first
             ELSE IF s[i].att = "TK1"
                  THEN DecodeBlock(after[i - 1], Block(s, i), LookAhead(s, i))
                  ELSE after[i - 1]]
        /\ DecodeBlocks(s, first) = after[N]
  BY <1>2
<1> DEFINE S == {m \in Nat : m <= N => Stated(text, m, after[m])}
<1>4. 0 \in S
  <2>1. after[0] = first
    BY <1>1, <1>3
  <2>2. NoChannels \in [Kinds -> Nat] /\ \A kind \in Kinds : NoChannels[kind] = 0
    BY DEF NoChannels
  <2>3. CountsFit(text, 0, NoChannels)
    <3>1. ASSUME NEW r \in Opens(s)
          PROVE  /\ TrackKind(Visible(text), s[r].n) \in Kinds
                 /\ 0 < Place(Visible(text), s[r].n)
      BY <1>1, RoomForTrack DEF Kinds, CopiedKinds
    <3>2. QED
      BY <2>2, <3>1 DEF CountsFit
  <2>4. CountsAre(text, 0, NoChannels)
    <3>1. \A use : Cardinality(Passed(text, 0, use)) = 0
      BY <1>1, NonePassed, FS_EmptySet
    <3>2. QED
      BY <2>2, <3>1 DEF CountsAre
  <2>5. Configured(text, 0, c)
    <3>1. \A r \in Opens(s) : ~(r <= 0)
      BY <1>1, OpensAreNumbers
    <3>2. QED
      BY <3>1 DEF Configured
  <2>6. Stated(text, 0, first)
    BY <2>3, <2>4, <2>5 DEF Stated
  <2>7. QED
    BY <2>1, <2>6
<1> HIDE DEF N, first
<1>5. ASSUME NEW m \in Nat, m \in S PROVE m + 1 \in S
  <2> SUFFICES ASSUME m + 1 <= N PROVE Stated(text, m + 1, after[m + 1])
    OBVIOUS
  <2>1. m + 1 \in 0..N /\ m + 1 \in 1..N /\ m + 1 # 0 /\ (m + 1) - 1 = m /\ m <= N
    BY <1>1
  <2>2. Stated(text, m, after[m])
    BY <1>5, <2>1
  <2>3. after[m + 1] = IF s[m + 1].att = "TK1"
                       THEN DecodeBlock(after[m], Block(s, m + 1), LookAhead(s, m + 1))
                       ELSE after[m]
    <3> HIDE DEF s
    <3>1. QED BY <1>3, <2>1
  <2>4. (m + 1 \in Opens(s)) <=> (s[m + 1].att = "TK1")
    BY <1>1, <2>1
  <2>5. CASE s[m + 1].att = "TK1"
    BY <2>2, <2>3, <2>4, <2>5, StatedOn
  <2>6. CASE s[m + 1].att # "TK1"
    BY <2>2, <2>3, <2>4, <2>6, StatedOver
  <2>7. QED
    BY <2>5, <2>6
<1>6. N \in S
  <2> HIDE DEF S
  <2>1. QED BY <1>1, <1>4, <1>5, InductionBySet
<1>7. Stated(text, N, after[N])
  BY <1>1, <1>6
<1>8. QED
  BY <1>3, <1>7 DEF N, first

\* A setting, a conversion, an event or a bus is not a channel.
LEMMA EnteredApart ==
  ASSUME NEW c, NEW l, NEW e, e[1] \in Kinds
  PROVE  Entered(c, l)[e] = c[e]
<1>1. EntryOf(l)[1] \in {"general", "event", "conversion", "bus", "none"}
  BY DEF EntryOf
<1>2. EntryOf(l) # e
  BY <1>1 DEF Kinds
<1>3. \A f, x : f # e => [c EXCEPT ![f] = x][e] = c[e]
  OBVIOUS
<1>4. QED
  BY <1>2, <1>3 DEF Entered

LEMMA SettleApart ==
  ASSUME NEW c, NEW lines, Len(lines) \in Nat, NEW e, e[1] \in Kinds
  PROVE  Settle(c, lines)[e] = c[e]
<1> DEFINE N == Len(lines)
<1>1. PICK after : /\ after = [i \in 0..N |-> IF i = 0 THEN c ELSE Entered(after[i - 1], lines[i])]
                   /\ Settle(c, lines) = after[N]
  BY LinesSettled
<1> DEFINE S == {m \in Nat : m <= N => after[m][e] = c[e]}
<1> HIDE DEF N
<1>2. N \in Nat
  BY DEF N
<1>3. 0 \in S
  BY <1>1, <1>2
<1>4. ASSUME NEW m \in Nat, m \in S PROVE m + 1 \in S
  <2> SUFFICES ASSUME m + 1 <= N PROVE after[m + 1][e] = c[e]
    OBVIOUS
  <2>1. m + 1 \in 0..N /\ m + 1 # 0 /\ (m + 1) - 1 = m /\ m <= N
    BY <1>2
  <2>2. after[m + 1] = Entered(after[m], lines[m + 1])
    BY <1>1, <2>1
  <2>3. after[m][e] = c[e]
    BY <1>4, <2>1
  <2>4. QED
    BY <2>2, <2>3, EnteredApart
<1>5. N \in S
  <2> HIDE DEF S
  <2>1. QED BY <1>2, <1>3, <1>4, InductionBySet
<1>6. QED
  BY <1>1, <1>5, <1>2

\* A file set up: every channel is what its text states.
LEMMA ProcessedChannels ==
  ASSUME NEW text \in Seq(AnyLine), Expected(text), NEW c, DOMAIN c = Slots, NEW k \in TracksOf(text)
  PROVE  AsStated(text, k, Processed(text, c).config[SlotOf(text, k)])
<1>1. PICK d, lines :
        /\ DOMAIN d = DOMAIN c /\ Len(lines) \in Nat
        /\ LET p == DecodeBlocks(Sorted(text), Progress(d, NoChannels, [id \in Ids |-> "none"]))
           IN  Processed(text, c) = [p EXCEPT !.config = Settle(@, lines)]
  BY ProcessedIs
<1>2. Stated(text, Len(Sorted(text)),
             DecodeBlocks(Sorted(text), Progress(d, NoChannels, [id \in Ids |-> "none"])))
  BY <1>1, AllStated
<1>3. PICK e, m, ts :
        /\ DecodeBlocks(Sorted(text), Progress(d, NoChannels, [id \in Ids |-> "none"])) = Progress(e, m, ts)
        /\ Configured(text, Len(Sorted(text)), e)
  BY <1>2 DEF Stated
<1>4. Processed(text, c) = [Progress(e, m, ts) EXCEPT !.config = Settle(@, lines)]
  BY <1>1, <1>3
<1>5. Processed(text, c).config = Settle(e, lines)
  BY <1>4 DEF Progress
<1>6. WellFormed(text)
  BY DEF Expected
<1>7. PICK p \in Opens(Sorted(text)) : Sorted(text)[p].n = k
  BY <1>6, TracksFound
<1>8. p <= Len(Sorted(text))
  BY <1>6, OpensAreNumbers
<1>9. AsStated(text, k, e[SlotOf(text, k)])
  BY <1>3, <1>7, <1>8 DEF Configured
<1>10. SlotOf(text, k)[1] \in Kinds
  <2>1. SlotOf(text, k)[1] = Use(text, k)
    BY DEF SlotOf
  <2>2. QED
    BY <1>6, <2>1, TracksFound DEF Kinds, CopiedKinds
<1>11. Settle(e, lines)[SlotOf(text, k)] = e[SlotOf(text, k)]
  BY <1>1, <1>10, SettleApart
<1>12. QED
  BY <1>5, <1>9, <1>11

-----------------------------------------------------------------------------
(* The channels of the last setup, whatever the operator does.             *)

\* The files, the buffer and what was loaded are texts; the configuration has its
\* entries; the types and the channels are those of a parse of the text last set up.
FilesAreTexts ==
  /\ disk \in [SetupNumbers -> Seq(AnyLine)]
  /\ buffer \in Seq(AnyLine) /\ loaded \in Seq(AnyLine)
  /\ current \in SetupNumbers /\ saved \in SetupNumbers
TypesOfMade ==
  made # NoText =>
    /\ made \in Seq(AnyLine)
    /\ \E c : /\ DOMAIN c = Slots
              /\ arrayTypes = Processed(made, c).types /\ config = Processed(made, c).config
TypesInv == FilesAreTexts /\ DOMAIN config = Slots /\ TypesOfMade

LEMMA MoreLines ==
  ASSUME NEW text \in Seq(Lines)
  PROVE  text \in Seq(AnyLine)
<1>1. \A i \in 1..Len(text) : text[i] \in AnyLine
  BY DEF AnyLine
<1>2. QED
  BY <1>1

LEMMA OneLineTexts ==
  /\ NoText \in Seq(AnyLine) /\ <<>> \in Seq(AnyLine)
  /\ \A text \in Seq(AnyLine) : Header \o text \in Seq(AnyLine)
<1>1. /\ NoText[1] \in AnyLine /\ NoText = <<NoText[1]>>
      /\ Header[1] \in AnyLine /\ Header = <<Header[1]>>
  BY DEF AnyLine, NoText, Header
<1>2. ASSUME NEW L, NEW x \in L PROVE <<x>> \in Seq(L)
  OBVIOUS
<1> HIDE DEF AnyLine
<1>3. NoText \in Seq(AnyLine) /\ Header \in Seq(AnyLine)
  <2>1. <<NoText[1]>> \in Seq(AnyLine) /\ <<Header[1]>> \in Seq(AnyLine)
    BY <1>1, <1>2
  <2>2. QED
    BY <1>1, <2>1
<1>4. <<>> \in Seq(AnyLine)
  OBVIOUS
<1>5. QED
  BY <1>3, <1>4, TogetherIsText

LEMMA CopiedIsText ==
  ASSUME NEW text \in Seq(AnyLine)
  PROVE  Copied(text) \in Seq(AnyLine)
BY SortedIsText, OneLineTexts DEF Copied

\* A setup, taken or not.
LEMMA TypesTaken ==
  ASSUME NEW text \in Seq(AnyLine), DOMAIN config = Slots, NEW good \in Outcomes(text),
         Take(text, good)
  PROVE  DOMAIN config' = Slots /\ TypesOfMade'
<1> DEFINE read == text # NoText /\ ~Refused(text)
<1>1. /\ config' = IF read THEN Processed(text, config).config ELSE Reset(config)
      /\ arrayTypes' = IF read THEN Processed(text, config).types ELSE Untyped
      /\ made' = IF good THEN text ELSE NoText
  BY DEF Take
<1>2. good => read
  BY DEF Outcomes
<1>3. DOMAIN Reset(config) = DOMAIN config
  BY DEF Reset
<1>4. DOMAIN config' = Slots
  BY <1>1, <1>3, ProcessedKeeps
<1>5. ASSUME made' # NoText
      PROVE  /\ made' = text
             /\ arrayTypes' = Processed(text, config).types /\ config' = Processed(text, config).config
  BY <1>1, <1>2, <1>5
<1>6. TypesOfMade'
  BY <1>5 DEF TypesOfMade
<1>7. QED
  BY <1>4, <1>6

LEMMA SourceIsText ==
  ASSUME FilesAreTexts, NEW k \in SetupNumbers
  PROVE  /\ disk[k] \in Seq(AnyLine) /\ Source(k) \in Seq(AnyLine)
         /\ Fetched(k) # NoText => Fetched(k) \in Seq(AnyLine)
<1>1. disk[k] \in Seq(AnyLine) /\ Source(k) \in Seq(AnyLine)
  BY DEF FilesAreTexts, Source
<1>2. QED
  BY <1>1, OneLineTexts DEF Fetched

LEMMA TypesSetUp ==
  ASSUME TypesInv, NEW k \in SetupNumbers, SetUp(k)
  PROVE  TypesInv'
<1>1. PICK good \in Outcomes(Source(k)) :
        /\ Take(Source(k), good)
        /\ saved' = (IF good THEN k ELSE saved)
  BY DEF SetUp
<1>2. Source(k) \in Seq(AnyLine)
  BY SourceIsText DEF TypesInv
<1>3. DOMAIN config' = Slots /\ TypesOfMade'
  BY <1>1, <1>2, TypesTaken DEF TypesInv
<1>4. FilesAreTexts'
  <2>1. UNCHANGED <<disk, loaded>> /\ current' = k /\ buffer' = Copied(Source(k))
    BY DEF SetUp
  <2>2. QED
    BY <1>1, <1>2, <2>1, CopiedIsText DEF TypesInv, FilesAreTexts
<1>5. QED
  BY <1>3, <1>4 DEF TypesInv

LEMMA TypesStarted ==
  ASSUME TypesInv, StartFromDisk
  PROVE  TypesInv'
<1>1. PICK good \in Outcomes(disk[saved]) :
        LET k == IF good THEN saved ELSE current
        IN  /\ Take(disk[saved], good)
            /\ current' = k
            /\ buffer' = IF disk[k] = NoText THEN Copied(disk[saved]) ELSE Header \o disk[k]
  BY DEF StartFromDisk
<1>2. UNCHANGED <<disk, loaded, saved>>
  BY DEF StartFromDisk
<1>3. \A k \in SetupNumbers : disk[k] \in Seq(AnyLine)
  BY DEF TypesInv, FilesAreTexts
<1>4. saved \in SetupNumbers /\ current \in SetupNumbers
  BY DEF TypesInv, FilesAreTexts
<1>5. DOMAIN config' = Slots /\ TypesOfMade'
  BY <1>1, <1>3, <1>4, TypesTaken DEF TypesInv
<1>6. current' \in SetupNumbers /\ buffer' \in Seq(AnyLine)
  <2> DEFINE k == IF good THEN saved ELSE current
  <2>1. k \in SetupNumbers /\ disk[k] \in Seq(AnyLine)
    BY <1>3, <1>4
  <2>2. Copied(disk[saved]) \in Seq(AnyLine) /\ Header \o disk[k] \in Seq(AnyLine)
    BY <1>3, <1>4, <2>1, CopiedIsText, OneLineTexts
  <2>3. current' = k /\ buffer' = IF disk[k] = NoText THEN Copied(disk[saved]) ELSE Header \o disk[k]
    BY <1>1
  <2> HIDE DEF k
  <2>4. QED
    BY <2>1, <2>2, <2>3
<1>7. QED
  BY <1>2, <1>5, <1>6 DEF TypesInv, FilesAreTexts

LEMMA TypesFromCartridge ==
  ASSUME TypesInv, StartFromCartridge
  PROVE  TypesInv'
<1>1. PICK c \in Cartridges :
        /\ \E good \in Outcomes(c.text) :
             /\ Take(c.text, good)
             /\ saved' = (IF good THEN c.setup ELSE saved)
             /\ current' = (IF good THEN c.setup ELSE current)
        /\ loaded' = c.text /\ buffer' = Header \o c.text
        /\ disk' \in {disk, [disk EXCEPT ![c.setup] = c.text]}
  BY DEF StartFromCartridge
<1>2. PICK good \in Outcomes(c.text) :
        /\ Take(c.text, good)
        /\ saved' = (IF good THEN c.setup ELSE saved)
        /\ current' = (IF good THEN c.setup ELSE current)
  BY <1>1
<1>3. c.text \in Seq(AnyLine) /\ c.setup \in SetupNumbers
  BY FilesAssumption, MoreLines
<1>4. DOMAIN config' = Slots /\ TypesOfMade'
  BY <1>2, <1>3, TypesTaken DEF TypesInv
<1>5. disk' \in [SetupNumbers -> Seq(AnyLine)]
  BY <1>1, <1>3 DEF TypesInv, FilesAreTexts
<1>6. buffer' \in Seq(AnyLine) /\ loaded' \in Seq(AnyLine)
  BY <1>1, <1>3, OneLineTexts
<1>7. QED
  BY <1>2, <1>3, <1>4, <1>5, <1>6 DEF TypesInv, FilesAreTexts

LEMMA TypesEdited ==
  ASSUME TypesInv,
         \/ \E k \in SetupNumbers : Get(k) \/ Save(k) \/ Delete(k)
         \/ \E text \in Texts : Write(text)
         \/ DeleteAll \/ Record \/ Stop \/ UNCHANGED filesVars
  PROVE  TypesInv'
<1>1. UNCHANGED <<config, arrayTypes, made, loaded, current, saved>>
  BY DEF Get, Save, Delete, Write, DeleteAll, Record, Stop, filesVars, parsed
<1>2. DOMAIN config' = Slots /\ TypesOfMade'
  BY <1>1 DEF TypesInv, TypesOfMade
<1>3. \A k \in SetupNumbers : Got(k) => buffer' \in Seq(AnyLine)
  BY SourceIsText DEF Got, TypesInv, FilesAreTexts
<1>4. buffer' \in Seq(AnyLine)
  <2>1. \A text \in Texts : text \in Seq(AnyLine)
    BY FilesAssumption, MoreLines
  <2>2. current \in SetupNumbers /\ buffer \in Seq(AnyLine)
    BY DEF TypesInv, FilesAreTexts
  <2>3. QED
    BY <1>3, <2>1, <2>2 DEF Get, Save, Delete, Write, DeleteAll, Record, Stop, filesVars
<1>5. disk' \in [SetupNumbers -> Seq(AnyLine)]
  <2>1. disk \in [SetupNumbers -> Seq(AnyLine)] /\ buffer \in Seq(AnyLine) /\ NoText \in Seq(AnyLine)
    BY OneLineTexts DEF TypesInv, FilesAreTexts
  <2>2. QED
    BY <2>1 DEF Get, Save, Delete, Write, DeleteAll, Record, Stop, filesVars
<1>6. QED
  BY <1>1, <1>2, <1>4, <1>5 DEF TypesInv, FilesAreTexts

LEMMA TypesCleared ==
  ASSUME TypesInv, PowerOff
  PROVE  TypesInv'
<1>1. /\ buffer' = <<>> /\ loaded' = NoText /\ config' = Unset /\ current' = 0 /\ made' = NoText
      /\ UNCHANGED <<disk, saved>>
  BY DEF PowerOff
<1>2. DOMAIN Unset = Slots
  BY DEF Unset
<1>3. QED
  BY <1>1, <1>2, OneLineTexts, FilesAssumption DEF TypesInv, FilesAreTexts, TypesOfMade

LEMMA TypesAtFirst ==
  ASSUME FilesInit
  PROVE  TypesInv
<1>1. /\ disk \in Disks /\ saved \in SetupNumbers /\ buffer = <<>> /\ loaded = NoText
      /\ config = Unset /\ current = 0 /\ made = NoText
  BY DEF FilesInit
<1>2. disk \in [SetupNumbers -> Seq(AnyLine)]
  <2>1. disk \in [SetupNumbers -> Seq(Lines)]
    BY <1>1, FilesAssumption
  <2>2. QED
    BY <2>1, MoreLines
<1>3. DOMAIN Unset = Slots
  BY DEF Unset
<1>4. QED
  BY <1>1, <1>2, <1>3, OneLineTexts, FilesAssumption DEF TypesInv, FilesAreTexts, TypesOfMade

\* After a setup from a well formed text the health thread knows every channel by the kind
\* the text states, whatever the order of its lines, whatever was set up before and however
\* many channels there are (TypesAsStated of Setups).
THEOREM TypesFollowTheText == FilesSpec => [](WellFormed(made) => TypesAsStated)
<1>1. FilesInit => TypesInv
  BY TypesAtFirst
<1>2. TypesInv /\ [FilesNext]_filesVars => TypesInv'
  BY TypesSetUp, TypesStarted, TypesFromCartridge, TypesEdited, TypesCleared, Zenon DEF FilesNext
<1>3. TypesInv => (WellFormed(made) => TypesAsStated)
  <2> SUFFICES ASSUME TypesInv, WellFormed(made), made # NoText, NEW id \in Ids
               PROVE  LET of == {k \in TracksOf(made) : States(made, k, "TK1", id)}
                      IN  arrayTypes[id] = IF of = {} THEN "none"
                            ELSE LET use == Use(made, CHOOSE k \in of : TRUE)
                                 IN  IF use = "dm" THEN "discrete" ELSE use
    BY DEF TypesAsStated
  <2>1. PICK c : DOMAIN c = Slots /\ arrayTypes = Processed(made, c).types
    BY DEF TypesInv, TypesOfMade
  <2>2. NamesFit(made, Len(Sorted(made)), arrayTypes)
    BY <2>1, ProcessedNames DEF TypesInv, TypesOfMade
  <2>3. QED
    BY <2>2, NamesAsStated DEF NameOf
<1>4. QED
  BY <1>1, <1>2, <1>3, PTL DEF FilesSpec

\* And every channel in use is the one its track states: every attribute of the track is in
\* its field, a default of an earlier setup is gone, the time comes from the source named.
\* For texts in the order the parser takes for granted (Orderly), of any length, with any
\* number of tracks, whatever was set up before (ConfiguredAsStated of Setups).
THEOREM ChannelsFollowTheText ==
  FilesSpec => [](WellFormed(made) /\ Orderly(made) => ConfiguredAsStated)
<1>1. FilesInit => TypesInv
  BY TypesAtFirst
<1>2. TypesInv /\ [FilesNext]_filesVars => TypesInv'
  BY TypesSetUp, TypesStarted, TypesFromCartridge, TypesEdited, TypesCleared, Zenon DEF FilesNext
<1>3. TypesInv => (WellFormed(made) /\ Orderly(made) => ConfiguredAsStated)
  <2> SUFFICES ASSUME TypesInv, WellFormed(made), Orderly(made), made # NoText, NEW k \in TracksOf(made)
               PROVE  AsStated(made, k, config[SlotOf(made, k)])
    BY DEF ConfiguredAsStated
  <2>1. made \in Seq(AnyLine)
    BY DEF TypesInv, TypesOfMade
  <2>2. PICK c : DOMAIN c = Slots /\ config = Processed(made, c).config
    BY DEF TypesInv, TypesOfMade
  <2>3. Expected(made)
    BY DEF Expected
  <2>4. AsStated(made, k, Processed(made, c).config[SlotOf(made, k)])
    BY <2>1, <2>2, <2>3, ProcessedChannels
  <2>5. QED
    BY <2>2, <2>4
<1>4. QED
  BY <1>1, <1>2, <1>3, PTL DEF FilesSpec
=============================================================================
