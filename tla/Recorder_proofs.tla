---------------------------- MODULE Recorder_proofs ----------------------------
(***************************************************************************)
(* Proofs about Recorder, for every number of passes of a BIT, of tries    *)
(* for the last root packet and every deployment of one command source.    *)
(***************************************************************************)
EXTENDS Recorder, TLAPS

USE DEF Threads, States, CanRecord, Labels, Goto, At, Issue, SetRecorderState,
        hardware, loop

-----------------------------------------------------------------------------
\* The remainder of a count stays below its divisor: the counts of tries and of
\* passes wrap inside their ranges.
LEMMA ModInRange ==
  ASSUME NEW a \in Nat, NEW b \in Nat \ {0}
  PROVE  a % b \in 0..(b - 1)
  OBVIOUS

\* The type invariant, its Boolean parts and the others.
Flags == recordGo \in BOOLEAN /\ fault \in BOOLEAN /\ full \in BOOLEAN
Words ==
  /\ sources \in Deployments
  /\ status \in States
  /\ commandFrom \in {"none", "com", "switch"}
  /\ fileState \in {"open", "closed"}
  /\ pc \in [Threads -> Labels]
  /\ back \in {"full", "update"}
  /\ tries \in [Threads -> 0..(RootTries - 1)]
  /\ snapshot \in States
  /\ bitPass \in 0..(BitPasses - 1)

\* No step makes one of the three flags anything but TRUE or FALSE.
LEMMA FlagsStep ==
  ASSUME Flags, [Next]_vars
  PROVE  Flags'
<1> USE DEF Flags
<1>1. CASE Environment
  BY <1>1, Zenon DEF Environment, CmdRecord, CmdStop, CmdErase, BuiltInTest, CmdRecordNamed,
                     CmdStatus, CmdHealth, RecordFault, MediumFills
<1>2. ASSUME NEW t \in Threads, StopStep(t)
      PROVE  Flags'
  BY <1>2, Zenon DEF StopStep, StopBegins, RootMissing, RootArrives, StopHardware,
                     EmergencyClose
<1>3. ASSUME NEW t \in {"com", "switch"}, CommandStep(t)
      PROVE  Flags'
  <2>1. CASE RecordStep(t)
    BY <2>1, Zenon DEF RecordStep, RecordFileRefused, RecordFile, SOpenFails, SOpen,
                       StartHardware, SetRecord, Own
  <2>2. CASE StopStep(t)
    BY <1>2, <2>2
  <2>3. CASE StopAccepted(t) \/ StopRefused(t) \/ Disown(t)
    BY <2>3, Zenon DEF StopAccepted, StopRefused, Disown
  <2>4. CASE SErase(t) \/ EraseDone(t) \/ (t = "com" /\ StatusReply)
    BY <2>4, Zenon DEF SErase, EraseDone, StatusReply
  <2>5. QED
    BY <1>3, <2>1, <2>2, <2>3, <2>4 DEF CommandStep
<1>4. CASE ControlStep
  <2>1. CASE StopStep("control")
    BY <1>2, <2>1
  <2>2. CASE ~StopStep("control")
    BY <1>4, <2>2, Zenon DEF ControlStep, LoopBegins, StopOnFault, NoFault, StopOnFull,
                             NotFull, LoopEnds
  <2>3. QED
    BY <2>1, <2>2
<1>5. CASE UNCHANGED vars
  BY <1>5, Zenon DEF vars
<1>6. QED
  BY <1>1, <1>3, <1>4, <1>5 DEF Next

\* No step of a thread or of the hardware leaves the ranges of the other parts;
\* the two counters wrap before their bounds.
LEMMA WordsStep ==
  ASSUME Words, [Next]_vars
  PROVE  Words'
<1> USE DEF Words
<1>1. CASE Environment
  BY <1>1 DEF Environment, CmdRecord, CmdStop, CmdErase, BuiltInTest, CmdRecordNamed,
              CmdStatus, CmdHealth, Status, RecordFault, MediumFills
<1>2. ASSUME NEW t \in Threads, StopStep(t)
      PROVE  Words'
  <2>1. CASE RootMissing(t)
    <3>1. tries[t] + 1 \in Nat
      BY CountAssumption
    <3>2. (tries[t] + 1) % RootTries \in 0..(RootTries - 1)
      BY <3>1, CountAssumption, ModInRange
    <3>3. QED
      BY <2>1, <3>2 DEF RootMissing
  <2>2. CASE RootArrives(t)
    BY <2>2, CountAssumption DEF RootArrives
  <2>3. QED
    BY <1>2, <2>1, <2>2 DEF StopStep, StopBegins, StopHardware, EmergencyClose
<1>3. ASSUME NEW t \in {"com", "switch"}, CommandStep(t)
      PROVE  Words'
  <2>1. CASE RecordStep(t)
    BY <1>3, <2>1 DEF RecordStep, RecordFileRefused, RecordFile, SOpenFails, SOpen,
                      StartHardware, SetRecord, Own
  <2>2. CASE StopStep(t)
    BY <1>2, <2>2
  <2>3. CASE StopAccepted(t) \/ StopRefused(t) \/ Disown(t)
    BY <1>3, <2>3 DEF StopAccepted, StopRefused, Disown
  <2>4. CASE SErase(t) \/ EraseDone(t) \/ (t = "com" /\ StatusReply)
    BY <1>3, <2>4 DEF SErase, EraseDone, StatusReply, Status
  <2>5. QED
    BY <1>3, <2>1, <2>2, <2>3, <2>4 DEF CommandStep
<1>4. CASE ControlStep
  <2>1. CASE LoopEnds
    <3>1. BitNext(bitPass) \in 0..(BitPasses - 1)
      BY CountAssumption, ModInRange DEF BitNext
    <3>2. QED
      BY <2>1, <3>1 DEF LoopEnds
  <2>2. CASE StopStep("control")
    BY <1>2, <2>2
  <2>3. QED
    BY <1>4, <2>1, <2>2 DEF ControlStep, LoopBegins, StopOnFault, NoFault,
                            StopOnFull, NotFull
<1>5. CASE UNCHANGED vars
  BY <1>5 DEF vars
<1>6. QED
  BY <1>1, <1>3, <1>4, <1>5 DEF Next

\* Every state the threads can reach is well typed.
THEOREM TypeCorrect == Spec => []TypeOK
<1>1. Init => TypeOK
  <2>1. Init => Words
    BY DeploymentAssumption, CountAssumption DEF Init, Words
  <2>2. Init => Flags
    BY Zenon DEF Init, Flags
  <2>3. QED
    BY <2>1, <2>2, Zenon DEF Words, Flags, TypeOK
<1>2. TypeOK /\ [Next]_vars => TypeOK'
  <2>1. TypeOK => Words /\ Flags
    BY Zenon DEF Words, Flags, TypeOK
  <2>2. Words' /\ Flags' => TypeOK'
    BY Zenon DEF Words, Flags, TypeOK
  <2>3. QED
    BY <2>1, <2>2, WordsStep, FlagsStep
<1>3. QED
  BY <1>1, <1>2, PTL DEF Spec

-----------------------------------------------------------------------------
(* The hardware follows the state machine.                                 *)

\* Commands come from one source, and a recording is not named while one runs.
OneSource ==
  /\ \A D \in Deployments : D = {"com"} \/ D = {"switch"}
  /\ NamedWhileRecording = FALSE

\* The other source stays idle.
OthersIdle == \A t \in {"com", "switch"} : t \in sources \/ pc[t] = "idle"

\* The control loop never starts a recording.
ControlPath ==
  pc["control"] \in {"idle", "fault", "full", "update", "stop", "wait", "goOff", "close"}

\* Who is about to start one has found no recording going on.
NotYetRecording ==
  \A t \in Threads : pc[t] \in {"recordFile", "open", "go", "record"} => status # "RECORD"

\* The inductive invariant: HardwareFollowsState alone is not one, as a refused
\* RecordFile takes the state away from RECORD.
Inv ==
  /\ Words
  /\ OthersIdle
  /\ ControlPath
  /\ NotYetRecording
  /\ HardwareFollowsState

\* Whatever thread stops a recording: it is among the witnesses of the invariant
\* until the hardware is off.
LEMMA StopKeepsInv ==
  ASSUME Inv, Words', NEW t \in Threads, StopStep(t)
  PROVE  Inv'
<1> USE DEF Inv, Words, OthersIdle, ControlPath, NotYetRecording, HardwareFollowsState
<1>1. CASE StopBegins(t)
  BY <1>1 DEF StopBegins
<1>2. CASE RootMissing(t) \/ RootArrives(t)
  BY <1>2 DEF RootMissing, RootArrives
<1>3. CASE StopHardware(t)
  BY <1>3 DEF StopHardware
<1>4. CASE EmergencyClose(t)
  BY <1>4 DEF EmergencyClose
<1>5. QED
  BY <1>1, <1>2, <1>3, <1>4 DEF StopStep

\* The record path: only the one source walks it, and each of its steps that
\* changes the state does so when the state is not RECORD.
LEMMA RecordKeepsInv ==
  ASSUME Inv, Words', OneSource, NEW t \in {"com", "switch"}, RecordStep(t)
  PROVE  Inv'
<1> USE DEF Inv, Words, OthersIdle, ControlPath, NotYetRecording, HardwareFollowsState
<1>1. CASE RecordFileRefused(t)
  BY <1>1 DEF RecordFileRefused
<1>2. CASE RecordFile(t) \/ SOpen(t)
  BY <1>2 DEF RecordFile, SOpen
<1>3. CASE SOpenFails(t)
  BY <1>3 DEF SOpenFails
<1>4. CASE StartHardware(t)
  BY <1>4 DEF StartHardware
<1>5. CASE SetRecord(t)
  <2>1. \A u \in {"com", "switch"} : u # t => pc[u] = "idle"
    BY <1>5 DEF SetRecord, OneSource
  <2>2. QED
    BY <1>5, <2>1 DEF SetRecord
<1>6. CASE Own(t)
  BY <1>6 DEF Own
<1>7. QED
  BY <1>1, <1>2, <1>3, <1>4, <1>5, <1>6 DEF RecordStep

\* While one source of commands drives the recorder, the hardware writes to the
\* cartridge only in the state RECORD or inside the few steps at its two ends.
THEOREM HardwareFollows == OneSource => (Spec => []HardwareFollowsState)
<1> SUFFICES ASSUME OneSource PROVE Spec => []HardwareFollowsState
  OBVIOUS
<1>1. Init => Inv
  <2>1. Init => Words
    BY DeploymentAssumption, CountAssumption DEF Init, Words
  <2>2. QED
    BY <2>1 DEF Init, Inv, OthersIdle, ControlPath, NotYetRecording, HardwareFollowsState
<1>2. Inv /\ [Next]_vars => Inv'
  <2> SUFFICES ASSUME Inv, [Next]_vars
               PROVE  Inv'
    OBVIOUS
  <2>0. Words'
    BY WordsStep DEF Inv
  <2> USE <2>0 DEF Inv, Words, OthersIdle, ControlPath, NotYetRecording, HardwareFollowsState
  <2>1. CASE Environment
    <3>1. ASSUME NEW s \in {"com", "switch"},
                 CmdRecord(s) \/ CmdStop(s) \/ CmdErase(s) \/ BuiltInTest(s)
          PROVE  Inv'
      BY <3>1 DEF CmdRecord, CmdStop, CmdErase, BuiltInTest
    <3>2. CASE CmdRecordNamed
      BY <3>2 DEF CmdRecordNamed, OneSource
    <3>3. CASE CmdStatus \/ CmdHealth
      BY <3>3 DEF CmdStatus, CmdHealth, Status
    <3>4. CASE RecordFault \/ MediumFills
      BY <3>4 DEF RecordFault, MediumFills
    <3>5. QED
      BY <2>1, <3>1, <3>2, <3>3, <3>4 DEF Environment
  <2>2. ASSUME NEW t \in {"com", "switch"}, CommandStep(t)
        PROVE  Inv'
    <3>1. CASE RecordStep(t)
      BY <2>2, <3>1, RecordKeepsInv
    <3>2. CASE StopStep(t)
      BY <2>2, <3>2, StopKeepsInv
    <3>3. CASE StopAccepted(t) \/ StopRefused(t) \/ Disown(t)
      BY <2>2, <3>3 DEF StopAccepted, StopRefused, Disown
    <3>4. CASE SErase(t) \/ EraseDone(t) \/ (t = "com" /\ StatusReply)
      BY <2>2, <3>4 DEF SErase, EraseDone, StatusReply, Status
    <3>5. QED
      BY <2>2, <3>1, <3>2, <3>3, <3>4 DEF CommandStep
  <2>3. CASE ControlStep
    <3>1. CASE StopStep("control")
      BY <3>1, StopKeepsInv
    <3>2. CASE LoopBegins \/ StopOnFault \/ NoFault \/ StopOnFull \/ NotFull
      BY <3>2 DEF LoopBegins, StopOnFault, NoFault, StopOnFull, NotFull
    <3>3. CASE LoopEnds
      BY <3>3 DEF LoopEnds
    <3>4. QED
      BY <2>3, <3>1, <3>2, <3>3 DEF ControlStep
  <2>4. CASE UNCHANGED vars
    BY <2>4 DEF vars
  <2>5. QED
    BY <2>1, <2>2, <2>3, <2>4 DEF Next
<1>3. Inv => HardwareFollowsState
  BY DEF Inv
<1>4. QED
  BY <1>1, <1>2, <1>3, PTL DEF Spec
=============================================================================
