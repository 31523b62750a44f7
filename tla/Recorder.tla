------------------------------ MODULE Recorder ------------------------------
(***************************************************************************)
(* RecorderStatus and the threads that share it without a lock: the source *)
(* of commands (a COM port, or the record switch), the control loop that   *)
(* polls every half second.                                                *)
(* The configuration is one without playback (config 1: no .PLAY).  A step *)
(* is the code between two accesses of the shared state; the long waits of *)
(* the code (the last root packet, the global busy bit) lie between steps. *)
(***************************************************************************)
EXTENDS Integers

CONSTANTS
  Deployments,          \* sets of command sources used together
  BitPasses,            \* passes of the control loop a BIT takes (20)
  RootTries,            \* tries for the last root packet (4)
  NamedWhileRecording   \* does the operator name a recording while one runs

ASSUME DeploymentAssumption == Deployments \subseteq SUBSET {"com", "switch"}
ASSUME CountAssumption ==
  /\ BitPasses \in Nat \ {0}
  /\ RootTries \in Nat \ {0}
  /\ NamedWhileRecording \in BOOLEAN

VARIABLES
  sources,       \* the deployment
  status,        \* RecorderStatus
  commandFrom,   \* CommandFrom: who started the recording
  fileState,     \* CurrentFileState of the file table
  recordGo,      \* IEEE1394B_RECORD_GO: the hardware writes to the cartridge
  fault,         \* IEEE1394B_RECORD_FAULT
  full,          \* fewer than SYSTEM_BLOCKS_RESERVED blocks are left
  pc,            \* where each thread is
  back,          \* where the control loop goes on after Stop
  tries,         \* the count of Emergency_Stop, per thread
  snapshot,      \* the state the control loop read at the start of its pass
  bitPass        \* Bitloops and BitCount

hardware == <<recordGo, fault, full>>
loop == <<back, snapshot, bitPass>>
vars == <<sources, status, commandFrom, fileState, hardware, pc, loop, tries>>

Threads == {"com", "switch", "control"}
States == {"IDLE", "RECORD", "ERROR", "BIT", "ERASE"}

\* (Mutant: a recording may be started while one is going on.)
CanRecordAgain == {"IDLE", "ERROR", "RECORD"}

\* The states in which Record, RecordFile, Erase and BuiltInTest go ahead.
CanRecord == {"IDLE", "ERROR"}

Init ==
  /\ sources \in Deployments
  /\ status = "IDLE"
  /\ commandFrom = "none"
  /\ fileState = "closed"
  /\ recordGo = FALSE /\ fault = FALSE /\ full = FALSE
  /\ pc = [t \in Threads |-> "idle"]
  /\ back = "full"
  /\ tries = [t \in Threads |-> 0]
  /\ snapshot = "IDLE"
  /\ bitPass = 0

Goto(t, label) == pc' = [pc EXCEPT ![t] = label]
At(t, label) == pc[t] = label
Issue(s) == s \in sources /\ At(s, "idle")

\* M23_SetRecorderState never leaves RECORD for a state of this configuration.
SetRecorderState(s) == status' = IF status = "RECORD" THEN status ELSE s

-----------------------------------------------------------------------------
(* Record and RecordFile.                                                  *)

\* .RECORD, or the record switch turned on: Record looks at the state first.
CmdRecord(s) ==
  /\ Issue(s)
  /\ status \in CanRecord
  /\ Goto(s, "recordFile")
  /\ UNCHANGED <<sources, status, commandFrom, fileState, hardware, loop, tries>>

\* .RECORD with a name calls RecordFile at once.
CmdRecordNamed ==
  /\ Issue("com")
  /\ NamedWhileRecording \/ status # "RECORD"
  /\ Goto("com", "recordFile")
  /\ UNCHANGED <<sources, status, commandFrom, fileState, hardware, loop, tries>>

\* RecordFile in a state that does not allow it: the state becomes ERROR.
RecordFileRefused(t) ==
  /\ At(t, "recordFile")
  /\ status \notin CanRecord \/ full
  /\ status' = "ERROR"
  /\ Goto(t, "idle")
  /\ UNCHANGED <<sources, commandFrom, fileState, hardware, loop, tries>>

RecordFile(t) ==
  /\ At(t, "recordFile")
  /\ status \in CanRecord /\ ~full
  /\ Goto(t, "open")      \* waits for the global busy bit
  /\ UNCHANGED <<sources, status, commandFrom, fileState, hardware, loop, tries>>

\* sopen fails when a file is open, and that is an error.
SOpenFails(t) ==
  /\ At(t, "open")
  /\ fileState = "open"
  /\ status' = "ERROR"
  /\ Goto(t, "idle")
  /\ UNCHANGED <<sources, commandFrom, fileState, hardware, loop, tries>>

SOpen(t) ==
  /\ At(t, "open")
  /\ fileState = "closed"
  /\ fileState' = "open"
  /\ Goto(t, "go")
  /\ UNCHANGED <<sources, status, commandFrom, hardware, loop, tries>>

\* The hardware starts; the TMATS record is written before the state changes.
StartHardware(t) ==
  /\ At(t, "go")
  /\ recordGo' = TRUE
  /\ Goto(t, "record")
  /\ UNCHANGED <<sources, status, commandFrom, fileState, fault, full, loop, tries>>

SetRecord(t) ==
  /\ At(t, "record")
  /\ status' = "RECORD"
  /\ Goto(t, "own")
  /\ UNCHANGED <<sources, commandFrom, fileState, hardware, loop, tries>>

\* After Record has returned and the record event is written.
Own(t) ==
  /\ At(t, "own")
  /\ commandFrom' = t
  /\ Goto(t, "idle")
  /\ UNCHANGED <<sources, status, fileState, hardware, loop, tries>>

-----------------------------------------------------------------------------
(* Stop: Emergency_Stop, called by a command or by the control loop.       *)

\* .STOP, or the record switch turned off.
CmdStop(s) ==
  /\ Issue(s)
  /\ Goto(s, "cmdStop")
  /\ UNCHANGED <<sources, status, commandFrom, fileState, hardware, loop, tries>>

\* Who did not start the recording may not stop it.
StopAccepted(t) ==
  /\ At(t, "cmdStop")
  /\ status = "RECORD" /\ commandFrom = t
  /\ Goto(t, "stop")
  /\ UNCHANGED <<sources, status, commandFrom, fileState, hardware, loop, tries>>

\* The switch, its recording having ended without it, gives up its ownership.
StopRefused(t) ==
  /\ At(t, "cmdStop")
  /\ ~(status = "RECORD" /\ commandFrom = t)
  /\ commandFrom' = IF t = "switch" /\ commandFrom = t THEN "none" ELSE commandFrom
  /\ Goto(t, "idle")
  /\ UNCHANGED <<sources, status, fileState, hardware, loop, tries>>

\* Emergency_Stop changes the state first.
StopBegins(t) ==
  /\ At(t, "stop")
  /\ status' = "IDLE"
  /\ Goto(t, "wait")
  /\ UNCHANGED <<sources, commandFrom, fileState, hardware, loop, tries>>

\* (Mutant: waits for the root packet however long it takes.)
WaitForRoot(t) ==
  /\ At(t, "wait")
  /\ tries' = [tries EXCEPT ![t] = (tries[t] + 1) % RootTries]
  /\ UNCHANGED <<sources, status, commandFrom, fileState, hardware, pc, loop>>

\* LAST_ROOT_IN_FIFO is not set: sleep a second, at most RootTries times.
RootMissing(t) ==
  /\ At(t, "wait")
  /\ tries' = [tries EXCEPT ![t] = (tries[t] + 1) % RootTries]
  /\ IF tries[t] + 1 < RootTries THEN UNCHANGED pc ELSE Goto(t, "goOff")
  /\ UNCHANGED <<sources, status, commandFrom, fileState, hardware, loop>>

\* It is set: the size of the recording is final.
RootArrives(t) ==
  /\ At(t, "wait")
  /\ tries' = [tries EXCEPT ![t] = 0]
  /\ Goto(t, "goOff")
  /\ UNCHANGED <<sources, status, commandFrom, fileState, hardware, loop>>

StopHardware(t) ==
  /\ At(t, "goOff")
  /\ recordGo' = FALSE
  /\ Goto(t, "close")
  /\ UNCHANGED <<sources, status, commandFrom, fileState, fault, full, loop, tries>>

EmergencyClose(t) ==
  /\ At(t, "close")
  /\ fileState' = "closed"
  /\ Goto(t, IF t = "control" THEN back ELSE "disown")
  /\ UNCHANGED <<sources, status, commandFrom, hardware, loop, tries>>

\* CmdStop keeps the ownership of what is not idle; the switch does not look.
Disown(t) ==
  /\ At(t, "disown")
  /\ commandFrom' = IF t = "com" /\ status # "IDLE" THEN commandFrom ELSE "none"
  /\ Goto(t, "idle")
  /\ UNCHANGED <<sources, status, fileState, hardware, loop, tries>>

-----------------------------------------------------------------------------
(* The other commands.                                                     *)

\* .ERASE, or the erase switch: Erase leaves the state ERASE, its caller, two
\* seconds later, makes it IDLE.
CmdErase(s) ==
  /\ Issue(s)
  /\ status \in CanRecord
  /\ status' = "ERASE"
  /\ Goto(s, "serase")
  /\ UNCHANGED <<sources, commandFrom, fileState, hardware, loop, tries>>

SErase(t) ==
  /\ At(t, "serase")
  /\ fileState' = "closed"
  /\ full' = FALSE
  /\ Goto(t, "erased")
  /\ UNCHANGED <<sources, status, commandFrom, recordGo, fault, loop, tries>>

EraseDone(t) ==
  /\ At(t, "erased")
  /\ SetRecorderState("IDLE")
  /\ Goto(t, "idle")
  /\ UNCHANGED <<sources, commandFrom, fileState, hardware, loop, tries>>

\* .BIT, or the BIT switch.
BuiltInTest(s) ==
  /\ Issue(s)
  /\ status \in CanRecord
  /\ status' = "BIT"
  /\ UNCHANGED <<sources, commandFrom, fileState, hardware, pc, loop, tries>>

\* Status reports the state, and makes an ERROR an IDLE; so does .HEALTH.
Status == status' = IF status = "ERROR" THEN "IDLE" ELSE status

CmdStatus ==
  /\ Issue("com")
  /\ Goto("com", "status")
  /\ UNCHANGED <<sources, status, commandFrom, fileState, hardware, loop, tries>>

StatusReply ==
  /\ At("com", "status")
  /\ Status
  /\ Goto("com", "idle")
  /\ UNCHANGED <<sources, commandFrom, fileState, hardware, loop, tries>>

\* .HEALTH of a feature there is not: an IDLE becomes an ERROR.
CmdHealth ==
  /\ Issue("com")
  /\ status' = IF status = "IDLE" THEN "ERROR" ELSE status
  /\ UNCHANGED <<sources, commandFrom, fileState, hardware, pc, loop, tries>>

-----------------------------------------------------------------------------
(* M23_ControlLoop.  What it decides, it decides by the snapshot.          *)

LoopBegins ==
  /\ At("control", "idle")
  /\ snapshot' = status
  /\ Goto("control", "fault")
  /\ UNCHANGED <<sources, status, commandFrom, fileState, hardware, back, bitPass, tries>>

StopOnFault ==
  /\ At("control", "fault")
  /\ snapshot = "RECORD" /\ fault
  /\ fault' = FALSE
  /\ back' = "full"
  /\ Goto("control", "stop")
  /\ UNCHANGED <<sources, status, commandFrom, fileState, recordGo, full,
                 snapshot, bitPass, tries>>

NoFault ==
  /\ At("control", "fault")
  /\ ~(snapshot = "RECORD" /\ fault)
  /\ Goto("control", "full")
  /\ UNCHANGED <<sources, status, commandFrom, fileState, hardware, loop, tries>>

StopOnFull ==
  /\ At("control", "full")
  /\ snapshot = "RECORD" /\ full
  /\ back' = "update"
  /\ Goto("control", "stop")
  /\ UNCHANGED <<sources, status, commandFrom, fileState, hardware,
                 snapshot, bitPass, tries>>

NotFull ==
  /\ At("control", "full")
  /\ ~(snapshot = "RECORD" /\ full)
  /\ Goto("control", "update")
  /\ UNCHANGED <<sources, status, commandFrom, fileState, hardware, loop, tries>>

\* (Mutant: the count is not reset at the end.)
BitNotReset(n) == n + 1

\* Bitloops and BitCount: the next value of the count of a BIT.
BitNext(n) == (n + 1) % BitPasses

\* The end of a pass: a root update (StanagTable has it) or a step of the BIT.
LoopEnds ==
  /\ At("control", "update")
  /\ IF snapshot = "BIT"
     THEN /\ bitPass' = BitNext(bitPass)
          /\ IF bitPass + 1 = BitPasses THEN SetRecorderState("IDLE")
             ELSE UNCHANGED status
     ELSE UNCHANGED <<bitPass, status>>
  /\ Goto("control", "idle")
  /\ UNCHANGED <<sources, commandFrom, fileState, hardware, back, snapshot, tries>>

-----------------------------------------------------------------------------
(* The hardware.                                                           *)

RecordFault ==
  /\ recordGo /\ ~fault
  /\ fault' = TRUE
  /\ UNCHANGED <<sources, status, commandFrom, fileState, recordGo, full, pc, loop, tries>>

MediumFills ==
  /\ recordGo /\ ~full
  /\ full' = TRUE
  /\ UNCHANGED <<sources, status, commandFrom, fileState, recordGo, fault, pc, loop, tries>>

-----------------------------------------------------------------------------
RecordStep(t) ==
  \/ RecordFileRefused(t) \/ RecordFile(t) \/ SOpenFails(t) \/ SOpen(t)
  \/ StartHardware(t) \/ SetRecord(t) \/ Own(t)

StopStep(t) ==
  \/ StopBegins(t) \/ RootMissing(t) \/ RootArrives(t)
  \/ StopHardware(t) \/ EmergencyClose(t)

\* A command that is under way.
CommandStep(t) ==
  \/ RecordStep(t) \/ StopStep(t)
  \/ StopAccepted(t) \/ StopRefused(t) \/ Disown(t)
  \/ SErase(t) \/ EraseDone(t)
  \/ t = "com" /\ StatusReply

ControlStep ==
  \/ LoopBegins \/ StopOnFault \/ NoFault \/ StopOnFull \/ NotFull \/ LoopEnds
  \/ StopStep("control")

\* What operators and hardware may do, and need not.
Environment ==
  \/ \E s \in {"com", "switch"} : 
       CmdRecord(s) \/ CmdStop(s) \/ CmdErase(s) \/ BuiltInTest(s)
  \/ CmdRecordNamed \/ CmdStatus \/ CmdHealth
  \/ RecordFault \/ MediumFills

Next ==
  \/ Environment
  \/ \E t \in {"com", "switch"} : CommandStep(t)
  \/ ControlStep

\* A thread that has something to do gets the processor.
Spec ==
  /\ Init /\ [][Next]_vars
  /\ \A t \in {"com", "switch"} : WF_vars(CommandStep(t))
  /\ WF_vars(ControlStep)

-----------------------------------------------------------------------------
(* Properties.                                                             *)

Labels == {"idle", "recordFile", "open", "go", "record", "own", "cmdStop", "stop",
           "wait", "goOff", "close", "disown", "serase", "erased", "status",
           "fault", "full", "update"}

\* Types of the state.
TypeOK ==
  /\ sources \in Deployments
  /\ status \in States
  /\ commandFrom \in {"none", "com", "switch"}
  /\ fileState \in {"open", "closed"}
  /\ recordGo \in BOOLEAN /\ fault \in BOOLEAN /\ full \in BOOLEAN
  /\ pc \in [Threads -> Labels]
  /\ back \in {"full", "update"}
  /\ tries \in [Threads -> 0..(RootTries - 1)]
  /\ snapshot \in States
  /\ bitPass \in 0..(BitPasses - 1)

\* The hardware never records behind the back of the state machine: while it
\* does, the state is RECORD, or the thread that started it is about to say so,
\* or a thread is inside Emergency_Stop and will switch it off.
HardwareFollowsState ==
  recordGo => \/ status = "RECORD"
              \/ \E t \in Threads : pc[t] \in {"record", "stop", "wait", "goOff"}

\* A record fault or a full medium ends the recording: the control loop notices
\* it, whatever commands arrive in between.
FaultStopsRecording == ((fault \/ full) /\ recordGo) ~> ~recordGo

\* .STOP, or the switch turned off, ends the recording that is going on ("Stops
\* the current recording, playback, or both", help text of .STOP).
StopStops ==
  \A s \in {"com", "switch"} : (At(s, "cmdStop") /\ recordGo) ~> ~recordGo
=============================================================================
