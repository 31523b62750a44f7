------------------------------ MODULE Cartridge ------------------------------
(***************************************************************************)
(* The cartridge in its receiver and what the recorder believes of it.     *)
(* The health thread notices a removal, dismounts, and mounts what is      *)
(* inserted after a settling time; the operator records, plays, tests,     *)
(* dismounts and mounts in a thread of its own; the control loop ends what *)
(* is over.  They share RecorderStatus, the health bits and the connection *)
(* with no lock.  Recorder has the commands step by step; here a command   *)
(* is its check and its effect.                                            *)
(***************************************************************************)
EXTENDS Naturals

CONSTANTS
  Cartridges,     \* the cartridges at hand
  NoCartridge,
  TimeUnset,      \* may the time source be the 1553 bus and no time set yet
  SwitchOn,       \* may AutoRecord be set, or the record switch be on
  PlaysOn         \* may the recorder be of a configuration other than 0, which
                  \* leaves a playback to itself when the cartridge is removed

ASSUME CartridgeAssumption ==
  /\ NoCartridge \notin Cartridges
  /\ {TimeUnset, SwitchOn, PlaysOn} \subseteq BOOLEAN

VARIABLES
  slot,            \* the cartridge in the receiver
  status,          \* RecorderStatus
  recordGo,        \* IEEE1394B_RECORD_GO
  notPresent,      \* health bit M23_MEMORY_NOT_PRESENT
  notConnected,    \* health bit M23_DISK_NOT_CONNECTED
  isConnected,     \* CartridgeIsConnected: logged in to on the 1394 bus
  dismounted,      \* M23_DismountCommand
  table,           \* the cartridge the file table in memory was read from
  pc,              \* where each thread is
  seen,            \* what the health thread read at the start of its pass
  missed,          \* what made the code miss a change: a Dismount or a Mount
                   \* that was refused, the flag a Mount did not reset, a
                   \* swap after the Mount had read the table
  astray           \* the hardware may record what the state does not tell: a
                   \* Mount or a removal overtook the command, or a test or a
                   \* playback took the state of a recording

bits == <<notPresent, notConnected>>
link == <<isConnected, dismounted, table>>
record == <<status, recordGo>>
vars == <<slot, record, bits, link, pc, seen, missed, astray>>

Threads == {"health", "operator"}
Running == {"RECORD", "REC_N_PLAY", "PLAY"}
Ready == {"IDLE", "ERROR"}
Tests == {"PTEST", "RTEST", "P_R_TEST"}
States == Running \union Ready \union Tests \union {"BIT"}

At(t, label) == pc[t] = label
Goto(t, label) == pc' = [pc EXCEPT ![t] = label]
RestReady(t) == "ready"   \* (Mutant: the health thread does not go on polling.)
Rest(t) == IF t = "health" THEN "poll" ELSE "ready"
MountingBut(t) == \E u \in Threads \ {t} : pc[u] \in {"sinit", "found"}

\* DiskIsConnected.
DiskIsConnected == isConnected /\ ~notConnected

\* M23_SetRecorderState: RECORD is left for REC_N_PLAY only.
Settable(s) == IF status = "RECORD" /\ s # "REC_N_PLAY" THEN status ELSE s

\* M23_ControllerInitialize mounts once before the threads start; the recorder
\* comes up with or without a cartridge.
Init ==
  /\ slot \in Cartridges \union {NoCartridge}
  /\ status = "IDLE" /\ recordGo = FALSE
  /\ notPresent = FALSE
  /\ notConnected = (slot = NoCartridge)
  /\ isConnected = (slot # NoCartridge)
  /\ dismounted = FALSE
  /\ table = slot
  /\ pc = [t \in Threads |-> Rest(t)]
  /\ seen = [state |-> "IDLE", absent |-> FALSE]
  /\ missed = "no" /\ astray = FALSE

-----------------------------------------------------------------------------
(* Dismount.                                                               *)

\* (Mutant: the login is kept, and the bit does not tell.)
DismountKeepsLogin ==
  /\ notConnected' = (slot # NoCartridge)
  /\ dismounted' = (slot # NoCartridge /\ DiskIsConnected)
  /\ UNCHANGED <<isConnected, table>>

\* A cartridge that is present and connected is only marked as dismounted; of
\* any other the login is forgotten.
Dismount ==
  /\ notConnected' = TRUE
  /\ IF slot # NoCartridge /\ DiskIsConnected
     THEN dismounted' = TRUE /\ UNCHANGED isConnected
     ELSE isConnected' = FALSE /\ UNCHANGED dismounted
  /\ UNCHANGED table

-----------------------------------------------------------------------------
(* The health thread.                                                      *)

\* One pass reads the state and the receiver.  Once the removal is noticed,
\* the pass goes on only when FindCartridge finds a cartridge.
Look ==
  /\ At("health", "poll")
  /\ ~(notPresent /\ slot = NoCartridge)
  /\ seen' = [state |-> status, absent |-> slot = NoCartridge]
  /\ Goto("health", "act")
  /\ UNCHANGED <<slot, record, bits, link, missed, astray>>

\* (Mutant: a removal does not stop the hardware.)
RemovalStopLeavesGo == status' = "IDLE" /\ UNCHANGED recordGo

\* Removal_Stop: hardware first; a playback beside the recording goes on, which
\* M23_StopPlayback ends in configuration 0 only.
RemovalStop ==
  /\ recordGo' = FALSE
  /\ \/ status' = "IDLE"
     \/ PlaysOn /\ status = "REC_N_PLAY" /\ status' = "PLAY"

\* A removal makes up for a Mount that found no medium, not for one refused.
Noticed == missed' = IF missed = "noMedia" THEN "no" ELSE missed

\* Removal while recording or playing.  The Dismount of Removal_Stop is refused
\* after REC_N_PLAY, but the bits are set in any case.
RemovedRunning ==
  /\ At("health", "act")
  /\ seen.absent /\ seen.state \in Running
  /\ RemovalStop
  /\ IF status = "REC_N_PLAY" THEN UNCHANGED link
     ELSE isConnected' = FALSE /\ UNCHANGED <<dismounted, table>>
  /\ notConnected' = TRUE /\ notPresent' = TRUE
  /\ Noticed /\ astray' = FALSE
  /\ Goto("health", "poll")
  /\ UNCHANGED <<slot, seen>>

\* Removal in any other state: Dismount, once.  Dismount looks at the status as
\* it is now, and is not repeated when it refuses.
Removed ==
  /\ At("health", "act")
  /\ seen.absent /\ seen.state \notin Running
  /\ notPresent' = TRUE
  /\ IF notPresent THEN UNCHANGED <<notConnected, link, missed>>
     ELSE IF status \in Ready
     THEN Dismount /\ Noticed
     ELSE missed' = "dismount" /\ UNCHANGED <<notConnected, link>>
  /\ Goto("health", "poll")
  /\ UNCHANGED <<slot, record, seen, astray>>

\* A cartridge is back: the bit is cleared at once, Mount follows the settling
\* time (15 looks at the latch, or 22 s).
Inserted ==
  /\ At("health", "act")
  /\ ~seen.absent /\ notPresent
  /\ notPresent' = FALSE
  /\ Goto("health", "mount")
  /\ UNCHANGED <<slot, record, notConnected, link, seen, missed, astray>>

\* Nothing new: the bit follows the connection.
Unchanged ==
  /\ At("health", "act")
  /\ ~seen.absent /\ ~notPresent
  /\ notConnected' = (notConnected \/ ~isConnected)
  /\ Goto("health", "poll")
  /\ UNCHANGED <<slot, record, notPresent, link, seen, missed, astray>>

-----------------------------------------------------------------------------
(* Mount, by the health thread or by .MOUNT.                               *)

MountRefused(t) ==
  /\ At(t, "mount")
  /\ status \notin Ready
  /\ missed' = IF t = "health" THEN "mount" ELSE missed
  /\ Goto(t, Rest(t))
  /\ UNCHANGED <<slot, record, bits, link, seen, astray>>

MountBegins(t) ==
  /\ At(t, "mount")
  /\ status \in Ready
  /\ Goto(t, "sinit")
  /\ UNCHANGED <<slot, record, bits, link, seen, missed, astray>>

\* (Mutant: the table is read only if none is in memory.)
ReadOnce == IF table = NoCartridge THEN slot ELSE table

\* FileRetrieveFileTable: the table of the cartridge in the receiver.
ReadTable == slot

\* DiskConnect looks through the nodes of the bus for a cartridge, up to 15 times
\* with a reset each, which takes seconds: a pass has noticed the cartridge
\* meanwhile.  Then it logs in.
NodeFound == slot # NoCartridge /\ ~notPresent
LoggedIn == isConnected' = TRUE

\* sinit logs in anew and reads the table; only then the bit is cleared.
SInit(t) ==
  /\ At(t, "sinit")
  /\ NodeFound
  /\ LoggedIn
  /\ table' = ReadTable
  /\ notConnected' = FALSE
  /\ missed' = "no"
  /\ Goto(t, "found")
  /\ UNCHANGED <<slot, record, notPresent, dismounted, seen, astray>>

\* DiskConnect finds no cartridge, or its login fails.
SInitFails(t) ==
  /\ At(t, "sinit")
  /\ isConnected' = FALSE
  /\ notConnected' = TRUE
  /\ missed' = IF t = "health" THEN "noMedia" ELSE missed
  /\ Goto(t, Rest(t))
  /\ UNCHANGED <<slot, record, notPresent, dismounted, table, seen, astray>>

\* The rest of Mount: the time of the cartridge, its version, the lights; then
\* the state is IDLE whatever it has become, and the record switch may start a
\* recording.  Before a time is set it returns without any of this.
Mounted(t) ==
  /\ At(t, "found")
  /\ Goto(t, Rest(t))
  /\ \/ /\ TimeUnset
        /\ missed' = IF dismounted THEN "flag" ELSE missed
        /\ UNCHANGED <<record, dismounted, astray>>
     \/ dismounted' = FALSE /\ status' = "IDLE" /\ UNCHANGED <<recordGo, astray, missed>>
     \/ /\ SwitchOn /\ DiskIsConnected
        /\ dismounted' = FALSE /\ status' = "RECORD" /\ recordGo' = TRUE
        /\ astray' = MountingBut(t) /\ UNCHANGED missed
  /\ UNCHANGED <<slot, bits, isConnected, table, seen>>

-----------------------------------------------------------------------------
(* The operator.                                                           *)

\* .RECORD looks at the connection and the state, then opens a file and starts
\* the hardware.
CmdRecord ==
  /\ At("operator", "ready")
  /\ DiskIsConnected /\ status \in Ready \union {"PLAY"}
  /\ Goto("operator", "record")
  /\ UNCHANGED <<slot, record, bits, link, seen, missed, astray>>

Record ==
  /\ At("operator", "record")
  /\ recordGo' = TRUE
  /\ status' = IF status = "PLAY" THEN "REC_N_PLAY" ELSE "RECORD"
  /\ astray' = (MountingBut("operator") \/ ~DiskIsConnected)
  /\ Goto("operator", "ready")
  /\ UNCHANGED <<slot, bits, link, seen, missed>>

\* Emergency_Stop, and M23_StopRtest, which leaves the state to its callers.
StopRecording == recordGo' = FALSE /\ astray' = FALSE

\* M23_StopPlayback: a recording goes on.
AfterPlayback == IF status = "REC_N_PLAY" THEN "RECORD" ELSE "IDLE"

\* .STOP PLAY, and the control loop when the hardware has played it all.
StopPlayback ==
  /\ status \in {"PLAY", "REC_N_PLAY"}
  /\ status' = AfterPlayback
  /\ UNCHANGED <<recordGo, astray>>

\* .STOP RECORD, and the control loop after a record fault or with a full medium.
StopOfRecord ==
  /\ status \in {"RECORD", "REC_N_PLAY"}
  /\ status' = IF status = "REC_N_PLAY" THEN "PLAY" ELSE "IDLE"
  /\ StopRecording

\* .STOP of both, or of a test.
StopAll ==
  /\ status \in Running \union Tests
  /\ status' = "IDLE"
  /\ IF status = "PLAY" THEN UNCHANGED <<recordGo, astray>> ELSE StopRecording

CmdStop ==
  /\ At("operator", "ready")
  /\ StopPlayback \/ StopOfRecord \/ StopAll
  /\ UNCHANGED <<slot, bits, link, pc, seen, missed>>

\* The control loop polls the hardware in a thread of its own.
LoopStops ==
  /\ StopPlayback \/ StopOfRecord
  /\ UNCHANGED <<slot, bits, link, pc, seen, missed>>

\* M23_StartPlayback knows a recording by RECORD alone: any other that goes on is
\* one the state does not tell of any more.
StartPlayback ==
  /\ status' = IF status = "RECORD" THEN "REC_N_PLAY" ELSE "PLAY"
  /\ astray' = (astray \/ status \in {"REC_N_PLAY", "RTEST", "P_R_TEST"})

\* .PLAY in any state but a playing one.
CmdPlay ==
  /\ At("operator", "ready")
  /\ DiskIsConnected /\ status \notin {"PLAY", "REC_N_PLAY"}
  /\ StartPlayback
  /\ UNCHANGED <<slot, recordGo, bits, link, pc, seen, missed>>

\* ..SPEED does not look at the state.
CmdSpeed ==
  /\ At("operator", "ready")
  /\ DiskIsConnected
  /\ StartPlayback
  /\ UNCHANGED <<slot, recordGo, bits, link, pc, seen, missed>>

\* M23_PerformRtest opens a file and starts the hardware, whatever the state.
StartRtest == recordGo' = TRUE

\* .RTEST; a recording stays one.
CmdRTest ==
  /\ At("operator", "ready")
  /\ DiskIsConnected
  /\ StartRtest
  /\ status' = Settable("RTEST")
  /\ astray' = (astray \/ MountingBut("operator"))
  /\ UNCHANGED <<slot, bits, link, pc, seen, missed>>

\* The control loop ends a record test when the medium is full.
RTestEnds ==
  /\ status \in {"RTEST", "P_R_TEST"}
  /\ status' = "IDLE"
  /\ StopRecording
  /\ UNCHANGED <<slot, bits, link, pc, seen, missed>>

\* .PTEST looks at nothing; the state stays PTEST until .STOP, though the control
\* loop stops the hardware.  Of what is recorded it keeps a record test only.
CmdPTest ==
  /\ At("operator", "ready")
  /\ status' = IF status = "RTEST" THEN "P_R_TEST" ELSE Settable("PTEST")
  /\ astray' = (astray \/ status \in {"REC_N_PLAY", "P_R_TEST"})
  /\ UNCHANGED <<slot, recordGo, bits, link, pc, seen, missed>>

\* .BIT; the control loop ends it after twenty passes.
CmdBit ==
  /\ At("operator", "ready")
  /\ status \in Ready
  /\ status' = "BIT"
  /\ UNCHANGED <<slot, recordGo, bits, link, pc, seen, missed, astray>>

BitEnds ==
  /\ status = "BIT"
  /\ status' = Settable("IDLE")
  /\ UNCHANGED <<slot, recordGo, bits, link, pc, seen, missed, astray>>

CmdDismount ==
  /\ At("operator", "ready")
  /\ status \in Ready
  /\ Dismount
  /\ UNCHANGED <<slot, record, notPresent, pc, seen, missed, astray>>

\* .MOUNT takes back a dismount when one was given, and mounts otherwise.
CmdMount ==
  /\ At("operator", "ready")
  /\ slot # NoCartridge
  /\ IF dismounted
     THEN /\ dismounted' = FALSE /\ notConnected' = FALSE
          /\ UNCHANGED pc
     ELSE /\ ~DiskIsConnected
          /\ Goto("operator", "mount")
          /\ UNCHANGED <<dismounted, notConnected>>
  /\ UNCHANGED <<slot, record, notPresent, isConnected, table, seen, missed, astray>>

-----------------------------------------------------------------------------
(* The hands at the receiver.                                              *)

Pull ==
  /\ slot # NoCartridge
  /\ slot' = NoCartridge
  /\ UNCHANGED <<record, bits, link, pc, seen, missed, astray>>

\* A cartridge takes longer to swap than the 0.2 s of a pass; only while the
\* health thread waits to mount, or mounts, is a removal not noticed before the
\* next insertion.
Insert ==
  /\ slot = NoCartridge
  /\ notPresent \/ pc["health"] \in {"mount", "sinit", "found"}
  /\ \E c \in Cartridges :
       /\ slot' = c
       /\ missed' = IF At("health", "found") /\ c # table THEN "swap" ELSE missed
  /\ UNCHANGED <<record, bits, link, pc, seen, astray>>

-----------------------------------------------------------------------------
Mount(t) == MountRefused(t) \/ MountBegins(t) \/ SInit(t) \/ SInitFails(t) \/ Mounted(t)
Health == Look \/ RemovedRunning \/ Removed \/ Inserted \/ Unchanged \/ Mount("health")
Operator ==
  \/ CmdRecord \/ Record \/ CmdStop \/ CmdPlay \/ CmdSpeed \/ CmdRTest \/ CmdPTest
  \/ CmdBit \/ CmdDismount \/ CmdMount
  \/ Mount("operator")

Control == LoopStops \/ RTestEnds \/ BitEnds

Next == Health \/ Operator \/ Control \/ Pull \/ Insert

\* The health thread runs for ever; a thread goes on with a Mount it began.
Fairness ==
  /\ WF_vars(Health)
  /\ WF_vars(Mount("operator"))

Spec == Init /\ [][Next]_vars /\ Fairness

-----------------------------------------------------------------------------
TypeOK ==
  /\ slot \in Cartridges \union {NoCartridge}
  /\ table \in Cartridges \union {NoCartridge}
  /\ status \in States
  /\ {recordGo, notPresent, notConnected, isConnected, dismounted, astray} \subseteq BOOLEAN
  /\ pc["health"] \in {"poll", "act", "mount", "sinit", "found"}
  /\ pc["operator"] \in {"ready", "record", "mount", "sinit", "found"}
  /\ seen \in [state : States, absent : BOOLEAN]
  /\ missed \in {"no", "dismount", "mount", "noMedia", "flag", "swap"}

\* Once the health thread has noticed that the receiver is empty, the disk is
\* not taken as connected, unless Dismount or Mount was refused because of a
\* running operation, or a Mount before the time was set left M23_DismountCommand.
AbsenceIsKnown ==
  notPresent /\ slot = NoCartridge /\ missed \in {"no", "noMedia"} => ~DiskIsConnected

\* A recording is placed by the table of the cartridge it goes to, whatever was
\* swapped before, unless one of these was missed (see missed), the state does
\* not tell of the recording (see astray), or the health thread waits out the
\* settling time and looks at nothing.
RecordsByItsOwnTable ==
  /\ recordGo /\ slot # NoCartridge
  /\ missed \in {"no", "noMedia"} /\ ~astray /\ ~At("health", "mount")
  => table = slot

\* A recording whose cartridge is pulled is stopped by the health thread, unless
\* a test refused the Dismount or the state does not tell of the recording.
RemovalEndsRecording ==
  recordGo /\ slot = NoCartridge /\ ~notPresent
    ~> ~recordGo \/ slot # NoCartridge \/ missed = "dismount" \/ astray
=============================================================================
