---------------------------- MODULE Cartridge_proofs ----------------------------
(***************************************************************************)
(* Proofs about Cartridge, for any set of cartridges, with a time source     *)
(* that is set or not and a record switch that is on or off.                 *)
(***************************************************************************)
EXTENDS Cartridge, TLAPS

\* The type invariant with the threads' places as a function.
Flags ==
  /\ recordGo \in BOOLEAN /\ notPresent \in BOOLEAN /\ notConnected \in BOOLEAN
  /\ isConnected \in BOOLEAN /\ dismounted \in BOOLEAN /\ astray \in BOOLEAN
  /\ seen.absent \in BOOLEAN

Places ==
  /\ pc \in [Threads -> {"poll", "act", "ready", "record", "mount", "sinit", "found"}]
  /\ pc["health"] \in {"poll", "act", "mount", "sinit", "found"}
  /\ pc["operator"] \in {"ready", "record", "mount", "sinit", "found"}

Words ==
  /\ slot \in Cartridges \union {NoCartridge}
  /\ table \in Cartridges \union {NoCartridge}
  /\ status \in States
  /\ seen \in [state : States, absent : BOOLEAN]
  /\ missed \in {"no", "dismount", "mount", "noMedia", "flag", "swap"}

Types == Flags /\ Places /\ Words

USE DEF bits, link, record, vars, NodeFound, LoggedIn

\* The steps of the operator and the control loop that move the state and what the
\* hardware does, and nothing else.
StateStep ==
  CmdStop \/ CmdPlay \/ CmdSpeed \/ CmdRTest \/ CmdPTest \/ CmdBit \/ Control

-----------------------------------------------------------------------------
LEMMA StateStepTypes ==
  ASSUME Flags, Words, StateStep
  PROVE  /\ UNCHANGED <<slot, bits, link, pc, seen, missed>>
         /\ Flags' /\ Words'
<1> USE DEF Flags, Words, States, Running, Ready, Tests
<1>1. CASE CmdStop \/ LoopStops
  <2>1. UNCHANGED <<slot, bits, link, pc, seen, missed>> /\ (StopPlayback \/ StopOfRecord \/ StopAll)
    BY <1>1 DEF CmdStop, LoopStops
  <2>2. CASE StopPlayback
    BY <2>1, <2>2 DEF StopPlayback, AfterPlayback
  <2>3. CASE StopOfRecord
    <3>1. status' \in States
      BY <2>3, Zenon DEF StopOfRecord
    <3>2. recordGo' \in BOOLEAN /\ astray' \in BOOLEAN
      BY <2>3, Zenon DEF StopOfRecord, StopRecording
    <3>3. QED
      BY <2>1, <3>1, <3>2
  <2>4. CASE StopAll
    <3>1. astray' \in BOOLEAN /\ recordGo' \in BOOLEAN
      BY <2>4, Zenon DEF StopAll, StopRecording
    <3>2. status' \in States
      BY <2>4 DEF StopAll
    <3>3. QED
      BY <2>1, <3>1, <3>2
  <2>5. QED
    BY <2>1, <2>2, <2>3, <2>4
<1>2. ASSUME StartPlayback
      PROVE  status' \in States /\ astray' \in BOOLEAN
  <2>1. status \in {"REC_N_PLAY", "RTEST", "P_R_TEST"} \/ status \notin {"REC_N_PLAY", "RTEST", "P_R_TEST"}
    OBVIOUS
  <2>2. astray' \in BOOLEAN
    BY <1>2, Zenon DEF StartPlayback
  <2>3. QED
    BY <1>2, <2>2 DEF StartPlayback
<1>3. CASE CmdPlay \/ CmdSpeed
  BY <1>2, <1>3 DEF CmdPlay, CmdSpeed
<1>4. CASE CmdRTest
  <2>1. astray' \in BOOLEAN
    BY <1>4, Zenon DEF CmdRTest, MountingBut
  <2>2. QED
    BY <1>4, <2>1 DEF CmdRTest, StartRtest, Settable
<1>5. CASE CmdPTest
  <2>1. astray' \in BOOLEAN
    BY <1>5, Zenon DEF CmdPTest
  <2>2. QED
    BY <1>5, <2>1 DEF CmdPTest, Settable
<1>6. CASE CmdBit
  BY <1>6 DEF CmdBit
<1>7. CASE BitEnds
  BY <1>7 DEF BitEnds, Settable
<1>8. CASE RTestEnds
  <2>1. recordGo' \in BOOLEAN /\ astray' \in BOOLEAN
    BY <1>8, Zenon DEF RTestEnds, StopRecording
  <2>2. QED
    BY <1>8, <2>1 DEF RTestEnds
<1>9. QED
  BY <1>1, <1>3, <1>4, <1>5, <1>6, <1>7, <1>8 DEF StateStep, Control

LEMMA FlagsStep ==
  ASSUME Flags, Words, [Next]_vars
  PROVE  Flags'
<1> USE DEF Flags
<1>1. ASSUME Dismount
      PROVE  notConnected' \in BOOLEAN /\ isConnected' \in BOOLEAN /\ dismounted' \in BOOLEAN
  BY <1>1 DEF Dismount
<1>2. CASE Look
  BY <1>2 DEF Look
<1>3. CASE RemovedRunning
  BY <1>3 DEF RemovedRunning, RemovalStop
<1>4. CASE Removed
  BY <1>1, <1>4 DEF Removed
<1>5. CASE Inserted
  BY <1>5 DEF Inserted
<1>6. CASE Unchanged
  BY <1>6, Zenon DEF Unchanged
<1>7. ASSUME NEW t \in Threads, Mount(t)
      PROVE  Flags'
  <2>1. CASE MountRefused(t) \/ MountBegins(t)
    BY <2>1 DEF MountRefused, MountBegins
  <2>2. CASE SInit(t) \/ SInitFails(t)
    BY <2>2 DEF SInit, SInitFails
  <2>3. CASE Mounted(t)
    <3>1. MountingBut(t) \in BOOLEAN
      BY Zenon DEF MountingBut
    <3>2. QED
      BY <2>3, <3>1, Zenon DEF Mounted
  <2>4. QED
    BY <1>7, <2>1, <2>2, <2>3 DEF Mount
<1>8. CASE Record
  BY <1>8, Zenon DEF Record, MountingBut
<1>9. CASE CmdDismount
  BY <1>1, <1>9 DEF CmdDismount
<1>10. CASE CmdMount
  BY <1>10 DEF CmdMount
<1>11. CASE StateStep
  BY <1>11, StateStepTypes
<1>12. CASE CmdRecord \/ Pull \/ Insert
  BY <1>12 DEF CmdRecord, Pull, Insert
<1>13. CASE UNCHANGED vars
  BY <1>13
<1>14. QED
  BY <1>2, <1>3, <1>4, <1>5, <1>6, <1>7, <1>8, <1>9, <1>10, <1>11, <1>12, <1>13
     DEF Next, Health, Operator, Threads, StateStep

LEMMA PlacesStep ==
  ASSUME Places, [Next]_vars
  PROVE  Places'
<1> USE DEF Places, Threads, Goto, At, Rest
<1>1. CASE Health
  <2>1. CASE Mount("health")
    BY <2>1 DEF Mount, MountRefused, MountBegins, SInit, SInitFails, Mounted
  <2>2. QED
    BY <1>1, <2>1 DEF Health, Look, RemovedRunning, Removed, Inserted, Unchanged
<1>2. CASE Operator
  <2>1. CASE Mount("operator")
    BY <2>1 DEF Mount, MountRefused, MountBegins, SInit, SInitFails, Mounted
  <2>2. QED
    BY <1>2, <2>1 DEF Operator, CmdRecord, Record, CmdStop, CmdPlay, CmdSpeed, CmdRTest, CmdPTest,
                      CmdBit, CmdDismount, CmdMount
<1>3. CASE UNCHANGED pc
  BY <1>3
<1>4. QED
  BY <1>1, <1>2, <1>3 DEF Next, Control, LoopStops, RTestEnds, BitEnds, Pull, Insert

LEMMA WordsStep ==
  ASSUME Flags, Words, [Next]_vars
  PROVE  Words'
<1> USE DEF Words, States, Running, Ready
<1>1. CASE Look
  <2>1. (slot = NoCartridge) \in BOOLEAN
    OBVIOUS
  <2>2. QED
    BY <1>1, <2>1 DEF Look
<1>2. CASE RemovedRunning \/ Removed \/ Inserted \/ Unchanged
  BY <1>2 DEF RemovedRunning, RemovalStop, Removed, Inserted, Unchanged, Dismount, Noticed
<1>3. ASSUME NEW t \in Threads, Mount(t)
      PROVE  Words'
  BY <1>3 DEF Mount, MountRefused, MountBegins, SInit, ReadTable, SInitFails, Mounted
<1>4. CASE CmdRecord \/ Record \/ CmdDismount \/ CmdMount
  BY <1>4 DEF CmdRecord, Record, CmdDismount, Dismount, CmdMount
<1>5. CASE StateStep
  BY <1>5, StateStepTypes
<1>6. CASE Pull \/ Insert
  BY <1>6 DEF Pull, Insert
<1>7. CASE UNCHANGED vars
  BY <1>7
<1>8. QED
  BY <1>1, <1>2, <1>3, <1>4, <1>5, <1>6, <1>7 DEF Next, Health, Operator, Threads, StateStep

LEMMA TypesInit == Init => Types
<1> SUFFICES ASSUME Init
             PROVE  Types
  OBVIOUS
<1>1. Flags
  <2>1. (slot = NoCartridge) \in BOOLEAN /\ (slot # NoCartridge) \in BOOLEAN
    OBVIOUS
  <2>2. QED
    BY <2>1, Zenon DEF Init, Flags
<1>2. Places
  BY DEF Init, Places, Threads, Rest
<1>3. Words
  BY DEF Init, Words, States, Ready
<1>4. QED
  BY <1>1, <1>2, <1>3 DEF Types

LEMMA TypesStep == Types /\ [Next]_vars => Types'
BY FlagsStep, PlacesStep, WordsStep DEF Types

LEMMA TypesGive == Types => TypeOK
<1> SUFFICES ASSUME Types
             PROVE  TypeOK
  OBVIOUS
<1>1. {recordGo, notPresent, notConnected, isConnected, dismounted, astray} \subseteq BOOLEAN
  BY DEF Types, Flags
<1>2. QED
  BY <1>1 DEF Types, Places, Words, States, TypeOK

-----------------------------------------------------------------------------
(* The strengthening.                                                      *)

\* Nothing was missed that a removal does not make up for.
Told == missed \in {"no", "noMedia"}

\* A thread is in a Mount that has found its cartridge.
Found == pc["health"] = "found" \/ pc["operator"] = "found"
Mounting == {pc["health"], pc["operator"]} \cap {"sinit", "found"} # {}

\* A removal seen in this pass is still one: nothing is inserted before the
\* health thread has noticed it.
SeenIsTrue == At("health", "act") /\ seen.absent /\ ~notPresent => slot = NoCartridge

\* The operator does not record while in a Mount of his own.
OneCommand == status = "REC_N_PLAY" => pc["operator"] \notin {"sinit", "found"}

Recording == {"RECORD", "REC_N_PLAY", "RTEST", "P_R_TEST"}

\* A recording that nothing took from the state is known as one, and no Mount is under way.
RecordingIsKnown == recordGo /\ ~astray => status \in Recording /\ ~Mounting

\* The flag of a Dismount goes with a disk that is not taken as connected, but
\* for the time from sinit to the end of Mount.
FlagIsTaken ==
  /\ DiskIsConnected /\ Told /\ dismounted => Found
  /\ (status \in Running \/ At("operator", "record")) /\ Told /\ dismounted /\ isConnected => Found

\* A removal that was noticed has left the disk not connected, and ended the
\* recording.
RemovalIsTaken ==
  /\ notPresent /\ Told /\ isConnected => notConnected /\ ~dismounted
  /\ notPresent /\ Told /\ ~astray => ~recordGo

\* The table is that of the cartridge in the receiver, whenever it is taken as
\* connected or could be by taking back a Dismount.
TableIsItsOwn ==
  slot # NoCartridge /\ Told /\ isConnected /\ pc["health"] \notin {"mount", "sinit"}
     /\ (~notConnected \/ dismounted)
  => table = slot

IInv ==
  /\ SeenIsTrue /\ OneCommand /\ RecordingIsKnown /\ FlagIsTaken /\ RemovalIsTaken
  /\ TableIsItsOwn /\ RecordsByItsOwnTable

LEMMA IInvInit == Init => IInv
BY DEF Init, IInv, SeenIsTrue, OneCommand, RecordingIsKnown, FlagIsTaken, RemovalIsTaken,
       TableIsItsOwn, RecordsByItsOwnTable, At, DiskIsConnected, Threads, Rest, Running, Told

\* What the strengthening needs of a step that moves the state: a playback or recording
\* is begun with a connected disk by an operator who is not in a Mount.
StateChange ==
  /\ UNCHANGED <<slot, bits, link, pc, seen, missed>>
  /\ status' \in Running => status \in Running \/ DiskIsConnected
  /\ status' = "REC_N_PLAY" => status = "REC_N_PLAY" \/ At("operator", "ready")
  /\ recordGo' /\ ~astray' =>
       /\ status' \in Recording /\ ~Mounting
       /\ (recordGo /\ ~astray) \/ DiskIsConnected

LEMMA StateStepChanges ==
  ASSUME Flags, Places, Words, RecordingIsKnown, StateStep
  PROVE  StateChange
<1> USE DEF StateChange, RecordingIsKnown, Recording, Running
<1>1. UNCHANGED <<slot, bits, link, pc, seen, missed>>
  BY StateStepTypes
<1>2. CASE CmdStop \/ LoopStops
  BY <1>1, <1>2 DEF CmdStop, LoopStops, StopPlayback, AfterPlayback, StopOfRecord, StopAll,
                    StopRecording, Flags
<1>3. CASE CmdPlay \/ CmdSpeed
  BY <1>1, <1>3 DEF CmdPlay, CmdSpeed, StartPlayback, Flags
<1>4. CASE CmdRTest
  <2>1. MountingBut("operator") \/ ~Mounting
    BY <1>4 DEF CmdRTest, MountingBut, Mounting, At, Threads
  <2>2. astray' \/ ~Mounting
    BY <1>4, <2>1 DEF CmdRTest
  <2>3. astray' \/ ~astray
    BY <1>4 DEF CmdRTest
  <2>4. status' \in {"RECORD", "RTEST"} /\ DiskIsConnected /\ (status' = "RECORD" => status = "RECORD")
    BY <1>4 DEF CmdRTest, Settable
  <2>5. QED
    BY <1>1, <2>2, <2>3, <2>4
<1>5. CASE CmdPTest
  BY <1>1, <1>5 DEF CmdPTest, Settable, Flags
<1>6. CASE CmdBit \/ BitEnds \/ RTestEnds
  BY <1>1, <1>6 DEF CmdBit, BitEnds, RTestEnds, Settable, StopRecording, Ready, Flags
<1>7. QED
  BY <1>2, <1>3, <1>4, <1>5, <1>6 DEF StateStep, Control

LEMMA SeenIsTrueStep ==
  ASSUME Places, SeenIsTrue, [Next]_vars
  PROVE  SeenIsTrue'
<1> USE DEF Places, SeenIsTrue, Threads, Goto, At, Rest
<1>1. CASE Health
  <2>1. CASE Mount("health")
    BY <2>1 DEF Mount, MountRefused, MountBegins, SInit, SInitFails, Mounted
  <2>2. CASE Look
    BY <2>2 DEF Look
  <2>3. QED
    BY <1>1, <2>1, <2>2 DEF Health, RemovedRunning, Removed, Inserted, Unchanged
<1>2. CASE Operator
  <2>1. CASE Mount("operator")
    BY <2>1 DEF Mount, MountRefused, MountBegins, SInit, SInitFails, Mounted
  <2>2. QED
    BY <1>2, <2>1 DEF Operator, CmdRecord, Record, CmdStop, CmdPlay, CmdSpeed, CmdRTest, CmdPTest,
                      CmdBit, CmdDismount, CmdMount
<1>3. CASE Control \/ Pull \/ Insert
  BY <1>3 DEF Control, LoopStops, RTestEnds, BitEnds, Pull, Insert
<1>4. CASE UNCHANGED vars
  BY <1>4
<1>5. QED
  BY <1>1, <1>2, <1>3, <1>4 DEF Next

LEMMA OneCommandStep ==
  ASSUME Flags, Places, Words, RecordingIsKnown, OneCommand, [Next]_vars
  PROVE  OneCommand'
<1> USE DEF Places, OneCommand, Threads, Goto, At, Rest
<1>1. CASE Health
  <2>1. CASE Mount("health")
    BY <2>1 DEF Mount, MountRefused, MountBegins, SInit, SInitFails, Mounted
  <2>2. QED
    BY <1>1, <2>1 DEF Health, Look, RemovedRunning, RemovalStop, Removed, Inserted, Unchanged
<1>5. CASE StateStep
  BY <1>5, StateStepChanges DEF StateChange
<1>2. CASE Operator
  <2>1. CASE Mount("operator")
    BY <2>1 DEF Mount, MountRefused, MountBegins, SInit, SInitFails, Mounted, Ready
  <2>2. QED
    BY <1>2, <1>5, <2>1 DEF Operator, StateStep, CmdRecord, Record, CmdDismount, CmdMount
<1>3. CASE Control \/ Pull \/ Insert
  BY <1>3, <1>5 DEF StateStep, Pull, Insert
<1>4. CASE UNCHANGED vars
  BY <1>4
<1>6. QED
  BY <1>1, <1>2, <1>3, <1>4 DEF Next

LEMMA RecordingIsKnownStep ==
  ASSUME Flags, Places, Words, RecordingIsKnown, [Next]_vars
  PROVE  RecordingIsKnown'
<1> USE DEF Places, RecordingIsKnown, Recording, Mounting, Threads, Goto, At, Rest
<1>1. CASE Health
  <2>1. CASE Mount("health")
    BY <2>1 DEF Mount, MountRefused, MountBegins, SInit, SInitFails, Mounted, MountingBut, Ready
  <2>2. QED
    BY <1>1, <2>1 DEF Health, Look, RemovedRunning, RemovalStop, Removed, Inserted, Unchanged
<1>5. CASE StateStep
  BY <1>5, StateStepChanges DEF StateChange
<1>2. CASE Operator
  <2>1. CASE Mount("operator")
    BY <2>1 DEF Mount, MountRefused, MountBegins, SInit, SInitFails, Mounted, MountingBut, Ready
  <2>2. CASE Record
    BY <2>2 DEF Record, MountingBut
  <2>3. QED
    BY <1>2, <1>5, <2>1, <2>2 DEF Operator, StateStep, CmdRecord, CmdDismount, CmdMount
<1>3. CASE Control \/ Pull \/ Insert
  BY <1>3, <1>5 DEF StateStep, Pull, Insert
<1>4. CASE UNCHANGED vars
  BY <1>4
<1>6. QED
  BY <1>1, <1>2, <1>3, <1>4 DEF Next

LEMMA FlagIsTakenStep ==
  ASSUME Flags, Places, Words, SeenIsTrue, OneCommand, RecordingIsKnown, FlagIsTaken, [Next]_vars
  PROVE  FlagIsTaken'
<1> USE DEF Flags, Places, FlagIsTaken, Told, Found, DiskIsConnected, Threads, Goto, At, Rest,
            Running, Ready
<1>1. ASSUME NEW t \in Threads, Mount(t)
      PROVE  FlagIsTaken'
  BY <1>1 DEF Mount, MountRefused, MountBegins, SInit, SInitFails, Mounted, OneCommand
<1>2. CASE RemovedRunning
  BY <1>2 DEF RemovedRunning, RemovalStop, Noticed
<1>3. CASE Removed
  BY <1>3 DEF Removed, Dismount, Noticed, SeenIsTrue
<1>4. CASE Look \/ Inserted \/ Unchanged
  BY <1>4 DEF Look, Inserted, Unchanged
<1>5. CASE CmdRecord \/ Record
  BY <1>5 DEF CmdRecord, Record
<1>6. CASE StateStep
  BY <1>6, StateStepChanges DEF StateChange
<1>7. CASE CmdDismount \/ CmdMount
  BY <1>7 DEF CmdDismount, Dismount, CmdMount
<1>8. CASE Pull \/ Insert \/ UNCHANGED vars
  BY <1>8 DEF Pull, Insert
<1>9. QED
  BY <1>1, <1>2, <1>3, <1>4, <1>5, <1>6, <1>7, <1>8 DEF Next, Health, Operator, Threads, StateStep

LEMMA RemovalIsTakenStep ==
  ASSUME Flags, Places, Words, SeenIsTrue, OneCommand, RecordingIsKnown, FlagIsTaken,
         RemovalIsTaken, [Next]_vars
  PROVE  RemovalIsTaken'
<1> USE DEF Flags, Places, RemovalIsTaken, Told, Found, DiskIsConnected, Threads, Goto, At, Rest,
            Running, Ready
<1>1. ASSUME NEW t \in Threads, Mount(t)
      PROVE  RemovalIsTaken'
  <2>1. CASE MountRefused(t) \/ MountBegins(t)
    BY <2>1 DEF MountRefused, MountBegins
  <2>2. CASE SInit(t) \/ SInitFails(t)
    <3>1. CASE SInit(t)
      BY <3>1 DEF SInit
    <3>2. CASE SInitFails(t)
      <4>1. recordGo => astray
        BY <3>2 DEF SInitFails, RecordingIsKnown, Mounting
      <4>2. QED
        BY <3>2, <4>1 DEF SInitFails
    <3>3. QED
      BY <2>2, <3>1, <3>2
  <2>3. CASE Mounted(t)
    <3>1. CASE DiskIsConnected /\ status' = "RECORD" /\ dismounted' = FALSE
      BY <2>3, <3>1 DEF Mounted
    <3>2. CASE UNCHANGED <<recordGo, astray>> /\ (dismounted' = FALSE \/ UNCHANGED dismounted)
      BY <2>3, <3>2 DEF Mounted
    <3>3. QED
      BY <2>3, <3>1, <3>2 DEF Mounted
  <2>4. QED
    BY <1>1, <2>1, <2>2, <2>3 DEF Mount
<1>2. CASE RemovedRunning
  BY <1>2 DEF RemovedRunning, RemovalStop, Noticed, FlagIsTaken, OneCommand
<1>3. CASE Removed
  BY <1>3 DEF Removed, Dismount, Noticed, SeenIsTrue, RecordingIsKnown, Recording
<1>4. CASE Look \/ Inserted \/ Unchanged
  BY <1>4 DEF Look, Inserted, Unchanged
<1>5. CASE Record
  BY <1>5 DEF Record, MountingBut
<1>6. CASE CmdRecord \/ StateStep
  BY <1>6, StateStepChanges DEF CmdRecord, StateChange
<1>7. CASE CmdDismount \/ CmdMount
  BY <1>7 DEF CmdDismount, Dismount, CmdMount
<1>8. CASE Pull \/ Insert \/ UNCHANGED vars
  BY <1>8 DEF Pull, Insert
<1>9. QED
  BY <1>1, <1>2, <1>3, <1>4, <1>5, <1>6, <1>7, <1>8 DEF Next, Health, Operator, Threads, StateStep

LEMMA TableIsItsOwnStep ==
  ASSUME Flags, Places, Words, RecordingIsKnown, RemovalIsTaken, TableIsItsOwn, [Next]_vars
  PROVE  TableIsItsOwn'
<1> USE DEF Flags, Places, TableIsItsOwn, Told, DiskIsConnected, Threads, Goto, At, Rest, Ready
<1>1. ASSUME NEW t \in Threads, Mount(t)
      PROVE  TableIsItsOwn'
  <2>1. CASE MountRefused(t) \/ MountBegins(t)
    BY <2>1 DEF MountRefused, MountBegins
  <2>2. CASE SInit(t) \/ SInitFails(t)
    BY <2>2 DEF SInit, SInitFails, ReadTable
  <2>3. CASE Mounted(t)
    BY <2>3 DEF Mounted
  <2>4. QED
    BY <1>1, <2>1, <2>2, <2>3 DEF Mount
<1>2. CASE RemovedRunning
  BY <1>2 DEF RemovedRunning, Noticed, RemovalIsTaken
<1>3. CASE Removed
  BY <1>3 DEF Removed, Dismount, Noticed, RemovalIsTaken
<1>4. CASE Look \/ Inserted \/ Unchanged
  BY <1>4 DEF Look, Inserted, Unchanged
<1>5. CASE CmdRecord \/ Record \/ StateStep
  BY <1>5, StateStepChanges DEF CmdRecord, Record, StateChange
<1>6. CASE CmdDismount \/ CmdMount
  BY <1>6 DEF CmdDismount, Dismount, CmdMount
<1>7. CASE Pull
  BY <1>7 DEF Pull
<1>8. CASE Insert
  BY <1>8 DEF Insert, RemovalIsTaken
<1>9. CASE UNCHANGED vars
  BY <1>9
<1>10. QED
  BY <1>1, <1>2, <1>3, <1>4, <1>5, <1>6, <1>7, <1>8, <1>9 DEF Next, Health, Operator, Threads, StateStep

LEMMA OwnTableStep ==
  ASSUME Flags, Places, Words, RecordingIsKnown, RemovalIsTaken, TableIsItsOwn,
         RecordsByItsOwnTable, [Next]_vars
  PROVE  RecordsByItsOwnTable'
<1> USE DEF Flags, Places, RecordsByItsOwnTable, Told, DiskIsConnected, Threads, Goto, At, Rest
<1>1. ASSUME NEW t \in Threads, Mount(t)
      PROVE  RecordsByItsOwnTable'
  <2>1. CASE MountRefused(t) \/ MountBegins(t)
    BY <2>1 DEF MountRefused, MountBegins, Ready, RecordingIsKnown, Recording
  <2>2. CASE SInit(t) \/ SInitFails(t)
    BY <2>2 DEF SInit, SInitFails, ReadTable, RecordingIsKnown, Mounting
  <2>3. CASE Mounted(t)
    BY <2>3 DEF Mounted, MountingBut, TableIsItsOwn, RecordingIsKnown, Mounting
  <2>4. QED
    BY <1>1, <2>1, <2>2, <2>3 DEF Mount
<1>2. CASE RemovedRunning
  BY <1>2 DEF RemovedRunning, RemovalStop
<1>3. CASE Removed
  BY <1>3 DEF Removed, Dismount, Noticed, RecordingIsKnown, Ready
<1>4. CASE Look \/ Inserted \/ Unchanged
  BY <1>4 DEF Look, Inserted, Unchanged
<1>5. CASE Record
  BY <1>5 DEF Record, MountingBut, TableIsItsOwn
<1>6. CASE CmdRecord \/ StateStep
  <2>1. CASE CmdRecord
    BY <2>1 DEF CmdRecord
  <2>2. CASE StateStep
    <3>1. StateChange
      BY <2>2, StateStepChanges
    <3>2. QED
      BY <3>1 DEF StateChange, TableIsItsOwn, Mounting
  <2>3. QED
    BY <1>6, <2>1, <2>2
<1>7. CASE CmdDismount \/ CmdMount
  BY <1>7 DEF CmdDismount, Dismount, CmdMount
<1>8. CASE Pull
  BY <1>8 DEF Pull
<1>9. CASE Insert
  BY <1>9 DEF Insert, RemovalIsTaken, RecordingIsKnown, Mounting
<1>10. CASE UNCHANGED vars
  BY <1>10
<1>11. QED
  BY <1>1, <1>2, <1>3, <1>4, <1>5, <1>6, <1>7, <1>8, <1>9, <1>10 DEF Next, Health, Operator, Threads, StateStep

LEMMA IInvStep == Types /\ IInv /\ [Next]_vars => (Types /\ IInv)'
BY TypesStep, SeenIsTrueStep, OneCommandStep, RecordingIsKnownStep, FlagIsTakenStep,
   RemovalIsTakenStep, TableIsItsOwnStep, OwnTableStep
   DEF Types, IInv

LEMMA Invariance == Spec => [](Types /\ IInv)
BY TypesInit, IInvInit, IInvStep, PTL DEF Spec

-----------------------------------------------------------------------------
\* Every variable keeps its range, for any set of cartridges.
THEOREM TypeCorrect == Spec => []TypeOK
BY TypesGive, Invariance, PTL

\* AbsenceIsKnown: a removal that was noticed leaves the disk not connected
\* (DiskIsConnected, the check of .RECORD and .PLAY), however health thread, operator
\* and hands interleave, unless a Dismount or Mount was refused.
THEOREM AbsenceKnown == Spec => []AbsenceIsKnown
<1>1. Types /\ IInv => AbsenceIsKnown
  BY DEF Types, Flags, IInv, RemovalIsTaken, AbsenceIsKnown, DiskIsConnected, Told
<1>2. QED
  BY <1>1, Invariance, PTL

\* RecordsByItsOwnTable: the next free block is taken from the table of the very
\* cartridge recorded on, however many cartridges are swapped and whenever.
THEOREM OwnTable == Spec => []RecordsByItsOwnTable
<1>1. Types /\ IInv => RecordsByItsOwnTable
  BY DEF IInv
<1>2. QED
  BY <1>1, Invariance, PTL
=============================================================================
