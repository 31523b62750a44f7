----------------------------- MODULE Remote_proofs -----------------------------
(***************************************************************************)
(* Proofs about Remote, for recorders that always record and those that do  *)
(* not, however often the switches are moved and commands are given.        *)
(***************************************************************************)
EXTENDS Remote, TLAPS

\* The parts of the type invariant: flags, and the rest.
Flags ==
  /\ lever \in BOOLEAN /\ writing \in BOOLEAN /\ ready \in BOOLEAN /\ started \in BOOLEAN
  /\ RecordUsed \in BOOLEAN /\ previous_record \in BOOLEAN /\ InitialSetup \in BOOLEAN
  /\ EraseSet \in BOOLEAN /\ BitSet \in BOOLEAN /\ bit \in BOOLEAN /\ shown \in BOOLEAN
  /\ req.lever \in BOOLEAN

Words ==
  /\ auto \in AutoRecords /\ toggle \in Toggles
  /\ state \in States /\ by \in {"nobody", "remote", "other", "auto"}
  /\ pc \in {"rest", "handle", "stop", "turn", "setup", "answer"}
  /\ erasecount \in 0 .. 2 /\ bitcount \in 0 .. 3
  /\ port \in {"free", "stop", "erase", "setup"}
  /\ moves \in 0 .. MaxMoves /\ commands \in 0 .. MaxCommands

\* A request is what the terminal sent, with the state as it was then.
Request == req \in [toggle : Toggles, lever : BOOLEAN, turned : BOOLEAN, status : States]

USE DEF hand, recorder, blinking, memory, others

-----------------------------------------------------------------------------
\* A request copies switches and a state that are well typed; handling it only
\* takes the toggle out.
LEMMA RequestStep ==
  ASSUME Request, Flags, Words, [Next]_vars
  PROVE  Request'
<1> USE DEF Request
<1>1. ASSUME Receive
      PROVE  Request'
  BY <1>1 DEF Receive, Flags, Words
<1>2. ASSUME NEW next, Handled(next)
      PROVE  Request'
  BY <1>2 DEF Handled, Toggles
<1>3. CASE Handle
  <2>1. CASE \E next \in {"stop", "turn"} : Handled(next)
    BY <2>1, <1>2
  <2>2. CASE StopDone \/ TurnSetsUp \/ TurnNothing \/ SetupDone
    BY <2>2 DEF StopDone, TurnSetsUp, TurnNothing, Turned, SetupDone
  <2>3. CASE Answer
    BY <2>3 DEF Answer, NoRequest, Toggles, States
  <2>4. QED
    BY <1>3, <2>1, <2>2, <2>3 DEF Handle, DeclassifyAsked, EraseAsked, IbitAsked, LeverDown,
                                  LeverUp, Blink, ClearError
<1>4. CASE UNCHANGED req
  BY <1>4
<1>5. QED
  BY <1>1, <1>3, <1>4 DEF Next, vars, Started, Others, Move, MediumChanges, OthersStep, PortRecord,
         PortPlay, PlayEnds, PortBit, PortStop, PortStopped, PortErase, PortErased, PortSetup,
         PortSetupDone, PortStatus, BitEnds, DeclassifyEnds

\* No step of the handler makes a flag anything but TRUE or FALSE.
LEMMA HandleFlags ==
  ASSUME Flags, req'.lever \in BOOLEAN, Handle
  PROVE  Flags'
<1> USE DEF Flags
<1>1. CASE DeclassifyAsked
  BY <1>1 DEF DeclassifyAsked, Handled, Declassify
<1>2. CASE EraseAsked
  BY <1>2 DEF EraseAsked, Handled
<1>3. CASE IbitAsked
  BY <1>3 DEF IbitAsked, Handled, BuiltInTest, SetBitStatus
<1>4. CASE LeverDown
  BY <1>4 DEF LeverDown, Handled, Record
<1>5. CASE LeverUp
  BY <1>5 DEF LeverUp, Handled, StopBegins, StillUsed
<1>6. CASE Blink
  BY <1>6 DEF Blink, Handled
<1>7. CASE ClearError
  BY <1>7 DEF ClearError, Handled
<1>8. CASE StopDone
  BY <1>8 DEF StopDone, StopEnds
<1>9. CASE TurnSetsUp
  BY <1>9 DEF TurnSetsUp, Turned
<1>10. CASE TurnNothing
  BY <1>10 DEF TurnNothing, Turned
<1>11. CASE SetupDone
  BY <1>11 DEF SetupDone, SetupEnds
<1>12. CASE Answer
  BY <1>12 DEF Answer, Remembered
<1>13. QED
  BY <1>1, <1>2, <1>3, <1>4, <1>5, <1>6, <1>7, <1>8, <1>9, <1>10, <1>11, <1>12 DEF Handle

\* Nor does one of the other threads.
LEMMA OthersFlags ==
  ASSUME Flags, req'.lever \in BOOLEAN, Others
  PROVE  Flags'
<1> USE DEF Flags
<1>1. CASE PortRecord
  BY <1>1 DEF PortRecord, OthersStep, Record
<1>2. CASE PortPlay
  BY <1>2 DEF PortPlay, OthersStep
<1>3. CASE PlayEnds
  BY <1>3 DEF PlayEnds, OthersStep
<1>4. CASE PortBit
  BY <1>4 DEF PortBit, OthersStep, BuiltInTest
<1>5. CASE PortStop
  BY <1>5 DEF PortStop, OthersStep, StopBegins
<1>6. CASE PortStopped
  BY <1>6 DEF PortStopped, OthersStep, StopEnds
<1>7. CASE PortErase
  BY <1>7 DEF PortErase, OthersStep
<1>8. CASE PortErased
  BY <1>8 DEF PortErased, OthersStep
<1>9. CASE PortSetup
  BY <1>9 DEF PortSetup, OthersStep
<1>10. CASE PortSetupDone
  BY <1>10 DEF PortSetupDone, OthersStep, SetupEnds
<1>11. CASE PortStatus
  BY <1>11 DEF PortStatus, OthersStep
<1>12. CASE BitEnds
  BY <1>12 DEF BitEnds, OthersStep, SetBitStatus
<1>13. CASE DeclassifyEnds
  BY <1>13 DEF DeclassifyEnds, OthersStep
<1>14. QED
  BY <1>1, <1>2, <1>3, <1>4, <1>5, <1>6, <1>7, <1>8, <1>9, <1>10, <1>11, <1>12, <1>13 DEF Others

\* No step at all does.
LEMMA FlagsStep ==
  ASSUME Request, Flags, Words, [Next]_vars
  PROVE  Flags'
<1>1. req'.lever \in BOOLEAN
  BY RequestStep DEF Request
<1>2. CASE Handle
  BY <1>1, <1>2, HandleFlags
<1>3. CASE Others
  BY <1>1, <1>3, OthersFlags
<1>4. CASE Started
  BY <1>1, <1>4 DEF Started, Flags
<1>5. CASE Receive
  BY <1>1, <1>5 DEF Receive, Flags
<1>6. CASE Move
  BY <1>1, <1>6 DEF Move, Flags
<1>7. CASE MediumChanges
  BY <1>1, <1>7 DEF MediumChanges, Flags
<1>8. CASE UNCHANGED vars
  BY <1>1, <1>8 DEF vars, Flags
<1>9. QED
  BY <1>2, <1>3, <1>4, <1>5, <1>6, <1>7, <1>8 DEF Next

\* The states, labels and counters stay in their ranges: a count of the blinking
\* ends at its last value.
LEMMA WordsStep ==
  ASSUME Request, Flags, Words, [Next]_vars
  PROVE  Words'
<1> USE RemoteAssumption DEF Words, States, Toggles
<1>1. ASSUME Handle
      PROVE  Words'
  <2>1. CASE DeclassifyAsked \/ EraseAsked \/ IbitAsked
    BY <2>1 DEF DeclassifyAsked, EraseAsked, IbitAsked, Handled, BuiltInTest,
       Declassify, SetBitStatus, SetRecorderState
  <2>2. CASE LeverDown
    BY <2>2 DEF LeverDown, Handled, Record
  <2>3. CASE LeverUp \/ ClearError
    BY <2>3 DEF LeverUp, ClearError, Handled, StopBegins, SetRecorderState
  <2>4. CASE Blink
    BY <2>4 DEF Blink, Handled, EraseCount, BitCount
  <2>5. CASE StopDone \/ TurnSetsUp \/ TurnNothing \/ SetupDone \/ Answer
    BY <2>5 DEF StopDone, StopEnds, TurnSetsUp, TurnNothing, Turned, SetupDone, SetupEnds, Answer
  <2>6. QED
    BY <1>1, <2>1, <2>2, <2>3, <2>4, <2>5 DEF Handle
<1>2. CASE Started \/ Receive
  BY <1>2 DEF Started, Receive
<1>3. CASE Others
  <2>1. CASE PortRecord
    BY <2>1 DEF PortRecord, Command, OthersStep, Record
  <2>2. CASE PortPlay \/ PlayEnds \/ PortBit \/ PortStop \/ PortStopped
    BY <2>2 DEF PortPlay, PlayEnds, PortBit, PortStop, PortStopped, Command,
       OthersStep, BuiltInTest, StopBegins, StopEnds
  <2>3. CASE PortErase \/ PortErased \/ PortSetup \/ PortSetupDone
    BY <2>3 DEF PortErase, PortErased, PortSetup, PortSetupDone, Command, OthersStep, SetupEnds,
       SetRecorderState
  <2>4. CASE PortStatus \/ BitEnds \/ DeclassifyEnds
    BY <2>4 DEF PortStatus, BitEnds, DeclassifyEnds, Command, OthersStep, SetBitStatus
  <2>5. QED
    BY <1>3, <2>1, <2>2, <2>3, <2>4 DEF Others
<1>4. CASE Move \/ MediumChanges
  BY <1>4 DEF Move, MediumChanges
<1>5. CASE UNCHANGED vars
  BY <1>5 DEF vars
<1>6. QED
  BY <1>1, <1>2, <1>3, <1>4, <1>5 DEF Next

Types == Request /\ Flags /\ Words

LEMMA TypesAreTypeOK == Types <=> TypeOK
<1>1. ASSUME Types
      PROVE  TypeOK
  BY <1>1 DEF Types, Request, Flags, Words, TypeOK
<1>2. ASSUME TypeOK
      PROVE  Types
  BY <1>2 DEF Types, Request, Flags, Words, TypeOK
<1>3. QED
  BY <1>1, <1>2, Zenon

\* The terminal, the recorder and the command port are well typed in every
\* reachable state (TypeOK of Remote), however often anything happens.
THEOREM TypeCorrect == Spec => []TypeOK
<1>1. Init => TypeOK
  <2>1. Init => Request /\ Words
    BY RemoteAssumption DEF Init, Request, Words, NoRequest, Toggles, States
  <2>2. ASSUME Init
        PROVE  Flags
    <3>1. req.lever \in BOOLEAN
      BY <2>2 DEF Init, NoRequest
    <3>2. /\ writing \in BOOLEAN /\ started \in BOOLEAN /\ RecordUsed \in BOOLEAN
          /\ previous_record \in BOOLEAN /\ InitialSetup \in BOOLEAN
      BY <2>2, Zenon DEF Init
    <3>3. EraseSet \in BOOLEAN /\ BitSet \in BOOLEAN /\ bit \in BOOLEAN /\ shown \in BOOLEAN
      BY <2>2, Zenon DEF Init
    <3>4. lever \in BOOLEAN /\ ready \in BOOLEAN
      BY <2>2, Zenon DEF Init
    <3>5. QED
      BY <3>1, <3>2, <3>3, <3>4, Zenon DEF Flags
  <2>3. QED
    BY <2>1, <2>2, TypesAreTypeOK DEF Types
<1>2. TypeOK /\ [Next]_vars => TypeOK'
  <2>1. ASSUME Types, [Next]_vars
        PROVE  Types'
    BY <2>1, RequestStep, FlagsStep, WordsStep DEF Types
  <2>2. Types' <=> TypeOK'
    BY TypesAreTypeOK, PTL
  <2>3. QED
    BY <2>1, <2>2, TypesAreTypeOK, Zenon
<1>3. QED
  BY <1>1, <1>2, PTL DEF Spec

-----------------------------------------------------------------------------
\* A recorder that always records takes nothing from the lever.
AutoNever == auto => by # "remote"

Inv == AutoNever /\ RemembersOwn

\* The lever's own steps.
LEMMA HandleKeeps ==
  ASSUME Inv, Handle
  PROVE  Inv'
<1> USE DEF Inv, AutoNever, RemembersOwn
<1>1. CASE DeclassifyAsked \/ EraseAsked \/ IbitAsked \/ Blink \/ ClearError
  BY <1>1 DEF DeclassifyAsked, EraseAsked, IbitAsked, Blink, ClearError, Handled, BuiltInTest,
     Declassify
<1>2. CASE LeverDown
  BY <1>2 DEF LeverDown, Handled, Record
<1>3. CASE LeverUp
  <2>1. pc = "handle"
    BY <1>3 DEF LeverUp, Handled
  <2>2. CASE ~previous_record /\ RecordUsed /\ ~auto
    BY <1>3, <2>2 DEF LeverUp, Handled, StopBegins
  <2>3. CASE ~(~previous_record /\ RecordUsed /\ ~auto)
    <3>1. CASE by = "remote"
      BY <1>3, <2>1, <2>3, <3>1 DEF LeverUp, Handled, StillUsed
    <3>2. QED
      BY <1>3, <2>3, <3>1 DEF LeverUp, Handled
  <2>4. QED
    BY <2>2, <2>3
<1>4. CASE StopDone
  BY <1>4 DEF StopDone, StopEnds
<1>5. CASE TurnSetsUp \/ TurnNothing \/ SetupDone \/ Answer
  BY <1>5 DEF TurnSetsUp, TurnNothing, Turned, SetupDone, SetupEnds, Answer
<1>6. QED
  BY <1>1, <1>2, <1>3, <1>4, <1>5 DEF Handle

\* The other threads, the operator and the request itself.
LEMMA OthersKeep ==
  ASSUME Inv, [Next]_vars, ~Handle
  PROVE  Inv'
<1> USE DEF Inv, AutoNever, RemembersOwn
<1>1. CASE Started \/ Receive
  BY <1>1 DEF Started, Receive
<1>2. CASE PortRecord
  BY <1>2 DEF PortRecord, OthersStep, Record
<1>3. CASE PortPlay \/ PlayEnds \/ PortBit \/ PortStop \/ PortStopped \/ PortErase \/ PortErased
  BY <1>3 DEF PortPlay, PlayEnds, PortBit, PortStop, PortStopped, PortErase, PortErased,
     OthersStep, BuiltInTest, StopBegins, StopEnds
<1>4. CASE PortSetup \/ PortSetupDone \/ PortStatus \/ BitEnds \/ DeclassifyEnds
  BY <1>4 DEF PortSetup, PortSetupDone, PortStatus, BitEnds, DeclassifyEnds, OthersStep, SetupEnds
<1>5. CASE Move \/ MediumChanges
  BY <1>5 DEF Move, MediumChanges
<1>6. CASE UNCHANGED vars
  BY <1>6 DEF vars
<1>7. QED
  BY <1>1, <1>2, <1>3, <1>4, <1>5, <1>6 DEF Next, Others

\* What the lever began is remembered until it is being stopped (RemembersOwn of
\* Remote): no command, fault, test or setup in between makes the remote forget it.
THEOREM OwnRemembered == Spec => []RemembersOwn
<1>1. Init => Inv
  BY DEF Init, Inv, AutoNever, RemembersOwn
<1>2. Inv /\ [Next]_vars => Inv'
  BY HandleKeeps, OthersKeep
<1>3. Inv => RemembersOwn
  BY DEF Inv
<1>4. QED
  BY <1>1, <1>2, <1>3, PTL DEF Spec
=============================================================================
