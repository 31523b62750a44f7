------------------------------- MODULE Remote -------------------------------
(***************************************************************************)
(* The remote terminal on COM2 (M23_Ssric.c): its thread takes one request  *)
(* at a time (the position of a toggle switch, of the record lever and of   *)
(* the rotary switch), acts on the recorder's state as it was when the      *)
(* request came, and answers with the lamps.  Meanwhile a command port and   *)
(* the control loop work on the same recorder.  Recording is one step here  *)
(* (Recorder has it in detail), a stop and a setup are two.  Left out: the   *)
(* digits, the other lamps, and which setup the rotary switch is at.        *)
(***************************************************************************)
EXTENDS Integers

CONSTANTS
  AutoRecords, \* {TRUE} for a recorder that always records (Config 2)
  MaxMoves,    \* bound: how often the operator moves a switch
  MaxCommands  \* bound: commands of the port

ASSUME RemoteAssumption ==
  /\ AutoRecords \subseteq BOOLEAN
  /\ MaxMoves \in Nat /\ MaxCommands \in Nat

Toggles == {"none", "declassify", "erase", "ibit", "clear"}
States == {"IDLE", "ERROR", "RECORD", "PLAY", "REC_N_PLAY", "BIT", "ERASE", "DECLASSIFY"}
NoRequest == [toggle |-> "none", lever |-> FALSE, turned |-> FALSE, status |-> "IDLE"]

VARIABLES
  auto,
  toggle, lever,             \* the terminal's switches
  state,                     \* RecorderStatus
  writing, by,               \* the hardware records; who began that (history)
  ready,                     \* a setup is loaded, the cartridge has room
  started,                   \* M23_ControllerInitialize is done
  pc,                        \* a request is at "rest", "handle", "stop", "turn", "setup", "answer"
  req,                       \* Req, whether the rotary switch differs, recorderStatus as read then
  RecordUsed, previous_record, InitialSetup,
  EraseSet, erasecount, BitSet, bitcount,
  bit, shown,                \* the lamp of a test: mBitStatus, and as sent to the terminal
  port,                      \* the command port is at: "free", "stop", "erase", "setup"
  moves, commands

hand == <<toggle, lever, moves>>
recorder == <<state, writing, by>>
blinking == <<EraseSet, erasecount, BitSet, bitcount, bit>>
memory == <<RecordUsed, previous_record, InitialSetup>>
others == <<port, commands>>
vars == <<auto, started, hand, recorder, ready, pc, req, memory, blinking, shown, others>>

Idle == state \in {"IDLE", "ERROR"}

\* m23_ssric_initialize.  M23_ControllerInitialize then waits for a first request.
Init ==
  /\ auto \in AutoRecords /\ ready \in BOOLEAN
  /\ toggle \in Toggles /\ lever \in BOOLEAN
  /\ state = "IDLE" /\ writing = FALSE /\ by = "nobody"
  /\ started = FALSE /\ pc = "rest"
  /\ req = NoRequest
  /\ RecordUsed = FALSE /\ previous_record = FALSE /\ InitialSetup = TRUE
  /\ EraseSet = FALSE /\ erasecount = 0 /\ BitSet = FALSE /\ bitcount = 0
  /\ bit = FALSE /\ shown = FALSE
  /\ port = "free" /\ moves = 0 /\ commands = 0

-----------------------------------------------------------------------------
(* The recorder, as its users see it.                                      *)

\* M23_SetRecorderState leaves RECORD only for REC_N_PLAY.
SetRecorderState(s) == state' = IF state = "RECORD" THEN state ELSE s

\* Record: refused in other states; without a setup or a cartridge the state stays,
\* without room it is ERROR.
Record(who) ==
  IF state \notin {"IDLE", "ERROR", "PLAY"} THEN UNCHANGED recorder
  ELSE IF ready THEN /\ state' = IF state = "PLAY" THEN "REC_N_PLAY" ELSE "RECORD"
                     /\ writing' = TRUE /\ by' = who
  ELSE state' \in {state, "ERROR"} /\ UNCHANGED <<writing, by>>

\* The state first; the hardware when the last root packet has come, or not.
StopBegins ==
  /\ state' = IF state = "REC_N_PLAY" THEN "PLAY" ELSE "IDLE"
  /\ UNCHANGED <<writing, by>>

StopEnds == writing' = FALSE /\ by' = "nobody" /\ UNCHANGED state

BuiltInTest ==
  /\ state' = IF Idle THEN "BIT" ELSE state
  /\ UNCHANGED <<writing, by>>

Declassify ==
  /\ state' \in IF Idle THEN {"DECLASSIFY", state} ELSE {state}
  /\ UNCHANGED <<writing, by>>

\* M23_Setup: what it ends with, whatever has become of the state in between.
SetupEnds(ok) == state' = (IF ok THEN "IDLE" ELSE "ERROR") /\ UNCHANGED <<writing, by>>

\* SSRIC_SetBitStatus
SetBitStatus == BitSet' = TRUE /\ bitcount' = 0 /\ bit' = TRUE

-----------------------------------------------------------------------------
(* ssric_handle_req.                                                       *)

\* ssric_recieve_req copies the switches; the handler reads the state first.  At most
\* one request comes before the recorder is ready, in the first ten seconds.
Receive ==
  /\ pc = "rest" /\ pc' = "handle"
  /\ started \/ InitialSetup
  /\ \E turned \in BOOLEAN :
       req' = [toggle |-> toggle, lever |-> lever, turned |-> turned, status |-> state]
  /\ UNCHANGED <<auto, started, hand, recorder, ready, memory, blinking, shown, others>>

\* The toggle switch is looked at once.
Handled(next) ==
  /\ pc = "handle" /\ pc' = next /\ req' = [req EXCEPT !.toggle = "none"]
  /\ UNCHANGED <<auto, started, hand, ready, previous_record, InitialSetup, shown, others>>

Idling == req.status = "IDLE"
Asked == Idling /\ req.toggle \in {"declassify", "erase", "ibit"}
Runs == req.status \in {"IDLE", "RECORD"}

DeclassifyAsked ==
  /\ Idling /\ req.toggle = "declassify"
  /\ Declassify
  /\ Handled("turn") /\ UNCHANGED <<RecordUsed, blinking>>

\* Erase may be refused: the lamp blinks, and the state is set, all the same.
EraseAsked ==
  /\ Idling /\ req.toggle = "erase"
  /\ SetRecorderState("IDLE") /\ UNCHANGED <<writing, by>>
  /\ EraseSet' = TRUE
  /\ Handled("turn") /\ UNCHANGED <<RecordUsed, erasecount, BitSet, bitcount, bit>>

IbitAsked ==
  /\ Idling /\ req.toggle = "ibit"
  /\ BuiltInTest /\ SetBitStatus
  /\ Handled("turn") /\ UNCHANGED <<RecordUsed, EraseSet, erasecount>>

\* The lever was down in the last request, too.  That the remote records is
\* remembered before Record has succeeded.
LeverDown ==
  /\ Runs /\ ~Asked /\ req.lever
  /\ IF previous_record /\ Idling /\ ~auto
     THEN RecordUsed' = TRUE /\ Record("remote")
     ELSE UNCHANGED <<RecordUsed, recorder>>
  /\ Handled("turn") /\ UNCHANGED blinking

\* (Mutant: the first request with the lever up forgets it.)
ForgottenAtOnce == FALSE

StillUsed == RecordUsed /\ previous_record

\* The lever was up in the last request, too, and what is recorded may be the remote's.
LeverUp ==
  /\ req.status = "RECORD" /\ ~req.lever
  /\ RecordUsed' = StillUsed
  /\ IF ~previous_record /\ RecordUsed /\ ~auto
     THEN StopBegins /\ Handled("stop")
     ELSE UNCHANGED recorder /\ Handled("turn")
  /\ UNCHANGED blinking

StopDone ==
  /\ pc = "stop" /\ pc' = "turn" /\ StopEnds
  /\ UNCHANGED <<auto, started, hand, ready, req, memory, blinking, shown, others>>

\* (Mutants: a count does not go on; it does not end.)
EraseCounted(n) == 0
BitRunsOn(n) == n + 1

EraseCount(n) == IF n = 2 THEN 2 ELSE n + 1
BitCount(n) == IF n = 3 THEN 3 ELSE n + 1

\* Nothing is asked for: the lamps of an erase and of a test blink.  erasecount is
\* never reset.
Blink ==
  /\ Idling /\ ~Asked /\ ~req.lever
  /\ bit' = (IF BitSet /\ bitcount > 0 THEN bitcount = 2 ELSE bit)
  /\ erasecount' = (IF EraseSet THEN EraseCount(erasecount) ELSE erasecount)
  /\ EraseSet' = (EraseSet /\ erasecount # 2)
  /\ bitcount' = (IF BitSet THEN BitCount(bitcount) ELSE bitcount)
  /\ BitSet' = (BitSet /\ bitcount # 3)
  /\ Handled("turn") /\ UNCHANGED <<RecordUsed, recorder>>

\* In all other states only the clear position counts; it makes them IDLE.
ClearError ==
  /\ ~Runs
  /\ IF req.toggle = "clear" THEN SetRecorderState("IDLE") ELSE UNCHANGED state
  /\ Handled("turn") /\ UNCHANGED <<RecordUsed, writing, by, blinking>>

Turned(next) ==
  /\ pc = "turn" /\ pc' = next /\ InitialSetup' = FALSE
  /\ UNCHANGED <<auto, started, hand, recorder, ready, req, RecordUsed, previous_record, blinking,
                 shown, others>>

\* The first request only selects.  In a recording a turn is forgotten, and in other
\* states M23_Setup refuses it.
Turns == ~InitialSetup /\ req.turned /\ req.status # "RECORD"

TurnSetsUp == Turns /\ Idle /\ Turned("setup")
TurnNothing == ~(Turns /\ Idle) /\ Turned("answer")

SetupDone ==
  /\ pc = "setup" /\ pc' = "answer"
  /\ \E ok \in BOOLEAN : SetupEnds(ok)
  /\ UNCHANGED <<auto, started, hand, ready, req, memory, blinking, shown, others>>

\* (Mutant: the lever is remembered once it was down.)
Sticky(was, now) == was \/ now

Remembered(was, now) == now

\* ssric_generate_res
Answer ==
  /\ pc = "answer" /\ pc' = "rest"
  /\ previous_record' = Remembered(previous_record, req.lever)
  /\ shown' = bit /\ req' = NoRequest
  /\ UNCHANGED <<auto, started, hand, recorder, ready, RecordUsed, InitialSetup, blinking, others>>

Handle ==
  \/ DeclassifyAsked \/ EraseAsked \/ IbitAsked \/ LeverDown \/ LeverUp \/ Blink \/ ClearError
  \/ StopDone \/ TurnSetsUp \/ TurnNothing \/ SetupDone \/ Answer

\* The end of M23_ControllerInitialize: the state is IDLE, whatever that request
\* began, and Config 2 records.
Started ==
  /\ ~started /\ pc = "rest" /\ started' = TRUE
  /\ IF auto /\ ready THEN state' = "RECORD" /\ writing' = TRUE /\ by' = "auto"
     ELSE state' = "IDLE" /\ UNCHANGED <<writing, by>>
  /\ UNCHANGED <<auto, hand, ready, pc, req, memory, blinking, shown, others>>

-----------------------------------------------------------------------------
(* The other threads.                                                      *)

OthersStep == UNCHANGED <<auto, started, hand, ready, pc, req, memory, shown>>

Command == port = "free" /\ started /\ commands < MaxCommands /\ commands' = commands + 1

PortRecord ==
  /\ Command /\ ~auto /\ UNCHANGED port /\ Record("other")
  /\ UNCHANGED blinking /\ OthersStep

PortPlay ==
  /\ Command /\ state = "IDLE" /\ state' = "PLAY"
  /\ UNCHANGED <<port, writing, by, blinking>> /\ OthersStep

\* .STOP of a playback, which may not have been asked for: a playback ends.
PlayEnds ==
  /\ state \in {"PLAY", "REC_N_PLAY"}
  /\ state' = IF state = "PLAY" THEN "IDLE" ELSE "RECORD"
  /\ UNCHANGED <<others, writing, by, blinking>> /\ OthersStep

PortBit == Command /\ BuiltInTest /\ UNCHANGED <<port, blinking>> /\ OthersStep

\* .STOP, and what the control loop does when a recording fails.
PortStop ==
  /\ Command /\ state \in {"RECORD", "REC_N_PLAY"} /\ StopBegins /\ port' = "stop"
  /\ UNCHANGED blinking /\ OthersStep

PortStopped ==
  /\ port = "stop" /\ port' = "free" /\ StopEnds
  /\ UNCHANGED <<commands, blinking>> /\ OthersStep

PortErase ==
  /\ Command /\ Idle /\ state' = "ERASE" /\ port' = "erase"
  /\ UNCHANGED <<writing, by, blinking>> /\ OthersStep

PortErased ==
  /\ port = "erase" /\ port' = "free" /\ SetRecorderState("IDLE")
  /\ UNCHANGED <<commands, writing, by, blinking>> /\ OthersStep

PortSetup ==
  /\ Command /\ Idle /\ port' = "setup"
  /\ UNCHANGED <<recorder, blinking>> /\ OthersStep

PortSetupDone ==
  /\ port = "setup" /\ port' = "free" /\ \E ok \in BOOLEAN : SetupEnds(ok)
  /\ UNCHANGED <<commands, blinking>> /\ OthersStep

\* .STATUS, .HEALTH
PortStatus ==
  /\ Command /\ state = "ERROR" /\ state' = "IDLE"
  /\ UNCHANGED <<port, writing, by, blinking>> /\ OthersStep

\* The control loop ends a test and lights its lamp once more.
BitEnds ==
  /\ state = "BIT" /\ started /\ state' = "IDLE" /\ SetBitStatus
  /\ UNCHANGED <<others, writing, by, EraseSet, erasecount>> /\ OthersStep

DeclassifyEnds ==
  /\ state = "DECLASSIFY" /\ started /\ state' \in {"IDLE", "ERROR"}
  /\ UNCHANGED <<others, writing, by, blinking>> /\ OthersStep

Others ==
  \/ PortRecord \/ PortPlay \/ PlayEnds \/ PortBit \/ PortStop \/ PortStopped \/ PortErase
  \/ PortErased \/ PortSetup \/ PortSetupDone \/ PortStatus \/ BitEnds \/ DeclassifyEnds

\* The operator.
Move ==
  /\ moves < MaxMoves /\ moves' = moves + 1
  /\ \/ toggle' \in Toggles \ {toggle} /\ UNCHANGED lever
     \/ lever' = ~lever /\ UNCHANGED toggle
  /\ UNCHANGED <<auto, started, recorder, ready, pc, req, memory, blinking, shown, others>>

\* A cartridge, and room on it, come and go.
MediumChanges ==
  /\ moves < MaxMoves /\ moves' = moves + 1 /\ ready' = ~ready
  /\ UNCHANGED <<auto, started, toggle, lever, recorder, pc, req, memory, blinking, shown, others>>

Next == Started \/ Receive \/ Handle \/ Others \/ Move \/ MediumChanges

\* The terminal sends a request every half second, and the threads run.
Fairness ==
  /\ WF_vars(Started) /\ WF_vars(Receive) /\ WF_vars(Handle) /\ WF_vars(BitEnds)
  /\ WF_vars(DeclassifyEnds) /\ WF_vars(PortStopped) /\ WF_vars(PortErased)
  /\ WF_vars(PortSetupDone)

Spec == Init /\ [][Next]_vars /\ Fairness

-----------------------------------------------------------------------------
(* Properties.                                                             *)

TypeOK ==
  /\ auto \in AutoRecords /\ toggle \in Toggles /\ lever \in BOOLEAN
  /\ state \in States /\ writing \in BOOLEAN /\ by \in {"nobody", "remote", "other", "auto"}
  /\ ready \in BOOLEAN /\ started \in BOOLEAN
  /\ pc \in {"rest", "handle", "stop", "turn", "setup", "answer"}
  /\ req \in [toggle : Toggles, lever : BOOLEAN, turned : BOOLEAN, status : States]
  /\ RecordUsed \in BOOLEAN /\ previous_record \in BOOLEAN
  /\ InitialSetup \in BOOLEAN
  /\ EraseSet \in BOOLEAN /\ erasecount \in 0 .. 2 /\ BitSet \in BOOLEAN /\ bitcount \in 0 .. 3
  /\ bit \in BOOLEAN /\ shown \in BOOLEAN
  /\ port \in {"free", "stop", "erase", "setup"}
  /\ moves \in 0 .. MaxMoves /\ commands \in 0 .. MaxCommands

\* While the hardware records what the remote began, the remote remembers it
\* (RecordUsed), until it stops it: a recording of the lever is never orphaned,
\* whatever the command port does in between.
RemembersOwn == by = "remote" => RecordUsed \/ pc = "stop"

\* A lever that is released for good does not leave the recorder in RECORD with a
\* recording the remote began (ssric_handle_req, the branch of RECORD and lever 0).
ReleaseStops ==
  <>[](~lever /\ ~auto) => []<>(~(state = "RECORD" /\ by = "remote"))

\* The lamps of an erase and of a test stop blinking, and the terminal does not go
\* on showing a test that is over.
BlinkEnds ==
  <>[](state = "IDLE" /\ ~lever /\ toggle = "none")
    => <>[](~EraseSet /\ ~BitSet /\ ~shown)

=============================================================================
