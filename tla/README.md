# Verification of the M2300 recorder firmware

The program under `src/` runs an airborne data recorder: it takes commands from two serial
ports, a panel of switches and a remote terminal, sets up its acquisition boards from a TMATS
file, records their data on a removable cartridge through a FireWire controller, and keeps a
STANAG 4575 file table on the cartridge. It is one process of about a dozen threads that share
global variables, with hardly a lock.

This directory holds TLA+ modules of it, the TLC runs that check them on small instances, and
TLAPS proofs of what holds for every instance. `PROJECT.json` says for every definition which
lines of the source it stands for, and lists the hazards found in the code, each at its line with the
properties that cover it.

## 1. The system

### Threads

| Thread | Source | What it does | Period |
|---|---|---|---|
| COM1 monitor (the main thread), COM0 monitor | `M2X_cmd_ascii.c` | read a line, look it up in `CommandTable`, call the `Cmd…` handler | per line |
| discrete thread | `M23_Discretes.c` | compares the switches with the last scan, calls `Record`, `Stop`, `Erase`, … | fraction of a second |
| control loop | `M23_Control.c` | ends a recording on a fault or a full medium, ends playback and tests, updates the file table while recording | 0.5 s |
| event thread | `M23_EventProcessor.c` | hands logged events to the event channel while recording | 1 s |
| 1553 event thread | `M23_M1553_cmd.c` | pause and resume by messages of the bus | per message |
| health thread | `M23_HealthProcessor.c` | health words and lamps of the channels; cartridge inserted, removed: mounts and dismounts | 0.2 s |
| remote terminal | `M23_Ssric.c` | takes requests of the terminal, acts on them, answers with its lamps | per request |
| GPS, lamp blinkers | `M23_GPS.c`, `M23_Discretes.c` | input and output | |

`M23_StartM1553CmdThread` exists as well but has no caller: nothing is commanded over the bus.

All of them read and write `RecorderStatus`, `CommandFrom`, `Config`, the health words, the file table and
the event ring directly. The long operations (stop: up to four seconds; mount: up to 22; erase; a
setup; a write of events) sleep with the shared state half changed.

### Components

| Component | State | Operations | Correct when | Modules |
|---|---|---|---|---|
| File table (`M23_Stanag.c`) | `FileTable` and its copy on the cartridge, `CurrentFileNumber`, `CurrentWriteBlock` | `sopen`, `UpdateStanag…`, `Emergency_Close`, `serase`, `sinit` | entries sit where both counters say; a restart goes on behind what is on the cartridge | `StanagTable`, `RecordingStore` |
| Dates and search (`M23_Stanag.c`, `M2X_time.c`) | dates of the entries | `sopen`, `UpdateStanag`, `M23_GetFileFromTime` | a search finds the recording that was going on | `FileSearch` |
| Recorder state machine (`M23_Controller.c`, `M23_Control.c`) | `RecorderStatus`, `CommandFrom`, the record bit of the hardware | record, stop, erase, BIT, status, control loop | state and hardware agree; stop stops; a fault stops | `Recorder` |
| Cartridge presence, playback, tests (`M23_HealthProcessor.c`, `M23_Controller.c`, `M23_Utilities.c`, `M23_disk_io.c`) | receiver, login, health bits, `M23_DismountCommand` | removal, insertion, `Mount`, `Dismount`, `.PLAY`, `..SPEED`, `.RTEST`, `.PTEST` | a recording goes by the table of its own cartridge; a removal ends it | `Cartridge` |
| Switches and fault lamp (`M23_Discretes.c`) | `PreviousSwitches`, `Critical`, `OtherSet` | a scan of each panel, `M23_SetFaultLED`, `M23_ClearFaultLED` | no erase by accident; the switch stops its recording; the lamp tells | `Panels` |
| Remote terminal (`M23_Ssric.c`) | `RecordUsed`, `previous_record`, counters of the lamps | `ssric_handle_req` | it stops its own recording; lamps stop blinking | `Remote` |
| Event log (`M23_EventProcessor.c`) | `Events`, `NumEvents`, `CurrentStartEvent` | the writers of the ring, `m23_EraseEvents`, `M23_EventProcessor` | events are handed on once, in order | `EventLog` |
| Setup and TMATS (`M23_Tmats.c`, `M23_setup.c`) | `Config`, `HealthArrayTypes`, `TmatsGetBuffer`, setup files | the sorting passes, the parser, `.TMATS`, `.SETUP` | channels are configured as the file states; a recording carries that file | `TmatsFile`, `Setups` |
| Channels on the boards (`M23_MP_Handler.c`, `M23_setup.c`, `M23_Controller.c`) | registers of the boards, published ids, PAUSED marks | `SetupHardware`, `M23_StopRecorder`, `.PUBLISH`, pause and resume | every route reaches the same register | `Channels` |
| Health of channels (`M23_HealthProcessor.c`) | `HealthStatusArr`, `M1553_HealthTimes`, lamps | a pass of the thread; the steps of a setup | the lamps tell what the channels do | `ChannelHealth` |
| Settings (`M2X_system_settings.c`, `M2X_serial.c`) | `Settings`, its file, the serial ports | `.SET`, `.SAVE`, `.CRITICAL`, `.SETUP`, drift calibration, power up | what was saved comes back, nothing else | `Settings` |
| Time, network, GPS, login, start | | conversions, input and output | | not modelled |

### What is hard here

* Every thread changes `RecorderStatus` without a lock and acts on copies of it: `snapshot` in
  the control loop, the health thread's `state`, the remote's `recorderStatus`.
* `Emergency_Stop` makes the state idle first and closes the file up to four seconds later; `Mount`
  takes many seconds and then sets IDLE whatever the state has become.
* Power fails, or the cartridge is pulled, between the two disk writes of one table update, or between
  the truncation of the settings file and its write.
* `CurrentFileNumber` and the entry counts are two counters that must agree.
* The event thread computes `NumEvents` before a slow write and stores it after it.
* Stop waits for a root packet that may never come.
* The same channel is found by three different counts of the boards (set up, stop, publish).
* A setup rewrites `Config` and the health words while the health thread works on them.
* One text buffer serves the operator's file, the setup and the head of a recording.

## 2. The modules

### StanagTable and RecordingStore

Memory and cartridge are two tables of blocks of entries; an entry is its first block and its
block count. Names, dates, links and the shutdown flag are left out (dates are in `FileSearch`).
`SOpen`, `UpdateStanagBlocks`, `UpdateStanagAndBlocks`, `EmergencyClose`, `SErase` are the
functions of those names; `StoreOrder` and `WriteTableBlock` split `FileStoreFileTable` into its
disk writes, so that `PowerCycle` and `Remove` (`Removal_Stop`) come between them. `SInit` is
`sinit` with `FileRetrieveFileTable`; `PowerCycle` and `Mount` call it. `keepsSetup` stands for the
test of `LoadedTmatsFromCartridge` and `CH10_TMATS` in `serase`.

`RecordingStore` is what the table promises: recordings appended to a medium, a restart that keeps
a prefix of them. `Implements` says that `StanagTable` refines it, the middle of an update included.

Assumed or left out: the handlers are called by one thread at a time; configurations 0 and P3 also
record node files; the same cartridge comes back after a removal; the read of the table succeeds
(otherwise `sinit` starts a blank one); an erase that has begun completes; a disk write of one block
is atomic. `MaxUnstored <= EntriesPerBlock` is a condition and not only a bound: an update writes the
current block and the one before it, so after more recordings in a row without any update than a
block holds, a block of the table would stay unwritten for ever. In the code a block holds four:
five recordings in a row without a single root packet are outside the model.

### Recorder

A configuration with one source of commands and no playback (config 1). A step is the code
between two accesses of the shared state. `pc` says where each of the three threads `com` (a
serial port), `switch` (the discrete thread) and `control` is. `CmdRecord` / `CmdRecordNamed` →
`RecordFile` → `SOpen` → `StartHardware` → `SetRecord` → `Own` is the path of `.RECORD`; `CmdStop` →
`StopAccepted` → `StopBegins` → `RootMissing`* / `RootArrives` → `StopHardware` → `EmergencyClose` →
`Disown` that of `.STOP`, and the control loop enters it at `StopBegins`. `RecordFault` and
`MediumFills` are the hardware. `SetRecorderState` has the condition of `M23_SetRecorderState`. Left
out: the check for a loaded setup and a connected disk (assumed).

### Cartridge

The receiver, the health thread and an operator in a thread of its own; a command is its check and
its effect here. The health thread's pass is `Look` (reads state and receiver), then one of
`RemovedRunning` (`Removal_Stop`), `Removed` (`Dismount`), `Inserted` and `Unchanged`; a mount is
`MountBegins`, `SInit` or `SInitFails` (`DiskConnect`, login, table), `Mounted`. `CmdPlay`,
`CmdSpeed`, `CmdRTest`, `CmdPTest`, `StopPlayback` and their ends are the paths through
`M23_Utilities.c`. Two history variables name what the code misses: `missed` (a `Dismount` or `Mount`
refused because of a running operation, a flag left by a Mount before the time was set, a swap after
the health thread's Mount has read the table), and
`astray` (the hardware records in a state that does not say so, because a Mount overtook a command
or a test took the state of a recording). A cartridge is taken to need longer to swap than the 0.2 s of a pass, so that a
removal is noticed before the next insertion; while the health thread waits to mount, or mounts, it looks at
nothing, and a cartridge may be swapped there. `PlaysOn` is a configuration other than 0, which leaves a playback to
itself when the cartridge is removed.

### Panels

`M23_MonitorDiscretes` for seven of the panels of `Config`: the differences between `switches`
and `previous`, and what each panel does about them. A scan that acts is split where it waits
(`ScanRecord` → `Confirm` → `Own`, `ScanErase` → `Erased`). `HealthCounts`, `HealthSets`, `HealthClears`
are the health thread's part of the fault lamp, in the two steps of `M23_SetFaultLED` and
`M23_ClearFaultLED`. Recording is one step. `Looks` is the gate of panel 0 and of the Lockheed panel, which
look at the erase and declassify switches only in scans that begin outside of a recording.

Left out: the other lamps, video select, the audio tone, and playback: `.PLAY` and `..SPEED`
are for configurations 0 and P3 alone (`M2X_cmd_ascii.c:2747`, `:2903`), and their switch stops in
`STATUS_REC_N_PLAY` as it does in RECORD (`M23_Discretes.c:1080`, `:1351`). Whether a cartridge is there to be erased
(`DiskIsConnected`) is open in every scan: `ErasesNow` erases or erases nothing.

### Remote

The thread of the remote terminal: a request is received with the state of that moment
(`Receive`), handled (`Handle` and the branches of `ssric_handle_req`), and answered. `RecordUsed`,
`previous_record`, `InitialSetup`, the counters of the lamps are its statics. The command port has
stop, erase and setup in two steps, record, play and test in one. Left out: digits, other lamps, the position
of the rotary switch beyond "has it moved".

### EventLog

The ring with `EventCount`, `RecordEvent`, `NumEvents` and `CurrentStartEvent`. The three
functions that append are `UpdateEvent` (gated by `FirstRecord`), `Update_M1553_Event` and
`UpdateRecordEvent`; the append itself is one step. `StartPacket` is a pass of `M23_EventProcessor` up to
and including its write, with its three branches; `FinishPacket` stores the cursors after the write.
`handed` lists what the thread hands to `m23_WriteEventsToHost`; what `m23_WriteSavedEvents` writes
itself is not in it. `undone` notes an erase during a write.

### FileSearch

The clock ticks in parts of an hour. `SystemDate` and `DayFromDate` are the two month tables,
`EndDay` and `Covers` the tests of `M23_GetFileFromTime`; `span` records when each recording really
began and was last updated. No run passes New Year (the code compares days of a year).

### TmatsFile and Setups

`TmatsFile` has the algorithm of `M23_Tmats.c` as functions: a line is what `split_line` leaves of
it (attribute, number in its name, value); the tracks are collected by kind, the lines sorted by kind
and track (`ProcessTmats`), and that text parsed into channels (`ParseTMATSFile`), whose fields are
named by attributes. Values are opaque. Where the source repeats a loop once per kind of track (the copying passes,
the decoders) the module has it once, over the attributes of the kind; `map` then names one of the loops for each
of the shared operators (`LinesAt`, `Own`, `FirstLine`, `Decode`, `DecodeLine`, `With` and so on) and for
the attribute sets the loop of each kind. `Setups` is the state around it: files, `TmatsGetBuffer`, the text
loaded from a cartridge, `Config` as the parser left it, and `.TMATS WRITE/GET/SAVE/DELETE`, setups, power up,
recordings. Its properties compare with a second reading of a file that sorts nothing (`TracksOf`, `Use`,
`Tells`, `States`). `WellFormed` is what the parser takes for granted of a text and checks nowhere: one id and
one type to a track, no id twice, one time and one Ethernet track at most, discrete marks on 1553 tracks
only, no more channels than `Config` has room for. `Orderly` is what it takes for granted beyond that when it
counts the channels and reads their lines: the tracks of a kind by their numbers, a discrete track the last of
the 1553 tracks, the controller's UART the first of the PCM tracks and the only track with `CUCE` T, one
`TSRC` line, room for the counted places, and no line the sort leaves out although a decoder reads it
(`NotCopied`: `SC` of a voice track, the words `P.WWP` ... `TFDS` of a PCM track). Outside of it the code gives a
channel other fields than its track states. `MCSetups` assumes both of the texts of the run and of
what a setup makes of them.

### Channels

`SetupSlot`, `StopSlot` and `PublishSlot` are the three counts of the boards. A setup is
`SetupStops` → `ProcessSetup` or `SetupFails` → `SetupChannels`; `.PUBLISH START` and `STOP` reach the
ports through `Reached` and `Broadcast`; `ProcessPauseResume` (event thread) and `MarkPcm` (health
thread) keep the marks. `asked` is the history of what `.PUBLISH` was asked for. `Initialized` stands for the
routine of every kind of board: each writes the id together with the broadcast mask, UART-coded PCM channels too
(`M23_MP_Handler.c:1188`, `:2221`, `:2790`, `:3853`; `M23_setup.c:157`). A setup also calls the routine of 1553 channels that are
off (`M23_setup.c:337`); it excludes their messages and writes none of the registers modelled here. Left out: DM boards, and
the Ethernet and UART channels of the controller, of which there is one each, with a register that is found without counting
boards. (Publishing Ethernet writes another register than a setup does, `ETHERNET_CHAN_ID_CSR` against
`ETHERNET_CHANNEL_ID`.)

### ChannelHealth

A pass of the health thread in steps (`CheckM1553`, `CheckPcm`, `CheckVideo`, `SetLamps`, the time
source, `Fault`) between the steps of a setup (`InitializeHealth`, `ProcessSetup`,
`InitializeChannelHealth`, `SetupHardware`). Words are sets of bits. A PCM channel has frames
("nrz", or "sync" with the bit synchronizer, whose lost lock is checked again against the frames), is a UART with bits of
its own, or counts pulses; its watch word only puts the lamp out. Time comes from IRIG, GPS, the cartridge, the 1553
bus or the clock of the recorder. Left out: Ethernet, the UART of the controller and DM channels, health
events, the lines of the remote terminal, `GPS_NOT_SYNCED`; the PAUSED bit of PCM channels is in `Channels`.

### Settings

Memory, file, serial ports and masks; a value is the shipped one, one an operator gave, or one
nobody assigned (what `.SET` stores when it is called without a value). `.SETUP`, `.CRITICAL` and drift
calibration store in steps: `StoreRead`, `StoreOpen` (truncates), `StoreWrite`; `PowerFails` comes between any
two. The commands of one port; the file system does not fail. Left out: rotary switch, what
`.ASSIGN` and `.DECLASSIFY` write, display lists, echo.

## 3. The runs

| Run | Asks | Result |
|---|---|---|
| `stanag_table` | do the two counters agree, does a restart append, does the table implement the store | holds |
| `recorder` | do hardware and state agree; do faults and `.STOP` end a recording | holds |
| `recorder_named` | does `.STOP` stop after `.RECORD` with a name in a recording | violated |
| `event_log` | are events handed on once and in order, only those during a write forgotten, the backlog worked off | holds until the ring is full |
| `file_search` | does a search find the recording that was going on, and nothing else | holds; recordings over midnight need not be found |
| `cartridge` | is a removal known, does it end the recording, does every recording go by the table of its cartridge | holds but for `missed` and `astray` |
| `channels` | do setup, stop, publish and pause reach the same channels | holds |
| `channel_health` | do words and lamps follow the channels through setups | holds |
| `setups` | are channels as the file states, whatever the order of its lines and what came before | holds |
| `panels` | accidental erases, recordings that outlive their switch, a lamp that lies | holds |
| `settings` | what comes back after the power failed anywhere | holds |
| `remote` | orphaned recordings of the lever, lamps that blink for ever | holds |

### Properties

* `StanagTable`: `SlotsMatchCounter` (entry counts = what `CurrentFileNumber` says), `RecoveryAppends`
  (were the power to fail now, the next recording would go behind all that is on the cartridge),
  `Implements`.
* `Recorder`: `HardwareFollowsState`; liveness `FaultStopsRecording`, `StopStops`.
* `Cartridge`: `AbsenceIsKnown`, `RecordsByItsOwnTable`; liveness `RemovalEndsRecording`.
* `Panels`: `EraseNeedsSwitches` (a step of the switches that erases has both switches on, one of them
  moved since the last scan); liveness `ReleasedEnds`, `FaultShows`.
* `Remote`: `RemembersOwn`; liveness `ReleaseStops`, `BlinkEnds`.
* `EventLog`: `HandedInOrder`, `NothingElseForgotten` (handed on + waiting + arrived in a write =
  logged); liveness `BacklogDrains`; all for `logged < Last`, that is until the ring has been full once.
* `FileSearch`: `SearchFindsRecording` (what is found was going on at that time; a recording of a single
  day is found by every time in it).
* `Setups`: `ConfiguredAsStated`, `TypesAsStated`, `RecordedAsConfigured`.
* `Channels`: `PublishedIsAsked`, `DroppedStops` (a step property); liveness `PauseIsSeen`.
* `ChannelHealth`: `OnlyConfigured`; liveness `SilenceShows`, `GoodShows`.
* `Settings`: `SavedComesBack`, `UnsavedStaysOut` (step properties); liveness `FileMended`.

Each module but `FileSearch`, `Setups` and `RecordingStore` has a type invariant. Every property of a
passing run has a mutant in `PROJECT.json`: a plausible bug in one definition, defined beside it and
marked "(Mutant: …)", under which the run finds the property violated.

### Bounds, and why they are enough

* `StanagTable.cfg`: four blocks of two entries, six recordings: every position of an entry in
  its block, a first, a middle and a last used block, an update that writes one block or two.
  Recordings of up to three bytes in blocks of two: empty, a part of a block, one block, more than
  one. `MaxUnstored` 2. The last block stays empty (see section 4).
* `Recorder.cfg`: two tries for the root packet (four in the code) and two passes of a BIT (twenty):
  one that goes on and one that ends. The state space is finite without a bound. Both deployments
  are checked: a serial port, and the switch.
* `Cartridge.cfg`: two cartridges, swapped without limit; time set or not, record switch on or off.
  Everything else is finite: 95 thousand states.
* `Panels.cfg`: seven panels, three moves of switches, one difference between two scans (the code
  loses one of two, section 4).
* `Remote.cfg`: two moves of the operator and one command of the port, with and without AutoRecord; the counters
  of the lamps are as in the code. Half a million states.
* `EventLog.cfg`: a ring of six, packets of two and seven events: all three branches of the event
  thread, a wrap of the ring, a backlog of several packets.
* `FileSearch.cfg`: the days around every end of a month of 2019 and 2020 (a common and a leap
  year), two recordings of up to eight parts of an hour in days of three hours of two parts: within a
  day, over midnight, longer than a day.
* `Setups.cfg`: six files, one for each group of kinds of channels, each in up to four orders of its
  lines (turned and reversed), another file with other fields, a file without channels, one that is refused, one
  cartridge; one use of SAVE or DELETE.
* `Channels.cfg`: three recorders (a large 1553, a PCM and a video board; a small 1553 and a PCM board;
  a large PCM board in front of a large 1553 board)
  with one channel for four, two setups of which the second swaps ids and drops two channels, three
  requests, two addresses.
* `ChannelHealth.cfg`: six recorders: a small and a large 1553 board, a video board, two PCM boards (of all
  codes, and with a first channel that is included or not), all with two setups, and one with a setup per time
  source; a silent channel is reported after one pass (four), time trained again after one (fifty).
* `Settings.cfg`: two good setups and a bad one, one value given by the operator and two storing commands
  between power failures, any number of power failures.

### Fairness, and why the code justifies it

Weak fairness of the threads and of nothing else: every thread is an endless loop around a sleep,
the scheduler gives each of them the processor, and none waits for another. In `Recorder` it is that of
the command threads and the control loop, in `Cartridge` of the health thread and of a `Mount` once begun, in
`Panels` of the scan, the health thread and the end of a test, in `Remote` of the terminal's requests (it
sends one every half second), their handling, and the ends of what the port and the control loop
began, in `EventLog` of the event thread, in `Channels` of the health and the event thread, in
`ChannelHealth` of the health thread and of a setup once begun, in `Settings` of a command that stores
while there is power and of the power coming back. Operators, cartridges, faults, events and bus
messages are never assumed to happen. `BlinkEnds` and `ReleaseStops` of `Remote` speak of switches and a state
that stay as they are. The hardware may withhold the last root packet for ever; that stop ends
nevertheless is `StopStops`.

Deadlock is checked except in `cartridge`, `panels` and `file_search`: an empty receiver without an
operator, the moves used up, and the end of the clock are legal ends there.

## 4. Where the code does not do what one would expect

`recorder_named` is a run that is violated: `.RECORD name` during a recording calls `RecordFile`, which sets
ERROR and leaves the hardware running (`M23_Controller.c:2378`). `.STOP` is refused then, the control loop does not
look at faults or free space any more, and `.ERASE` is accepted. The help of `.STOP` says that it stops the
current recording.

The following was seen while modelling. It is kept in the modules as it is in the code, and the
properties name it where they exclude it; no run is spent on it.

* File table: from the 509th recording on no block of the table is empty, and a restart puts the
  writing position at the first data block, over the first recording (`M23_Stanag.c:1142`); nothing refuses the 513th
  (`:601`). An erase that keeps the setup file writes 128 blocks one by one (`:513`).
* Dates: the day is incremented for both ends of a recording that spans midnight (`M23_Stanag.c:1381`).
* Recorder: an erase is accepted while `Emergency_Stop` waits, and `Emergency_Close` then counts a file
  that does not exist (`M23_Controller.c:2983`); a pass of the control loop that finds a fault and a full
  medium closes twice (`M23_Control.c:225`, `:408`). With two sources the loser of a race to `sopen` sets ERROR while
  the winner records (`M23_Controller.c:2444`). The comment in `Status` says it does not change the
  status; the next statement turns ERROR into IDLE (`:2943`).
* Event log: near the end of the ring the thread keeps the wrong count, skips slot 4095 and may repeat the
  cursors of the packet before (`M23_EventProcessor.c:1631`); an erase during a write is undone (`:587`).
* Playback: `M23_StopPlayback` sets a state computed from an earlier read (`M23_Utilities.c:221`); `..SPEED`,
  `.RTEST`, `.PTEST` do not look at the state; PTEST is left by `.STOP` only; the percentage divides by
  the length played (`M23_Control.c:262`).
* Settings: `.SET` without a value stores an undefined one for VERBOSE, ONTIMECAL, RTADDR, SSRIC and
  SERIAL (`M2X_cmd_ascii.c:3427` and the same in the others); a setup that failed is still the selected one.
* Panels: on P3 the event switch erases (`M23_Discretes.c:1321`); of two switches moved between two
  scans one is lost.
* Remote: an erase that was refused blinks as one that was not; CLEAR ERROR sets IDLE whatever runs.
* TMATS: an empty line ends the file; `Config` is not cleared between setups beyond the fields of
  `Cleared`; the mode of voice channels of the setup before stays.
* Channels: `M23_StopRecorder` computes wrong indices for boards behind the first of their kind
  (`M23_Controller.c:495`, `:504`, `:516`) and never stops the upper four channels of an eight-channel PCM
  board (`:514`); in a recorder with a small and a large 1553 board `.PUBLISH` reaches another channel than
  the one named (`M23_MP_Handler.c:5158` against `M23_setup.c:333`); the pause of PCM boards outlives a setup; the table of
  published ids has 50 places and no check.
* Channel health: with ids that do not ascend, a disabled PCM channel leaves CONFIG_FAIL in another's word.

## 5. What is proved

Eight modules, for every value of the constants that the assumptions allow.

`Recorder_proofs`:

* `TypeCorrect`: `Spec => []TypeOK`. The two counters that wrap need `ModInRange`.
* `HardwareFollows`: `OneSource => (Spec => []HardwareFollowsState)`. `OneSource` says that every
  deployment is the serial port alone or the switch alone, and that the operator does not name a
  recording while one runs. Both are needed (section 4).

`HardwareFollowsState` is not inductive: `RecordFileRefused` and `SOpenFails` move the state to ERROR,
so one must know that it was not RECORD. `Inv` adds `NotYetRecording` (a thread between the check of
`Record` and `SetRecord` has found no recording and none begins meanwhile), which needs `OthersIdle`
(the other source stays idle) and `ControlPath` (the control loop never takes the record path).

`StanagTable_proofs`, with `FewUnstored` (`MaxUnstored <= EntriesPerBlock`):

* `TypeCorrect`. Not obvious, since an update and a restart index the table with numbers they compute.
* `CountersAgree`: `Spec => []SlotsMatchCounter`.
* `CartridgeFilled`: at every moment, the middle of an update included, the cartridge holds some
  number `m` of entries in blocks filled in order; a restart counts exactly `m`; a cartridge in
  its bay is never ahead of the memory.

`SlotsMatchCounter` is not inductive, because a restart takes both counters from the cartridge.
`OnDisk(m)` says that the cartridge is filled in order with `m` entries, and `Lag(m)` how far it may be
behind: by the recordings without an update when nothing is pending, and while an update is being
written by no more than the blocks still to be written can fill. `FewUnstored` makes the first imply
the second when an update begins; with `MaxUnstored = EntriesPerBlock + 1` TLC finds
`SlotsMatchCounter` violated. `FilledFacts` and `FilledNext` say what one entry more does to the blocks,
`FirstEmptyFound` and `RecoveredNumberFound` what the scan of `FileRetrieveFileTable` finds. One lemma per
action.

The contents of the table, in the same module, with `FewUnstored` and `RoomLeft` (at least two blocks, and
`FileLimit <= (MaxStanagBlocks - 1) * EntriesPerBlock`: the last block stays empty, because a full last block
hides from a restart, `M23_Stanag.c:1142`, section 4):

* `RestartAppends`: `Spec => []RecoveryAppends`.
* `TableImplements`: `Spec => Implements`, the refinement of `RecordingStore`.

The invariant `Contents`: the entries of the memory lie one behind the other and the writing position is at
their end (`MemoryLaid`), so do those of the cartridge (`Laid`), and the cartridge in its bay has the
memory's entries, the size of the open one aside while an update is under way (`Agree`). `Laid` orders the
entries pair by pair, so that no induction over them is needed. `PositionFound` says where a restart
writes next, `BlockWritten` what a write changes. For the refinement there is one lemma per action on what
it does to `Files` and `Durable`.

The dates and the search (`FileSearch`), in the same module: `SearchIsTrue`
(`SearchFindsRecording`), for every division of the day into hours and parts and for recordings of any length.
`DateAndBack` is the calendar (the two month tables undo each other on every day of a year),
`TagOrder` and `HoursAscend` the order of times and of hours, and `CoversTruly` the heart: the day guessed
for the end of a recording (`EndDay`) never makes an entry cover a time outside its recording. `SearchInv`
adds that recordings follow one another, so that at most one entry covers a time.

`EventLog_proofs`: `TypeCorrect`, `HandedOnInOrder` (`HandedInOrder`), `OnlyMissedForgotten`
(`NothingElseForgotten`). The invariant `Content` says what the slots hold until the ring is full
(slot `i` the event `i + 1`), that what was handed on is the prefix below the cursor, and how cursor,
waiting and missed events add up to the events logged, between the two steps of a packet too.

`Cartridge_proofs`: `TypeCorrect`, `AbsenceKnown` (`AbsenceIsKnown`), `OwnTable`
(`RecordsByItsOwnTable`). Neither is inductive. `IInv` adds: a removal seen in this pass is still one
(`SeenIsTrue`); an operator inside a mount does not record (`OneCommand`); a recording that is not
astray has a state that says so, and no mount is under way (`RecordingIsKnown`); a dismount flag goes
with a disk that is not connected (`FlagIsTaken`); a removal noticed has left the disk disconnected and
the hardware stopped (`RemovalIsTaken`); and the table is that of the cartridge in the receiver
whenever the disk is taken as connected (`TableIsItsOwn`), each by a lemma. The seven steps of playback and
tests differ only in what they do to the state, which `StateStepChanges` sums up for all of them.

`Remote_proofs`: `TypeCorrect` and `OwnRemembered` (`RemembersOwn`), whose invariant adds that a recorder
that always records takes nothing from the lever (`AutoNever`).

`Panels_proofs`: `TypeCorrect` and `EraseByBothSwitches` (`EraseNeedsSwitches`), for any set of panels and
any number of switches moved between two scans. `EraseIsAsked` is the invariant: a scan that goes on to
the erase switches, after the wait for the record switch or after a recording that was refused, was asked
to erase by the switches it has seen and those of the scan before; `AskedByBoth` says what that means on
all panels but P3.

The health words (`ChannelHealth`), in the same module: `HealthTypeCorrect` (`HealthTypeOK`), and
`WordsAreConfigured` (`OnlyConfigured`) with `IdsAscend` (the ids of a kind ascend with the entries of its
array, as `InitializeChannelHealth` assumes, section 4).
`WordsPrepared` says at each step of a setup what the types are and from when on every word with
something in it is that of a channel that is on: the health thread writes between any two steps, but
only words of the configuration of the moment (`PassWrites`), and none is written before the setup
has prepared them that would still be there afterwards.

`Settings_proofs`: `TypeCorrect` and `OnlySaveStores` (`UnsavedStaysOut`). `CopyIsFile` is the invariant: a
command between its reading and its opening of the file has what the file holds; nothing else is stored
meanwhile, since one port takes one command at a time. `Written` says what each of the three commands
changes of its copy. The assumptions say that setup 0 exists and that a stored file has one of the
configurations.

`SavedIsRestored` (`SavedComesBack`) compares a step of `.SAVE` with what a start of the program would
make of the file it writes. It needs that the ports are open with what `Serial_Config` says while the power is
on (`PortsAsSet`, kept by `PortsStep`: a start opens them with the stored parameters, `.SET COM` opens both
anew); `SaveStores` says what the file then holds.

The setup files (`Setups`), in the same module: `RecordsItsSetup` (`RecordedAsConfigured`), by
`SourceIsMade`: while nobody has touched the file of the current setup, the text a recording would fetch is
the one the channels were made from. The text is opaque there.

`TypesFollowTheText` (`FilesSpec => [](WellFormed(made) => TypesAsStated)`) follows the text through the sort and
the parser, for texts of any length. The functions of `TmatsFile` recurse on a number or on a prefix of a
sequence; `InductionBySet` and `LeastNat` (from the library's `NatLessThanWellFounded` and `WFMin`) take the
least argument at which a claim fails, so no theorem with an operator for a parameter is needed. In order:

* `Part` and `SortedPart`: the sorted text has every track of the file, in its order, its id before its
  type and its type before the next id, and the lines that refine the type of a track (`DTF`, `DMSK`,
  `CUCE`) stand in the block of that track.
* `Fits`, the invariant of the parser's pass over the blocks: the counters point below the place of
  every track to come, and the ids passed have their kinds (`CountsFit`, `NamesFit`).
* `UseIs` and `NamesAsStated`: the kind a block leaves behind is the one the second reading gives the track,
  and ids that stand in no block keep none.
* `TypesInv` carries this along `FilesSpec`: types and channels are those of a parse of `made`, or `made` is no
  text.

`ChannelsFollowTheText` (`FilesSpec => [](WellFormed(made) /\ Orderly(made) => ConfiguredAsStated)`) goes on to
the contents of the channels:

* `SortedFilled`: the block of a track in the sorted text has exactly the lines copied for it
  (`CopiesOf`), wherever they stood in the file.
* `SlotIs`, `VideoIndex`, `PcmIndex`, `LinkLinesAre`: the place of a channel, counted over the file by the
  second reading, is the one the pass arrives at (`Passed`, `CountsAre`), and the lines that go by
  position rather than by track are copied to the track with that position. This is where the order asked
  by `Orderly` is needed.
* `BlockTold` and `ToldInBlock`: the lines of a block that its decoder reads are those the second reading
  takes to be about the track; `BlockRead` and `SourceRead`: what a decoder leaves in a channel after
  them, whatever it held before; `DecodedAsStated`, `LinkAsStated` and `UartAsStated`: that is what the text
  states.
* `BlockWrites`, `OthersStay`, `ConfiguredOn`: decoding a track writes its own entry, the discrete entry
  or the entry of the UART, and none of these is the channel of a track before it. `Stated` is the
  invariant of the pass; `SettleApart` says that the settings that follow touch no channel.

The hypotheses are about the text the last setup took, since the operator may write anything.

`Channels_proofs`: `ChannelsTypeCorrect`; `PublishesWhatIsAsked` (`PublishedIsAsked`);
`SetupStopsWhatItDrops` (`DroppedStops`). The two counts of the boards meet in `SameRoute` (setting up and
publishing) and `StopFindsSlot` (setting up and stopping). `PublishedInv` adds to the property that a port
that publishes is reached by the table of the last START: without it one could not know that the next
START stops it. It needs `OneSize` (a small 1553 board is the only 1553 board) and `IdsOfOneKind` (an
id is of one kind), which the code takes for granted; with a small and a large board in one recorder TLC
finds `PublishedIsAsked` violated. `RunsWhenOn` says that a channel the next setup can stop runs only
between setups and only when it is on; a setup that fails has stopped the channels first, which is why
failed setups need not be excluded.

The assumptions on the constants are `ASSUME`s of the modules, and TLC evaluates them on the runs. What a
theorem needs beyond them is an operator it names as its hypothesis: `OneSource`, `FewUnstored`, `RoomLeft`,
`OneSize`, `IdsOfOneKind`, `IdsAscend`, `WellFormed`, `Orderly`. `MCChannels`, `MCChannelHealth` and `MCSetups` assume
theirs of their instances.

Only model-checked: all liveness properties (the prover has no rules for fairness and ENABLED). Every
invariant and every action property of a passing run is stated by a theorem.

## 6. What is not modelled

* Time (`M2X_time.c`, `M23_DataConversion.c`): conversions without state. The bus time of the B1B and
  F15 panels (`M23_M1553_cmd.c`): `ProcessF15_Time` has no caller, and the B1B machine is fed by
  messages whose contents the source does not say.
* Transfers of `M23_disk_io.c`: a wait for the FireWire controller without a bound (`:401`). What its host
  does is not in the source; the modules take a transfer as a step that ends.
* Video chips on I2C, PCM packet sizes, register contents: sequences of writes without a decision that another
  part depends on.
* The queues of `squeue.c`: initialised, never used. `CheckTemp` and `M23_SetTempValue`: without callers.
* GPS, Ethernet, login: input and output. The event channel has GPS as its second user, so what arrives
  on the channel (as against what the event thread hands to it) is not modelled either.
* `login.c`, `cxmp.c`, `test.c`: not in the Makefile.

Next in line would be a composition of `StanagTable` and `Cartridge` with two tables (an erase after a
swap, `M23_Stanag.c:987`), and the event channel.
