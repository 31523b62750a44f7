------------------------------ MODULE EventLog ------------------------------
(***************************************************************************)
(* The ring of events (M23_EventProcessor.c): commands, discretes and 1553 *)
(* messages append to it, and while the recorder records the event thread  *)
(* hands it to the event channel, at most Batch events in a packet.  The   *)
(* two sides share EventCount and NumEvents without a lock; the thread     *)
(* computes the new NumEvents before the slow write and stores it after.   *)
(***************************************************************************)
EXTENDS Integers, Sequences

CONSTANTS
  RingSize,   \* slots of Events.Event (4096)
  Batch,      \* events in a packet (20)
  MaxEvents   \* bound: events between two erases

ASSUME SizeAssumption ==
  /\ RingSize \in Nat /\ Batch \in Nat \ {0} /\ Batch < RingSize - 1
  /\ MaxEvents \in Nat

VARIABLES
  event,              \* Events.Event: the number of the event in each slot
  eventCount,         \* Events.EventCount: the slot of the next event
  recordEvent,        \* Events.RecordEvent: EventCount when the last record stopped
  firstRecord,        \* Events.FirstRecord: no events before the first recording
  numEvents,          \* NumEvents: events the thread has still to hand on
  currentStartEvent,  \* CurrentStartEvent: the first of them
  recording,          \* RecorderStatus is RECORD or REC_N_PLAY
  starting,           \* the command that made it so has still to log its event
  pc,                 \* the event thread: "sleep" or "write"
  end,                \* its locals end and set
  set,
  logged,             \* events logged since the last erase
  handed,             \* events handed to m23_WriteEventsToHost by the thread
  missed,             \* events that arrived while the thread wrote
  undone              \* the last erase came while the thread wrote

log == <<event, eventCount, recordEvent, firstRecord>>
thread == <<pc, end, set>>
recorder == <<recording, starting>>
history == <<logged, handed, missed, undone>>
vars == <<log, numEvents, currentStartEvent, recorder, thread, history>>

Slots == 0..(RingSize - 1)
Last == RingSize - 1      \* 4095

Init ==
  /\ event = [s \in Slots |-> 0]
  /\ eventCount = 0 /\ recordEvent = 0 /\ firstRecord = FALSE
  /\ numEvents = 0 /\ currentStartEvent = 0
  /\ recording = FALSE /\ starting = FALSE
  /\ pc = "sleep" /\ end = 0 /\ set = 0
  /\ logged = 0 /\ handed = <<>> /\ missed = 0 /\ undone = FALSE

\* The next slot takes the event.
Append1 ==
  /\ logged < MaxEvents
  /\ logged' = logged + 1
  /\ event' = [event EXCEPT ![eventCount] = logged']
  /\ eventCount' = IF eventCount + 1 > Last THEN 0 ELSE eventCount + 1
  /\ numEvents' = numEvents + 1
  /\ missed' = IF pc = "write" THEN missed + 1 ELSE missed
  /\ UNCHANGED <<currentStartEvent, thread, handed, undone, recordEvent, recording>>

\* An event the priorities let through: not before the first recording.
UpdateEvent ==
  /\ firstRecord
  /\ Append1
  /\ UNCHANGED <<firstRecord, starting>>

\* A 1553 message defined as an event: at any time.
Update_M1553_Event ==
  /\ Append1
  /\ UNCHANGED <<firstRecord, starting>>

\* RecordFile: the state is RECORD before the command logs anything.
RecordStarts ==
  /\ ~recording /\ ~starting
  /\ recording' = TRUE /\ starting' = TRUE
  /\ UNCHANGED <<log, numEvents, currentStartEvent, thread, history>>

\* With a record event defined, the command logs it.
UpdateRecordEvent ==
  /\ starting
  /\ starting' = FALSE
  /\ firstRecord' = TRUE
  /\ Append1

\* With none, it writes the events since the last stop to the channel itself
\* (not among handed), and leaves the cursors of the thread.
WriteSavedEvents ==
  /\ starting
  /\ starting' = FALSE
  /\ firstRecord' = (firstRecord \/ eventCount # 0)
  /\ UNCHANGED <<event, eventCount, recordEvent, numEvents, currentStartEvent,
                 recording, thread, history>>

\* .RECORD with a name and no record event does neither.
RecordNamed ==
  /\ starting
  /\ starting' = FALSE
  /\ UNCHANGED <<log, numEvents, currentStartEvent, recording, thread, history>>

\* Stop: M23_SetLastRecordEvent.
Stop ==
  /\ recording
  /\ recording' = FALSE
  /\ recordEvent' = eventCount
  /\ UNCHANGED <<event, eventCount, firstRecord, numEvents, currentStartEvent,
                 starting, thread, history>>

\* (Mutant: the number of waiting events survives the erase.)
EraseCursorsOnly ==
  /\ eventCount' = 0 /\ recordEvent' = 0
  /\ currentStartEvent' = 0
  /\ numEvents' = numEvents

EraseCursors ==
  /\ eventCount' = 0 /\ recordEvent' = 0
  /\ currentStartEvent' = 0
  /\ numEvents' = 0

\* m23_EraseEvents, by an erase: only when idle, whatever the thread is doing.
\* (Bound: one erase in a write until one that is not.)
EraseEvents ==
  /\ ~recording /\ ~starting
  /\ pc = "sleep" \/ ~undone
  /\ EraseCursors
  /\ event' = [s \in Slots |-> 0]
  /\ logged' = 0 /\ handed' = <<>> /\ missed' = 0 /\ undone' = (pc = "write")
  /\ UNCHANGED <<firstRecord, recorder, thread>>

-----------------------------------------------------------------------------
(* M23_EventProcessor: what it hands on, and the cursors it will set.      *)

\* (Mutants: everything in one packet; nothing is taken off; a whole packet always is.)
BatchEndAll(start, n) == start + n
BatchRestKept(n) == n
BatchRestWrong(n) == n - Batch

\* A packet of at most Batch events.
BatchEnd(start, n) == IF n > Batch THEN start + Batch ELSE start + n
BatchRest(n) == IF n > Batch THEN n - Batch ELSE 0

HandOn(from, to) ==
  handed' = handed \o [i \in 1..(to - from) |-> event[from + i - 1]]

\* Clear of the end of the ring.
PacketBeforeEnd ==
  /\ currentStartEvent + numEvents < Last
  /\ end' = BatchEnd(currentStartEvent, numEvents)
  /\ set' = BatchRest(numEvents)
  /\ HandOn(currentStartEvent, end')

\* The events reach the end of the ring, but a whole packet fits before it.
PacketNearEnd ==
  /\ currentStartEvent + numEvents >= Last
  /\ Last - currentStartEvent > Batch
  /\ end' = currentStartEvent + Batch
  /\ set' = numEvents - Batch
  /\ HandOn(currentStartEvent, end')

\* No packet fits: with more than Batch events, the slots up to Last are handed
\* on; with fewer, nothing is and the locals keep what the last packet set.
PacketAtEnd ==
  /\ currentStartEvent + numEvents >= Last
  /\ Last - currentStartEvent <= Batch
  /\ IF numEvents > Batch
     THEN /\ HandOn(currentStartEvent, Last)
          /\ set' = Last - currentStartEvent
          /\ end' = 0
     ELSE UNCHANGED <<handed, set, end>>

StartPacket ==
  /\ pc = "sleep"
  /\ numEvents > 0 /\ recording
  /\ PacketBeforeEnd \/ PacketNearEnd \/ PacketAtEnd
  /\ pc' = "write"
  /\ UNCHANGED <<log, numEvents, currentStartEvent, recorder, logged, missed, undone>>

\* The write is over: the cursors become what was computed before it.
FinishPacket ==
  /\ pc = "write"
  /\ numEvents' = set
  /\ currentStartEvent' = end
  /\ pc' = "sleep"
  /\ UNCHANGED <<log, recorder, end, set, history>>

EventProcessor == StartPacket \/ FinishPacket

Next ==
  \/ UpdateEvent \/ Update_M1553_Event
  \/ RecordStarts \/ UpdateRecordEvent \/ WriteSavedEvents \/ RecordNamed
  \/ Stop \/ EraseEvents
  \/ EventProcessor

\* The thread wakes up every second.
Spec == Init /\ [][Next]_vars /\ WF_vars(EventProcessor)

-----------------------------------------------------------------------------
(* Properties.                                                             *)

\* Types; the cursors stay inside the ring.
TypeOK ==
  /\ event \in [Slots -> 0..MaxEvents]
  /\ eventCount \in Slots /\ recordEvent \in Slots
  /\ firstRecord \in BOOLEAN /\ recording \in BOOLEAN /\ starting \in BOOLEAN
  /\ numEvents \in 0..(2 * MaxEvents) /\ undone \in BOOLEAN
  /\ currentStartEvent \in Slots
  /\ pc \in {"sleep", "write"}
  /\ end \in Slots /\ set \in 0..(2 * MaxEvents)
  /\ logged \in 0..MaxEvents /\ missed \in 0..MaxEvents
  /\ handed \in Seq(0..MaxEvents)

\* Until the ring is full for the first time, the thread hands on every event at
\* most once and in the order in which they happened, and never a slot that
\* holds none, whatever arrives while it writes.  (After an erase in a write
\* FinishPacket brings the cursors of before back.)
HandedInOrder ==
  logged < Last /\ ~undone =>
    /\ \A i \in 1..Len(handed) : handed[i] > 0
    /\ \A i, j \in 1..Len(handed) : i < j => handed[i] < handed[j]

\* Until then, nothing but an event that arrives during a write is forgotten:
\* what is handed on, what waits and what was missed make up all events.
NothingElseForgotten ==
  logged < Last /\ ~undone /\ pc = "sleep" => Len(handed) + numEvents + missed = logged

\* While the recorder records, the backlog is worked off, as long as the ring has
\* not been full.  (After that PacketAtEnd can repeat itself with the locals of
\* the last packet and NumEvents stays above zero for good.)
BacklogDrains ==
  (recording /\ numEvents > 0 /\ logged < Last /\ ~undone)
    ~> (numEvents = 0 \/ ~recording \/ logged >= Last)
=============================================================================
