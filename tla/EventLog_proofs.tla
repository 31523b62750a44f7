---------------------------- MODULE EventLog_proofs ----------------------------
(***************************************************************************)
(* Proofs about EventLog, for every size of the ring and of a packet.       *)
(***************************************************************************)
EXTENDS EventLog, SequenceTheorems, TLAPS

\* The parts of the type invariant: flags, and the rest.
Flags ==
  /\ firstRecord \in BOOLEAN /\ recording \in BOOLEAN /\ starting \in BOOLEAN
  /\ undone \in BOOLEAN

Words ==
  /\ event \in [Slots -> 0..MaxEvents]
  /\ eventCount \in Slots /\ recordEvent \in Slots
  /\ numEvents \in Nat
  /\ currentStartEvent \in Slots
  /\ pc \in {"sleep", "write"}
  /\ end \in Slots /\ set \in Nat
  /\ logged \in 0..MaxEvents /\ missed \in Nat
  /\ handed \in Seq(0..MaxEvents)

\* After an erase in a write the thread works on as many events as there were before.
Spare == IF undone THEN MaxEvents ELSE 0

\* No more events wait than were logged.  The local set is old when PacketAtEnd
\* keeps it, but never above the count of the packet before.
Bounds ==
  /\ numEvents <= logged + Spare
  /\ pc = "write" => set <= logged + Spare
  /\ pc = "sleep" /\ currentStartEvent > 0 => set <= numEvents
  /\ missed <= logged
  /\ set <= 2 * MaxEvents

USE SizeAssumption DEF Slots, Last

-----------------------------------------------------------------------------
\* No step makes a flag anything but TRUE or FALSE.
LEMMA FlagsStep ==
  ASSUME Flags, [Next]_vars
  PROVE  Flags'
<1> USE DEF Flags, log, thread, recorder, history
<1>1. CASE UpdateEvent
  BY <1>1 DEF UpdateEvent, Append1
<1>2. CASE Update_M1553_Event
  BY <1>2 DEF Update_M1553_Event, Append1
<1>3. CASE RecordStarts
  BY <1>3 DEF RecordStarts
<1>4. CASE UpdateRecordEvent
  BY <1>4 DEF UpdateRecordEvent, Append1
<1>5. CASE WriteSavedEvents
  BY <1>5, Zenon DEF WriteSavedEvents
<1>6. CASE RecordNamed
  BY <1>6 DEF RecordNamed
<1>7. CASE Stop
  BY <1>7 DEF Stop
<1>8. CASE EraseEvents
  BY <1>8, Zenon DEF EraseEvents
<1>9. CASE StartPacket
  BY <1>9 DEF StartPacket
<1>10. CASE FinishPacket
  BY <1>10 DEF FinishPacket
<1>11. CASE UNCHANGED vars
  BY <1>11 DEF vars
<1>12. QED
  BY <1>1, <1>2, <1>3, <1>4, <1>5, <1>6, <1>7, <1>8, <1>9, <1>10, <1>11 DEF Next, EventProcessor

\* The cursors a packet is written from and those it will leave: inside the ring,
\* and the count no larger than before.
LEMMA PacketCursors ==
  ASSUME Words, Bounds, StartPacket
  PROVE  /\ end' \in Slots /\ set' \in Nat /\ set' <= numEvents
         /\ \/ UNCHANGED handed
            \/ \E to \in currentStartEvent..Last : HandOn(currentStartEvent, to)
<1> USE DEF Words, Bounds
<1>1. CASE PacketBeforeEnd
  BY <1>1 DEF StartPacket, PacketBeforeEnd, BatchEnd, BatchRest
<1>2. CASE PacketNearEnd
  BY <1>2 DEF StartPacket, PacketNearEnd
<1>3. CASE PacketAtEnd
  BY <1>3 DEF StartPacket, PacketAtEnd
<1>4. QED
  BY <1>1, <1>2, <1>3 DEF StartPacket

\* A function on 1..n is a sequence of length n.
LEMMA FunctionIsSequence ==
  ASSUME NEW S, NEW n \in Nat, NEW f \in [1..n -> S]
  PROVE  f \in Seq(S) /\ Len(f) = n
<1>1. f \in Seq(S)
  BY SeqDef, Zenon
<1>2. Len(f) \in Nat /\ 1..n = 1..Len(f)
  BY <1>1, LenProperties
<1>3. QED
  BY <1>1, <1>2

\* What HandOn appends: the slots from a cursor up to another.
LEMMA HandOnAppends ==
  ASSUME Words, NEW from \in Slots, NEW to \in from..Last, HandOn(from, to)
  PROVE  /\ handed' \in Seq(0..MaxEvents)
         /\ Len(handed') = Len(handed) + (to - from)
         /\ \A i \in 1..Len(handed) : handed'[i] = handed[i]
         /\ \A i \in 1..(to - from) : handed'[Len(handed) + i] = event[from + i - 1]
<1> DEFINE more == [i \in 1..(to - from) |-> event[from + i - 1]]
<1>1. \A i \in 1..(to - from) : event[from + i - 1] \in 0..MaxEvents
  BY DEF Words
<1>2. more \in [1..(to - from) -> 0..MaxEvents]
  BY <1>1, Zenon
<1>3. to - from \in Nat
  OBVIOUS
<1>4. handed \in Seq(0..MaxEvents)
  BY DEF Words
<1>5. handed' = handed \o more
  BY DEF HandOn
<1>6. \A i \in 1..(to - from) : more[i] = event[from + i - 1]
  OBVIOUS
<1> HIDE DEF more
<1>7. more \in Seq(0..MaxEvents) /\ Len(more) = to - from
  BY <1>2, <1>3, FunctionIsSequence
<1>8. /\ handed' \in Seq(0..MaxEvents)
      /\ Len(handed') = Len(handed) + Len(more)
      /\ \A i \in 1..(Len(handed) + Len(more)) :
           handed'[i] = IF i <= Len(handed) THEN handed[i] ELSE more[i - Len(handed)]
  BY <1>4, <1>5, <1>7, ConcatProperties
<1>9. Len(handed) \in Nat
  BY <1>4, LenProperties
<1>10. ASSUME NEW i \in 1..(to - from)
       PROVE  handed'[Len(handed) + i] = event[from + i - 1]
  <2>1. /\ Len(handed) + i \in 1..(Len(handed) + Len(more))
        /\ ~(Len(handed) + i <= Len(handed)) /\ (Len(handed) + i) - Len(handed) = i
    BY <1>3, <1>7, <1>9
  <2>2. handed'[Len(handed) + i] = more[i]
    BY <1>8, <2>1
  <2>3. QED
    BY <1>6, <2>2
<1>11. ASSUME NEW i \in 1..Len(handed)
       PROVE  handed'[i] = handed[i]
  <2>1. Len(more) \in Nat
    BY <1>3, <1>7
  <2>2. i \in 1..(Len(handed) + Len(more)) /\ i <= Len(handed)
    BY <1>9, <2>1
  <2>3. QED
    BY <1>8, <2>2
<1>12. QED
  BY <1>7, <1>8, <1>10, <1>11

\* Every word but the sequence of events handed on and the counts that PacketCursors
\* is about follows from the step.
LEMMA WordsStep ==
  ASSUME Words, Flags, Bounds, [Next]_vars
  PROVE  Words'
<1> USE DEF log, thread, recorder, history
<1>1. ASSUME Append1, UNCHANGED handed
      PROVE  Words'
  BY <1>1 DEF Append1, Words
<1>2. CASE UpdateEvent \/ Update_M1553_Event \/ UpdateRecordEvent
  BY <1>1, <1>2 DEF UpdateEvent, Update_M1553_Event, UpdateRecordEvent, Append1
<1>3. CASE RecordStarts \/ WriteSavedEvents \/ RecordNamed
  BY <1>3 DEF RecordStarts, WriteSavedEvents, RecordNamed, Words
<1>4. CASE Stop
  BY <1>4 DEF Stop, Words
<1>5. CASE EraseEvents
  <2>1. handed' \in Seq(0..MaxEvents)
    BY <1>5, EmptySeq DEF EraseEvents
  <2>2. event' \in [Slots -> 0..MaxEvents]
    BY <1>5 DEF EraseEvents
  <2>3. QED
    BY <1>5, <2>1, <2>2 DEF EraseEvents, EraseCursors, Words
<1>6. CASE StartPacket
  <2>1. handed' \in Seq(0..MaxEvents)
    <3>1. CASE UNCHANGED handed
      BY <3>1 DEF Words
    <3>2. CASE \E to \in currentStartEvent..Last : HandOn(currentStartEvent, to)
      BY <3>2, HandOnAppends DEF Words
    <3>3. QED
      BY <1>6, <3>1, <3>2, PacketCursors
  <2>2. QED
    BY <1>6, <2>1, PacketCursors DEF StartPacket, Words
<1>7. CASE FinishPacket
  BY <1>7 DEF FinishPacket, Words
<1>8. CASE UNCHANGED vars
  BY <1>8 DEF vars, Words
<1>9. QED
  BY <1>2, <1>3, <1>4, <1>5, <1>6, <1>7, <1>8 DEF Next, EventProcessor

\* The counts keep their bounds: FinishPacket brings back what was waiting when
\* the packet was begun, an erase in between starts the count of logged anew.
LEMMA BoundsStep ==
  ASSUME Words, Flags, Bounds, [Next]_vars
  PROVE  Bounds'
<1> USE DEF log, thread, recorder, history, Bounds, Spare, Words
<1>1. ASSUME Append1
      PROVE  Bounds'
  BY <1>1 DEF Append1
<1>2. CASE UpdateEvent \/ Update_M1553_Event \/ UpdateRecordEvent
  BY <1>1, <1>2 DEF UpdateEvent, Update_M1553_Event, UpdateRecordEvent
<1>3. CASE RecordStarts \/ WriteSavedEvents \/ RecordNamed \/ Stop
  BY <1>3 DEF RecordStarts, WriteSavedEvents, RecordNamed, Stop
<1>4. CASE EraseEvents
  <2>1. CASE pc = "write"
    <3>1. ~undone /\ undone'
      BY <1>4, <2>1, Zenon DEF EraseEvents
    <3>2. QED
      BY <1>4, <2>1, <3>1 DEF EraseEvents, EraseCursors
  <2>2. CASE pc = "sleep"
    BY <1>4, <2>2 DEF EraseEvents, EraseCursors
  <2>3. QED
    BY <2>1, <2>2
<1>5. CASE StartPacket
  BY <1>5, PacketCursors DEF StartPacket
<1>6. CASE FinishPacket
  BY <1>6 DEF FinishPacket
<1>7. CASE UNCHANGED vars
  BY <1>7 DEF vars
<1>8. QED
  BY <1>2, <1>3, <1>4, <1>5, <1>6, <1>7 DEF Next, EventProcessor

Types == Flags /\ Words /\ Bounds

LEMMA TypesStep ==
  ASSUME Types, [Next]_vars
  PROVE  Types'
BY FlagsStep, WordsStep, BoundsStep, Zenon DEF Types

LEMMA TypesInit ==
  ASSUME Init
  PROVE  Types
<1>1. Flags
  BY Zenon DEF Init, Flags
<1>2. handed \in Seq(0..MaxEvents)
  BY EmptySeq DEF Init
<1>3. Words
  BY <1>2 DEF Init, Words
<1>4. Spare = 0
  BY Zenon DEF Init, Spare
<1>5. Bounds
  BY <1>4 DEF Init, Bounds
<1>6. QED
  BY <1>1, <1>3, <1>5 DEF Types

\* The cursors of the ring stay inside it and the counts inside their bounds
\* (TypeOK of EventLog), whatever is logged, recorded and erased in a write.
THEOREM TypeCorrect == Spec => []TypeOK
<1>1. Types => TypeOK
  <2>1. ASSUME Types
        PROVE  /\ numEvents \in 0..(2 * MaxEvents) /\ set \in 0..(2 * MaxEvents)
               /\ missed \in 0..MaxEvents
    BY <2>1 DEF Types, Flags, Words, Bounds, Spare
  <2>2. ASSUME Types
        PROVE  TypeOK
    BY <2>1, <2>2, Zenon DEF Types, Flags, Words, TypeOK
  <2>3. QED
    BY <2>2
<1>2. QED
  BY <1>1, TypesInit, TypesStep, PTL DEF Spec

-----------------------------------------------------------------------------
\* Until the ring is full, its slots hold the events in the order in which they
\* were logged, the thread has handed on those below its cursor, and the ones that
\* arrived in a write are missing from the count that waits.
Content ==
  logged < Last /\ ~undone =>
    /\ eventCount = logged
    /\ \A i \in 0..(logged - 1) : event[i] = i + 1
    /\ \A i \in 1..Len(handed) : handed[i] = i
    /\ pc = "sleep" => /\ currentStartEvent + numEvents + missed = logged
                       /\ Len(handed) = currentStartEvent
    /\ pc = "write" => end + set + missed = logged /\ Len(handed) = end

\* Arithmetic of cursors.
LEMMA Between ==
  ASSUME NEW a \in Nat, NEW b \in Nat
  PROVE  /\ a + (b - a) = b
         /\ \A i \in 1..b : ~(i <= a) => i - a \in 1..(b - a)
  OBVIOUS

\* The packet the thread begins is one of the first kind, and takes the next events.
LEMMA PacketInOrder ==
  ASSUME Types, Content, StartPacket
  PROVE  Content'
<1> USE DEF log, thread, recorder, history, Words
<1> SUFFICES ASSUME logged < Last, ~undone
             PROVE  Content'
  BY DEF StartPacket, Content
<1>1. /\ Words /\ eventCount = logged /\ pc = "sleep"
      /\ \A i \in 0..(logged - 1) : event[i] = i + 1
      /\ \A i \in 1..Len(handed) : handed[i] = i
      /\ currentStartEvent + numEvents + missed = logged /\ Len(handed) = currentStartEvent
  BY DEF Content, StartPacket, Types
<1>2. currentStartEvent + numEvents < Last
  BY <1>1
<1>3. PacketBeforeEnd
  BY <1>1, <1>2 DEF StartPacket, PacketNearEnd, PacketAtEnd
<1>4. /\ end' \in currentStartEvent..Last /\ end' <= currentStartEvent + numEvents
      /\ end' + set' = currentStartEvent + numEvents
  BY <1>1, <1>2, <1>3 DEF PacketBeforeEnd, BatchEnd, BatchRest
<1>5. HandOn(currentStartEvent, end')
  BY <1>3 DEF PacketBeforeEnd
<1>6. /\ Len(handed') = Len(handed) + (end' - currentStartEvent)
      /\ \A i \in 1..Len(handed) : handed'[i] = handed[i]
      /\ \A i \in 1..(end' - currentStartEvent) :
           handed'[Len(handed) + i] = event[currentStartEvent + i - 1]
  BY <1>1, <1>4, <1>5, HandOnAppends
<1>7. /\ currentStartEvent \in Nat /\ numEvents \in Nat /\ missed \in Nat /\ logged \in Nat
      /\ end' \in Nat
  <2>1. currentStartEvent \in Nat /\ numEvents \in Nat /\ missed \in Nat /\ logged \in Nat
    BY DEF Types
  <2>2. QED
    BY <1>4, <2>1
<1>8. Len(handed') = end'
  <2>1. Len(handed') = currentStartEvent + (end' - currentStartEvent)
    BY <1>1, <1>6
  <2>2. QED
    BY <1>7, <2>1, Between, Zenon
<1>9. currentStartEvent + numEvents <= logged
  BY <1>1, <1>7
<1>10. ASSUME NEW i \in 1..end'
      PROVE  handed'[i] = i
  <2>1. CASE i <= currentStartEvent
    BY <1>1, <1>6, <2>1
  <2>2. CASE ~(i <= currentStartEvent)
    <3>1. i - currentStartEvent \in 1..(end' - currentStartEvent)
      BY <1>7, <2>2, Between, Zenon
    <3>2. i - 1 \in 0..(logged - 1)
      BY <1>4, <1>7, <1>9
    <3>3. handed'[Len(handed) + (i - currentStartEvent)]
            = event[currentStartEvent + (i - currentStartEvent) - 1]
      BY <1>6, <3>1
    <3>4. /\ Len(handed) + (i - currentStartEvent) = i
          /\ currentStartEvent + (i - currentStartEvent) - 1 = i - 1
      BY <1>1, <1>4
    <3>5. QED
      BY <1>1, <3>2, <3>3, <3>4
  <2>3. QED
    BY <2>1, <2>2
<1>11. /\ pc' = "write" /\ logged' = logged /\ missed' = missed /\ eventCount' = eventCount
      /\ event' = event /\ undone' = undone
  BY DEF StartPacket
<1>12. end' + set' + missed' = logged'
  BY <1>1, <1>4, <1>11
<1>13. QED
  BY <1>1, <1>7, <1>8, <1>10, <1>11, <1>12 DEF Content

\* An event takes the next slot; in a write it is not counted among the waiting ones.
LEMMA AppendInOrder ==
  ASSUME Types, Content, Append1
  PROVE  Content'
<1> SUFFICES ASSUME logged' < Last, ~undone
             PROVE  Content'
  BY DEF Append1, Content
<1> USE DEF thread, Words
<1>1. Words /\ logged < Last /\ logged' = logged + 1 /\ eventCount = logged
  BY DEF Types, Append1, Content
<1>2. eventCount' = logged' /\ event' = [event EXCEPT ![eventCount] = logged']
  BY <1>1 DEF Append1
<1>3. \A i \in 0..(logged' - 1) : event'[i] = i + 1
  BY <1>1, <1>2 DEF Content
<1>4. QED
  BY <1>1, <1>2, <1>3 DEF Append1, Content

LEMMA ContentStep ==
  ASSUME Types, Content, [Next]_vars
  PROVE  Content'
<1> USE DEF log, thread, recorder, history
<1>1. CASE UpdateEvent \/ Update_M1553_Event \/ UpdateRecordEvent
  BY <1>1, AppendInOrder DEF UpdateEvent, Update_M1553_Event, UpdateRecordEvent
<1>2. CASE RecordStarts \/ WriteSavedEvents \/ RecordNamed \/ Stop
  BY <1>2 DEF RecordStarts, WriteSavedEvents, RecordNamed, Stop, Content
<1>3. CASE EraseEvents
  <2>1. Len(handed') = 0
    BY <1>3, EmptySeq DEF EraseEvents
  <2>2. CASE pc = "write"
    <3>1. undone'
      BY <1>3, <2>2, Zenon DEF EraseEvents
    <3>2. QED
      BY <3>1 DEF Content
  <2>3. CASE pc # "write"
    BY <1>3, <2>1, <2>3 DEF EraseEvents, EraseCursors, Content
  <2>4. QED
    BY <2>2, <2>3
<1>4. CASE StartPacket
  BY <1>4, PacketInOrder
<1>5. CASE FinishPacket
  BY <1>5 DEF FinishPacket, Content, Types, Words
<1>6. CASE UNCHANGED vars
  BY <1>6 DEF vars, Content
<1>7. QED
  BY <1>1, <1>2, <1>3, <1>4, <1>5, <1>6 DEF Next, EventProcessor

Inv == Types /\ Content

LEMMA InvHolds == Spec => []Inv
<1>1. Init => Inv
  <2>1. ASSUME Init
        PROVE  Content
    BY <2>1, EmptySeq DEF Init, Content
  <2>2. QED
    BY <2>1, TypesInit DEF Inv
<1>2. Inv /\ [Next]_vars => Inv'
  BY TypesStep, ContentStep DEF Inv
<1>3. QED
  BY <1>1, <1>2, PTL DEF Spec

\* Until the ring is full the event thread hands on every event at most once, in
\* order, and no slot without an event (HandedInOrder of EventLog), for every size
\* of the ring and of a packet, whatever arrives while it writes.
THEOREM HandedOnInOrder == Spec => []HandedInOrder
<1>1. Inv => HandedInOrder
  <2>1. ASSUME Inv
        PROVE  HandedInOrder
    <3>1. Len(handed) \in Nat
      BY <2>1, LenProperties DEF Inv, Types, Words
    <3>2. QED
      BY <2>1, <3>1 DEF Inv, Content, HandedInOrder
  <2>2. QED
    BY <2>1
<1>2. QED
  BY <1>1, InvHolds, PTL

\* Until then only events that arrive during a write are forgotten
\* (NothingElseForgotten of EventLog).
THEOREM OnlyMissedForgotten == Spec => []NothingElseForgotten
<1>1. Inv => NothingElseForgotten
  BY DEF Inv, Content, NothingElseForgotten, Types, Words
<1>2. QED
  BY <1>1, InvHolds, PTL
=============================================================================
