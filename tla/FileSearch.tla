------------------------------ MODULE FileSearch ------------------------------
(***************************************************************************)
(* The dates and times of the file table (M23_Stanag.c) and the search for *)
(* the recording that was going on at a given time (.FIND, .REPLAY).  An   *)
(* entry has the calendar date of its start, made from the day of the year *)
(* of the time code, and two times of day; the date of its end is inferred *)
(* from them.                                                              *)
(***************************************************************************)
EXTENDS Integers, Sequences

CONSTANTS
  Years,         \* years the time code may show
  FirstDays,     \* days of the year to start from
  HoursPerDay,   \* (24)
  PartsPerHour,  \* resolution of a time below the hour
  MaxTicks,      \* bound: parts of an hour that pass
  MaxFiles       \* bound: recordings

ASSUME ClockAssumption ==
  /\ Years \subseteq Nat /\ FirstDays \subseteq 1..366
  /\ HoursPerDay \in Nat \ {0} /\ PartsPerHour \in Nat \ {0}
  /\ MaxTicks \in Nat /\ MaxFiles \in Nat

VARIABLES
  year,       \* M23_GetYear
  day,        \* gsb_time.Days: the day of the year, from 1
  time,       \* the time of day, in parts of an hour
  ticks,
  entries,    \* the file table: dates and times of its entries
  recording,  \* the last entry is the open recording
  span        \* when each recording really began and was last updated

searchVars == <<year, day, time, ticks, entries, recording, span>>

PartsPerDay == HoursPerDay * PartsPerHour

\* Time_GSBToTimeTag and Time_ASCIIToTimeTag: the time since the year began.
TimeTag(d, t) == d * PartsPerDay + t
Hour(t) == t \div PartsPerHour

-----------------------------------------------------------------------------
(* GetSystemDateStr and GetDayFromTime: the day of the year and its date.  *)

IsLeap(y) == y % 4 = 0

\* The days before each month.
MonthStart(leap) ==
  IF leap THEN <<0, 31, 60, 91, 121, 152, 182, 213, 244, 274, 305, 335, 366>>
  ELSE <<0, 31, 59, 90, 120, 151, 181, 212, 243, 273, 304, 334, 365>>

SystemDate(d, y) ==
  LET before == MonthStart(IsLeap(y))
      months == {m \in 1..12 : before[m] < d /\ d <= before[m + 1]}
  IN  IF months = {} THEN [day |-> 0, month |-> 0, year |-> y]
      ELSE LET m == CHOOSE m \in months : TRUE
           IN  [day |-> d - before[m], month |-> m, year |-> y]

DayFromDate(date) == date.day + MonthStart(IsLeap(date.year))[date.month]

-----------------------------------------------------------------------------
(* M23_GetFileFromTime.                                                    *)

\* The day the end of a recording is taken to fall on: a clock that shows less
\* at the end than at the start has passed midnight.
EndDay(e) ==
  LET d == DayFromDate(e.createDate)
  IN  IF Hour(e.closeTime) < Hour(e.createTime) THEN d + 1 ELSE d

\* (Mutant: the time of the last update still belongs to the recording.)
CoversClosed(e, tag) ==
  /\ tag <= TimeTag(EndDay(e), e.closeTime)
  /\ tag >= TimeTag(EndDay(e), e.createTime)

\* Both ends are put on that day.
Covers(e, tag) ==
  /\ tag < TimeTag(EndDay(e), e.closeTime)
  /\ tag >= TimeTag(EndDay(e), e.createTime)

\* The number, from zero, of the first entry that covers the time; -1 for none
\* and for the recording going on (CurrentFileIndex), whose nodes are in memory.
GetFileFromTime(tag) ==
  LET found == {i \in 1..Len(entries) : Covers(entries[i], tag)}
      first == CHOOSE i \in found : \A j \in found : i <= j
      current == Len(entries) - 1
  IN  IF found = {} \/ (first - 1 = current /\ recording) THEN -1 ELSE first - 1

-----------------------------------------------------------------------------
DaysIn(y) == MonthStart(IsLeap(y))[13]

SearchInit ==
  /\ year \in Years
  /\ day \in {d \in FirstDays : d <= DaysIn(year)}
  /\ time = 0 /\ ticks = 0
  /\ entries = <<>> /\ recording = FALSE /\ span = <<>>

\* The time code goes on.
Tick ==
  /\ ticks < MaxTicks
  /\ ticks' = ticks + 1
  /\ \/ /\ time + 1 < PartsPerDay
        /\ time' = time + 1
        /\ UNCHANGED day
     \/ /\ time + 1 = PartsPerDay
        /\ day < DaysIn(year)
        /\ time' = 0
        /\ day' = day + 1
  /\ UNCHANGED <<year, entries, recording, span>>

\* sopen.
SOpenTimes ==
  /\ ~recording /\ Len(entries) < MaxFiles
  /\ recording' = TRUE
  /\ entries' = Append(entries, [createDate |-> SystemDate(day, year),
                                 createTime |-> time, closeTime |-> time])
  /\ span' = Append(span, [from |-> TimeTag(day, time), to |-> TimeTag(day, time)])
  /\ UNCHANGED <<year, day, time, ticks>>

\* UpdateStanag: with every root the close time becomes the time of day.
UpdateStanagTimes ==
  /\ recording
  /\ entries' = [entries EXCEPT ![Len(entries)].closeTime = time]
  /\ span' = [span EXCEPT ![Len(span)].to = TimeTag(day, time)]
  /\ UNCHANGED <<year, day, time, ticks, recording>>

\* Emergency_Close leaves the times as they are.
EmergencyCloseTimes ==
  /\ recording
  /\ recording' = FALSE
  /\ UNCHANGED <<year, day, time, ticks, entries, span>>

SearchNext == Tick \/ SOpenTimes \/ UpdateStanagTimes \/ EmergencyCloseTimes

SearchSpec == SearchInit /\ [][SearchNext]_searchVars

-----------------------------------------------------------------------------
(* Properties.                                                             *)

DayOf(tag) == tag \div PartsPerDay

\* A search for a time finds no recording but one that was going on then ("Get the
\* File Number from the time Requested", M23_GetFileFromTime), and it finds every
\* one of a single day, on either side of the end of a month.  A recording that was
\* going on at midnight is found by no time in it, or, when it is longer than a day,
\* by some of its first day (EndDay); others are found in spite of it.
SearchFindsRecording ==
  \A tag \in TimeTag(day, time) - ticks .. TimeTag(day, time) :
    LET going == {i \in 1..Len(span) : /\ span[i].from <= tag /\ tag < span[i].to
                                       /\ ~(recording /\ i = Len(span))}
        found == GetFileFromTime(tag) + 1
    IN  /\ found = 0 \/ found \in going
        /\ \A i \in going : DayOf(span[i].from) = DayOf(span[i].to) => found = i
=============================================================================
