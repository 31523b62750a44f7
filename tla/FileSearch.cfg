\* The days around every end of a month, of a common and a leap year;
\* recordings may be going on at midnight, or longer
\* than a day.
CONSTANTS
  Years = {2019, 2020}
  FirstDays = {1, 30, 31, 58, 59, 60, 90, 91, 120, 121, 151, 152, 181, 182, 212, 213,
               243, 244, 273, 274, 304, 305, 334, 335, 364, 365, 366}
  HoursPerDay = 3
  PartsPerHour = 2
  MaxTicks = 8
  MaxFiles = 2
SPECIFICATION SearchSpec
INVARIANT SearchFindsRecording
CHECK_DEADLOCK FALSE
