---------------------------- MODULE OperatingHours ----------------------------
(***************************************************************************)
(* scheduling/operating-hours.ts: the windows of the days of a week, and   *)
(* whether an operation may start now.  A window whose end is not after    *)
(* its start runs into the next day.  The clock of the operator's timezone *)
(* goes minute by minute and operations start whenever they may; seconds   *)
(* and changes of the clock are left out.                                  *)
(***************************************************************************)
EXTENDS Naturals, FiniteSetsExt

CONSTANTS
  DayLength,       \* bound: minutes of a day
  DayCount,        \* bound: days of a week
  Schedules,       \* what operators may configure: day -> enabled, windows
  minimumMinutes   \* operation -> minutes it needs to start

Days == 0 .. DayCount - 1
Windows == [start : 0 .. DayLength - 1, end : 0 .. DayLength - 1]

ASSUME CalendarAssumption ==
  /\ {DayLength, DayCount} \subseteq Nat \ {0, 1}
  /\ Schedules \subseteq [Days -> [enabled : BOOLEAN, windows : SUBSET Windows]]
  /\ \A operation \in DOMAIN minimumMinutes : minimumMinutes[operation] \in Nat

VARIABLES
  schedule,   \* config.schedule.days
  now,        \* the minute of the week
  reserved    \* minutes that the operation which started last may count on

calendarVars == <<schedule, now, reserved>>

CalendarInit ==
  /\ schedule \in Schedules
  /\ now \in 0 .. DayCount * DayLength - 1
  /\ reserved = 0

minutesSinceMidnight == now % DayLength
currentDay == schedule[now \div DayLength]
previousDay == schedule[(now \div DayLength + DayCount - 1) % DayCount]

\* Mutant of Overnight: a window of a whole day is empty.
OvernightIfBefore(window) == window.end < window.start

Overnight(window) == window.end <= window.start

\* Windows of today that are active; an overnight one until the end of the day.
ActiveToday ==
  {window \in currentDay.windows :
     /\ currentDay.enabled
     /\ minutesSinceMidnight >= window.start
     /\ Overnight(window) \/ minutesSinceMidnight < window.end}

\* Windows of yesterday that are still active, looked at if today has none.
ActiveSinceYesterday ==
  {window \in previousDay.windows :
     previousDay.enabled /\ Overnight(window) /\ minutesSinceMidnight < window.end}

\* Mutant of windowMinutesRemaining: the minutes of today that passed are not subtracted.
windowMinutesInAll(end) ==
  IF end > minutesSinceMidnight
  THEN end - minutesSinceMidnight
  ELSE DayLength + end

windowMinutesRemaining(end) ==
  IF end > minutesSinceMidnight
  THEN end - minutesSinceMidnight
  ELSE DayLength - minutesSinceMidnight + end

isOpen == ActiveToday \union ActiveSinceYesterday # {}

minutesRemaining ==
  IF ActiveToday # {}
  THEN Max({windowMinutesRemaining(window.end) : window \in ActiveToday})
  ELSE Max({window.end - minutesSinceMidnight : window \in ActiveSinceYesterday} \union {0})

canStart(operation) == isOpen /\ minutesRemaining >= minimumMinutes[operation]

StartOperation(operation) ==
  /\ canStart(operation)
  /\ reserved' = Max({reserved, minimumMinutes[operation]})
  /\ UNCHANGED <<schedule, now>>

MinutePasses ==
  /\ now' = (now + 1) % (DayCount * DayLength)
  /\ reserved' = IF reserved > 0 THEN reserved - 1 ELSE 0
  /\ UNCHANGED schedule

CalendarNext == MinutePasses \/ \E operation \in DOMAIN minimumMinutes : StartOperation(operation)

CalendarSpec == CalendarInit /\ [][CalendarNext]_calendarVars

-------------------------------------------------------------------------------
\* The minutes of the week that a window covers, written out.
MinutesOf(day, window) ==
  {(day * DayLength + minute) % (DayCount * DayLength) :
     minute \in window.start .. (IF window.end <= window.start THEN DayLength ELSE 0) + window.end - 1}

\* Those that the configured windows cover.
OpenMinutes ==
  UNION {UNION {MinutesOf(day, window) : window \in schedule[day].windows} :
           day \in {d \in Days : schedule[d].enabled}}

\* The calendar is open in exactly the minutes that some window covers: over
\* midnight, from the last day of the week to its first, with windows that end
\* at midnight, last a whole day, overlap or follow each other.
OpenAsConfigured == isOpen <=> now \in OpenMinutes

\* An operation that was allowed to start has its minimum of minutes before the
\* calendar closes, so a stage is not interrupted as soon as it has begun.
StartedOperationFits == reserved > 0 => isOpen
===============================================================================
