---------------------------- MODULE TradingCalendar ----------------------------
(***************************************************************************)
(* The two session calendars (domain/trading_calendar.py, ingest/          *)
(* calendar.py).  A day is an integer whose remainder modulo 7 is its      *)
(* weekday, Monday being 0; a time of day is a minute in New York time.    *)
(* A calendar is a record: the verified range, the closed days and, for    *)
(* the equity calendar, the early closes as a function from days.          *)
(***************************************************************************)
EXTENDS Integers, Sequences

RegularOpen      == 570      \* 09:30
RegularClose     == 960      \* 16:00
MaintenanceStart == 1020     \* 17:00
MaintenanceEnd   == 1080     \* 18:00

Weekday(day) == day % 7

InVerifiedRange(cal, day) == cal.from <= day /\ day <= cal.through

\* EquityCalendarConfig.__post_init__: the configurations that can exist.
ValidEquityConfig(cal) ==
    /\ cal.from <= cal.through
    /\ \A d \in cal.holidays \cup DOMAIN cal.early :
         InVerifiedRange(cal, d) /\ Weekday(d) < 5
    /\ cal.holidays \cap DOMAIN cal.early = {}
    /\ \A d \in DOMAIN cal.early : cal.early[d] < RegularClose

\* USEquityCalendar.day_status.
DayStatus(cal, day) ==
    CASE Weekday(day) >= 5 -> "WEEKEND"
      [] Weekday(day) < 5 /\ ~InVerifiedRange(cal, day) -> "UNVERIFIED"
      [] Weekday(day) < 5 /\ InVerifiedRange(cal, day) /\ day \in cal.holidays -> "HOLIDAY"
      [] OTHER -> "TRADING_DAY"

\* USEquityCalendar.session: the close is also the anchor of the day.
CloseOf(cal, day) == IF day \in DOMAIN cal.early THEN cal.early[day] ELSE RegularClose

\* The equity gate of services/collector_router.py.
EquityGate(cal, day, minute) ==
    IF DayStatus(cal, day) # "TRADING_DAY" THEN {DayStatus(cal, day)}
    ELSE IF minute \in RegularOpen..CloseOf(cal, day) THEN {} ELSE {"CLOSED"}

\* GlobexSessionClock.state_at.
GlobexState(cal, day, minute) ==
    IF ~InVerifiedRange(cal, day) THEN "UNVERIFIED"
    ELSE IF \/ day \in cal.closed
            \/ Weekday(day) = 5
            \/ Weekday(day) = 4 /\ minute >= MaintenanceStart
            \/ Weekday(day) = 6 /\ minute < MaintenanceEnd
         THEN "CLOSED"
    ELSE IF minute \in MaintenanceStart..(MaintenanceEnd - 1) THEN "MAINTENANCE"
    ELSE "OPEN"

GlobexGate(cal, day, minute) ==
    IF GlobexState(cal, day, minute) = "OPEN" THEN {} ELSE {GlobexState(cal, day, minute)}

\* ingest/calendar.py trading_days: the tradable days of a window, in order.
TradingDays(cal, start, end) ==
    SelectSeq([i \in 1..(end - start + 1) |-> start + i - 1],
              LAMBDA d : DayStatus(cal, d) = "TRADING_DAY")
=============================================================================
