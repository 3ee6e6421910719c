----------------------------- MODULE MarketClock -----------------------------
(***************************************************************************)
(* The exchange's day as DataCollector and Screener see it: both build a      *)
(* schedule of sessions once and ask exchange.is_open_now(exchange_schedule)  *)
(* ever after. pandas_market_calendars is external; a moment that its         *)
(* schedule does not cover is a ValueError.                                   *)
(***************************************************************************)
EXTENDS Integers

CONSTANTS
    LastDay,      \* bound: the days of an instance, from the process's first
    TradingDays,  \* those with a session
    ScheduleDays  \* how far the schedule reaches (7 in both classes)

ASSUME ClockAssumption ==
    /\ LastDay \in Nat /\ ScheduleDays \in Nat
    /\ TradingDays \subseteq 0..LastDay

VARIABLES
    day,    \* date.today(), 0 when the process starts
    phase   \* of the day, in New York

clock == <<day, phase>>

\* From 6:00, 9:30 to 9:31, the rest of the session, after it, and from 20:00,
\* when the next day has begun in UTC.
Phases == {"early", "opening", "session", "closed", "evening"}
ClockTypeOK == day \in 0..LastDay /\ phase \in Phases

Open == day \in TradingDays /\ phase \in {"opening", "session"}

Closed == phase \in {"closed", "evening"}

\* Past the last session of exchange_schedule: is_open_now raises.
Uncovered ==
    \A d \in TradingDays : d <= ScheduleDays => d < day \/ (d = day /\ Closed)

Advance(from, to) == phase = from /\ phase' = to /\ UNCHANGED day
NextMorning ==
    /\ Closed /\ day < LastDay
    /\ day' = day + 1 /\ phase' = "early"
=============================================================================
