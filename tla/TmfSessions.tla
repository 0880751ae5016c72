---------------------------- MODULE TmfSessions ----------------------------
(***************************************************************************)
(* The exchange's calendar: sessions and trading dates of a Taipei minute  *)
(* (market/sessions.py) and the buckets of a timeframe                     *)
(* (market/timeframes.py).  A time is a count of minutes; day 0 is a Monday*)
(***************************************************************************)
EXTENDS Integers

CONSTANT Holiday    \* TradingCalendar.holidays, as days

ASSUME HolidayAssumption == Holiday \subseteq Nat

Timeframe == {"1m", "30m", "1h", "1d", "1w"}

DayOf(t) == t \div 1440
MinuteOf(t) == t % 1440
Weekday(d) == d % 7

TradingDay(d) == Weekday(d) < 5 /\ d \notin Holiday

\* next_trading_day(): the first one after d.  The code searches on without an end; here
\* the bound is two weeks, longer than any run of holidays of the instances.
NextTradingDay(d) ==
  CHOOSE e \in d + 1..d + 14 :
    TradingDay(e) /\ \A f \in d + 1..e - 1 : ~TradingDay(f)

IsDaySession(t) == 525 <= MinuteOf(t) /\ MinuteOf(t) <= 825
IsEvening(t) == MinuteOf(t) >= 900
IsEarly(t) == MinuteOf(t) <= 300

\* classify_tmf_session() raises outside the sessions.
InSession(t) == IsDaySession(t) \/ IsEvening(t) \/ IsEarly(t)
SessionOf(t) == IF IsDaySession(t) THEN "day" ELSE "night"

TradingDate(t) == IF IsEvening(t) THEN NextTradingDay(DayOf(t)) ELSE DayOf(t)

\* _session_anchor(): 8:45 of the day, or 15:00 of the evening the night began.
Anchor(t) ==
  IF IsDaySession(t) THEN 1440 * DayOf(t) + 525
  ELSE IF IsEvening(t) THEN 1440 * DayOf(t) + 900
  ELSE 1440 * (DayOf(t) - 1) + 900

\* The first minute of the bucket of n minutes.
BucketStart(t, n) == Anchor(t) + ((t - Anchor(t)) \div n) * n

Minutes == [i \in {"30m", "1h"} |-> IF i = "30m" THEN 30 ELSE 60]

\* timeframe_bucket() of a bar.  The code reads session and trading date off the bar, which
\* carries what classify_tmf_session() says of its time.
Bucket(contract, t, interval) ==
  CASE interval = "1m" -> <<contract, t>>
    [] interval \in {"30m", "1h"} ->
         <<contract, SessionOf(t), TradingDate(t), BucketStart(t, Minutes[interval])>>
    [] interval = "1d" -> <<contract, TradingDate(t)>>
    [] interval = "1w" -> <<contract, TradingDate(t) \div 7>>
=============================================================================
