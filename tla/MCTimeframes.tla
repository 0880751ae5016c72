---------------------------- MODULE MCTimeframes ----------------------------
(***************************************************************************)
(* Bars at the edges of buckets, sessions, days and weeks.  Day 3 is a     *)
(* Thursday; c2 is the contract month traded from Friday's day session on. *)
(***************************************************************************)
EXTENDS TimeframeStream

CONSTANTS c1, c2

Slots(contract, day, minutes) ==
  {[contract |-> contract, time |-> 1440 * day + m] : m \in minutes}

\* Thursday's opening half hour and what follows, the night over midnight, the roll, and
\* the next week.
Weekdays ==
  Slots(c1, 3, {525, 554, 555, 1439}) \cup Slots(c1, 4, {0})
  \cup Slots(c2, 4, {525}) \cup Slots(c2, 7, {525})

\* The night that begins on Friday and ends on Saturday.
WeekendNight ==
  Slots(c1, 4, {525, 554, 900, 1439}) \cup Slots(c1, 5, {0, 300}) \cup Slots(c1, 7, {525})

\* The weekdays never enter a bucket twice, the night before Saturday does.
ASSUME ContiguousAssumption ==
  LET all == \A i \in Timeframe : Contiguous(i)
  IN  (Slot = Weekdays => all) /\ (Slot = WeekendNight => ~all)
=============================================================================
