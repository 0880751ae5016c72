-------------------------- MODULE SignalSimulator --------------------------
(***************************************************************************)
(* simulate_signals() of execution/simulator.py with the protective levels *)
(* of risk/engine.py: one pass over a bar table that turns a strategy's    *)
(* intents into entry and exit signals.                                    *)
(*                                                                         *)
(* Prices are integers in units of 1/Scale of a tick, bar prices are whole *)
(* ticks, so the percentage levels are exact; float rounding is left out.  *)
(* A signal's `cause` is the bar whose context the code attaches to it.    *)
(***************************************************************************)
EXTENDS Integers, Sequences

CONSTANTS
  Price,           \* the prices of bars
  Scale,           \* units in a tick, and the denominator of the percentages
  StopLoss,        \* RiskConfig.stop_loss_pct * Scale
  TakeProfit,      \* RiskConfig.take_profit_pct * Scale
  ForceFinal,      \* force_final
  MaxBars          \* bound: the length of the bar table

\* RiskConfig.__post_init__: both percentages lie strictly between 0 and 1.
ASSUME ScaleAssumption ==
  /\ Scale \in Nat \ {0}
  /\ StopLoss \in 1..Scale - 1 /\ TakeProfit \in 1..Scale - 1
ASSUME PriceAssumption ==
  /\ Price \subseteq Nat \ {0}
  /\ \A p \in Price : p % Scale = 0
ASSUME PassAssumption == ForceFinal \in BOOLEAN /\ MaxBars \in Nat

Long == 1
Short == -1
Direction == {Long, Short}
Intent == Direction \cup {0}

Bar == {b \in [open : Price, high : Price, low : Price, close : Price] :
          b.low <= b.open /\ b.open <= b.high /\ b.low <= b.close /\ b.close <= b.high}

RiskLevels == [stop : Int, take : Int]

Signal ==
  [event : {"entry", "exit"}, direction : Direction, bar : 1..MaxBars,
   price : Int, cause : 0..MaxBars,
   reason : {"signal_confirmed", "strategy_exit", "stop_loss", "take_profit",
             "session_end"}]

VARIABLES
  bar,              \* the bars consumed; the last one is `row`
  row,              \* row
  entries,          \* the entry intents consumed, one per bar
  position, pendingEntry, pendingExit,
  previousIntent,   \* previous_entry_intent
  entryCause,       \* the bar in pending_entry_trigger_time, 0 for None
  exitCause,        \* the bar in pending_exit_context, 0 while empty
  levels, signals,
  done              \* the pass has returned

vars == <<bar, row, entries, position, pendingEntry, pendingExit, previousIntent,
          entryCause, exitCause, levels, signals, done>>

Init ==
  /\ bar = 0 /\ row \in Bar /\ entries = << >>
  /\ position = 0 /\ pendingEntry = 0 /\ pendingExit = FALSE
  /\ previousIntent = 0 /\ entryCause = 0 /\ exitCause = 0
  /\ levels = [stop |-> 0, take |-> 0]
  /\ signals = << >> /\ done = FALSE

-----------------------------------------------------------------------------
(* risk/engine.py.                                                         *)

Lower(m, n) == IF m <= n THEN m ELSE n
Higher(m, n) == IF m >= n THEN m ELSE n

\* calculate_levels(): `share` hundredths of an entry price, Scale being hundred.
Share(price, share) == (price \div Scale) * share
Levels(price, d) ==
  [stop |-> price - d * Share(price, StopLoss),
   take |-> price + d * Share(price, TakeProfit)]

StopTouched(d, r, lv) == IF d = Long THEN r.low <= lv.stop ELSE r.high >= lv.stop
TakeTouched(d, r, lv) == IF d = Long THEN r.high >= lv.take ELSE r.low <= lv.take

\* Mutant of ExitReason: the target is looked at before the stop.
TargetFirst(d, r, lv) == IF TakeTouched(d, r, lv) THEN "take_profit" ELSE "stop_loss"

\* triggered_exit(): the stop wins when one bar touches both levels.
Triggered(d, r, lv) == StopTouched(d, r, lv) \/ TakeTouched(d, r, lv)
ExitReason(d, r, lv) == IF StopTouched(d, r, lv) THEN "stop_loss" ELSE "take_profit"

\* Mutant of ExitPrice: a gap through the level still fills at the level.
AtTheLevel(d, r, lv) == IF StopTouched(d, r, lv) THEN lv.stop ELSE lv.take

\* A gap through the level fills at the open.
ExitPrice(d, r, lv) ==
  IF StopTouched(d, r, lv)
  THEN IF d = Long THEN Lower(r.open, lv.stop) ELSE Higher(r.open, lv.stop)
  ELSE IF d = Long THEN Higher(r.open, lv.take) ELSE Lower(r.open, lv.take)

-----------------------------------------------------------------------------
(* One iteration of the loop, in the order of its statements.              *)

ExitsAtOpen == position # 0 /\ pendingExit
EntersAtOpen == pendingEntry # 0 /\ (position = 0 \/ pendingExit)

\* The position and the levels once the bar has opened.
Opened == IF EntersAtOpen THEN pendingEntry ELSE IF ExitsAtOpen THEN 0 ELSE position
OpenedLevels(r) == IF EntersAtOpen THEN Levels(r.open, pendingEntry) ELSE levels

\* Mutant of RiskExit: the bar of the entry is not looked at.
RiskExitLater(r) == ~EntersAtOpen /\ Opened # 0 /\ Triggered(Opened, r, OpenedLevels(r))

RiskExit(r) == Opened # 0 /\ Triggered(Opened, r, OpenedLevels(r))

Held(r) == IF RiskExit(r) THEN 0 ELSE Opened

Emitted(event, d, n, price, cause, reason) ==
  <<[event |-> event, direction |-> d, bar |-> n, price |-> price,
     cause |-> cause, reason |-> reason]>>

\* Mutant of BarSignals: an exit is described after the position was reset.
DescribedLate(r) ==
  (IF ExitsAtOpen
   THEN Emitted("exit", Short, bar + 1, r.open, exitCause, "strategy_exit")
   ELSE << >>)
  \o (IF EntersAtOpen
      THEN Emitted("entry", pendingEntry, bar + 1, r.open, entryCause, "signal_confirmed")
      ELSE << >>)
  \o (IF RiskExit(r)
      THEN Emitted("exit", Short, bar + 1, ExitPrice(Opened, r, OpenedLevels(r)),
                   bar + 1, ExitReason(Opened, r, OpenedLevels(r)))
      ELSE << >>)

\* What the bar emits: a strategy exit and an entry at its open, a protective exit.
BarSignals(r) ==
  (IF ExitsAtOpen
   THEN Emitted("exit", position, bar + 1, r.open, exitCause, "strategy_exit")
   ELSE << >>)
  \o (IF EntersAtOpen
      THEN Emitted("entry", pendingEntry, bar + 1, r.open, entryCause, "signal_confirmed")
      ELSE << >>)
  \o (IF RiskExit(r)
      THEN Emitted("exit", Opened, bar + 1, ExitPrice(Opened, r, OpenedLevels(r)),
                   bar + 1, ExitReason(Opened, r, OpenedLevels(r)))
      ELSE << >>)

\* Mutant of NewIntent: a sustained intent is new on every bar.
AnyIntent(candidate) == candidate # 0

NewIntent(candidate) == candidate # 0 /\ candidate # previousIntent

\* Mutant of Accepts: intents are also taken while a position is held.
AcceptsWhileHeld(r, candidate) ==
  (IF EntersAtOpen THEN 0 ELSE pendingEntry) = 0 /\ NewIntent(candidate)

Accepts(r, candidate) ==
  Held(r) = 0 /\ (IF EntersAtOpen THEN 0 ELSE pendingEntry) = 0 /\ NewIntent(candidate)

\* `wantsExit` is the cell of `exits` for the side held, FALSE without that table.
Step(r, candidate, wantsExit) ==
  /\ ~done /\ bar < MaxBars
  /\ bar' = bar + 1
  /\ row' = r
  /\ entries' = Append(entries, candidate)
  /\ signals' = signals \o BarSignals(r)
  /\ levels' = OpenedLevels(r)
  /\ position' = Held(r)
  /\ pendingExit' = IF Held(r) # 0 THEN wantsExit ELSE pendingExit /\ ~ExitsAtOpen
  /\ exitCause' = IF Held(r) # 0 /\ wantsExit THEN bar + 1 ELSE exitCause
  /\ previousIntent' = candidate
  /\ pendingEntry' = IF Accepts(r, candidate) THEN candidate
                     ELSE IF EntersAtOpen THEN 0 ELSE pendingEntry
  /\ entryCause' = IF Accepts(r, candidate) THEN bar + 1
                   ELSE IF EntersAtOpen THEN 0 ELSE entryCause
  /\ UNCHANGED done

\* The end of the table; force_final closes what is still held at the last close.
Return ==
  /\ ~done
  /\ done' = TRUE
  /\ signals' = IF ForceFinal /\ position # 0
                THEN signals \o Emitted("exit", position, bar, row.close, bar, "session_end")
                ELSE signals
  /\ UNCHANGED <<bar, row, entries, position, pendingEntry, pendingExit, previousIntent,
                 entryCause, exitCause, levels>>

Next ==
  \/ \E r \in Bar, candidate \in Intent, wantsExit \in BOOLEAN :
       Step(r, candidate, wantsExit)
  \/ Return

Spec == Init /\ [][Next]_vars

-----------------------------------------------------------------------------
(* Properties.                                                             *)

\* Every variable of the pass keeps its shape (simulator.py:25-34).
TypeOK ==
  /\ bar \in 0..MaxBars /\ row \in Bar
  /\ entries \in [1..bar -> Intent]
  /\ position \in Intent /\ pendingEntry \in Intent
  /\ pendingExit \in BOOLEAN /\ previousIntent \in Intent
  /\ entryCause \in 0..bar /\ exitCause \in 0..bar
  /\ levels \in RiskLevels
  /\ signals \in Seq(Signal)
  /\ done \in BOOLEAN

\* Signals come in pairs of an entry and an exit of the same direction, so a trade can be
\* read off them; the position held is that of the open pair (simulator.py:75-133).
SignalsPair ==
  /\ \A n \in 1..Len(signals) :
       /\ signals[n].event = IF n % 2 = 1 THEN "entry" ELSE "exit"
       /\ n % 2 = 0 => signals[n].direction = signals[n - 1].direction
  /\ Len(signals) % 2 = 1 => position = signals[Len(signals)].direction
  /\ Len(signals) % 2 = 0 => position = 0 \/ (done /\ ForceFinal)

\* No look-ahead and no stale intent: entries and strategy exits happen at the bar right
\* after the one that asked for them (simulator.py:75, 86, 112-129).
NextOpen ==
  \A n \in 1..Len(signals) :
    signals[n].reason \in {"signal_confirmed", "strategy_exit"}
      => signals[n].cause > 0 /\ signals[n].bar = signals[n].cause + 1

\* No signal of the bar has a price that did not trade in it, also after a gap through a
\* protective level (risk/engine.py:60-68).
FillsInsideBar ==
  \A n \in 1..Len(signals) :
    signals[n].bar = bar => row.low <= signals[n].price /\ signals[n].price <= row.high

\* "Return a conservative risk exit; stop loss wins same-bar ambiguity" (risk/engine.py:58): a
\* stop never fills better than its level, and a target only if the stop was not touched.
ConservativeExits ==
  \A n \in 1..Len(signals) :
    LET s == signals[n]
    IN  s.bar = bar =>
          /\ s.reason = "stop_loss" => s.direction * s.price <= s.direction * levels.stop
          /\ s.reason = "take_profit" =>
               /\ s.direction * s.price >= s.direction * levels.take
               /\ ~StopTouched(s.direction, row, levels)

\* A position is never carried over a bar that touched one of its levels, the bar of its
\* entry included (simulator.py:99-110).
StopsHonoured == position # 0 => bar > 0 /\ ~Triggered(position, row, levels)

\* Whether the intent took one of the values `between` two signals' causes.
IntentBetween(m, n, values) ==
  \E i \in signals[m].cause + 1..signals[n].cause - 1 : entries[i] \in values

\* "This prevents a sustained indicator condition from becoming a new order on every bar"
\* (policy.py:11): between two entries of one direction the intent was something else, also
\* when a stop, a target or an exit ended the first position while the intent stayed.
SustainedOpensOnce ==
  \A m, n \in 1..Len(signals) :
    /\ m < n /\ signals[m].event = "entry" /\ signals[n].event = "entry"
    /\ signals[m].direction = signals[n].direction
    => IntentBetween(m, n, Intent \ {signals[n].direction})

\* "a non-zero direction must return to neutral before the same direction can open another
\* position" (policy.py:10): between two entries of one direction the intent was neutral.
NeutralBeforeReopening ==
  \A m, n \in 1..Len(signals) :
    /\ m < n /\ signals[m].event = "entry" /\ signals[n].event = "entry"
    /\ signals[m].direction = signals[n].direction
    => IntentBetween(m, n, {0})
=============================================================================
