----------------------- MODULE SignalSimulatorProofs -----------------------
(***************************************************************************)
(* Proofs about the signal simulator, for every set of prices, every level *)
(* of stop and target and bar tables of any length.                        *)
(*                                                                         *)
(* The properties speak of the list of signals; what makes them inductive  *)
(* is that a pending entry or exit is always one bar old (PendingFresh)    *)
(* and that the list has an open pair exactly while a position is held.    *)
(***************************************************************************)
EXTENDS SignalSimulator, TLAPS, SequenceTheorems

\* Signals alternate, and an exit has the direction of the entry before it.
PairsUp(s) ==
  \A n \in 1..Len(s) :
    /\ s[n].event = IF n % 2 = 1 THEN "entry" ELSE "exit"
    /\ n % 2 = 0 => s[n].direction = s[n - 1].direction

\* The list ends with an open entry of direction d, or d is 0 and none is open.
Open(s, d) ==
  /\ d = 0 => Len(s) % 2 = 0
  /\ d # 0 => Len(s) % 2 = 1 /\ s[Len(s)].direction = d

\* What a signal of the pass by bar b, whose prices are r, is held to.
Sound(x, b, r) ==
  /\ x.bar <= b
  /\ x.reason \in {"signal_confirmed", "strategy_exit"}
       => x.cause > 0 /\ x.bar = x.cause + 1
  /\ x.bar = b => r.low <= x.price /\ x.price <= r.high

AllSound == \A n \in 1..Len(signals) : Sound(signals[n], bar, row)

\* A pending entry or exit was asked for by the last bar, and they exclude each other.
PendingFresh ==
  /\ pendingEntry # 0 => position = 0 /\ bar > 0 /\ entryCause = bar
  /\ pendingExit => position # 0 /\ exitCause = bar

IInv ==
  /\ TypeOK
  /\ StopsHonoured
  /\ PendingFresh
  /\ AllSound
  /\ PairsUp(signals)
  /\ ~done => Open(signals, position)
  /\ SignalsPair

-----------------------------------------------------------------------------
(* Facts about prices and about appending to the list.                     *)

LEMMA BarPrices ==
  ASSUME NEW r \in Bar
  PROVE  /\ r.open \in Nat /\ r.high \in Nat /\ r.low \in Nat /\ r.close \in Nat
         /\ r.low <= r.open /\ r.open <= r.high /\ r.low <= r.close /\ r.close <= r.high
  BY PriceAssumption DEF Bar

LEMMA LevelsType ==
  ASSUME NEW p \in Nat, NEW d \in Direction
  PROVE  Levels(p, d) \in RiskLevels
<1>1. p \div Scale \in Int
  BY ScaleAssumption
<1>2. StopLoss \in Int /\ TakeProfit \in Int
  BY ScaleAssumption
<1>3. Share(p, StopLoss) \in Int /\ Share(p, TakeProfit) \in Int
  BY <1>1, <1>2 DEF Share
<1>4. d = 1 \/ d = -1
  BY DEF Direction, Long, Short
<1> QED
  BY <1>3, <1>4 DEF Levels, RiskLevels

\* A protective exit has a price inside the bar that triggered it, gap or not.
LEMMA ExitPriceInside ==
  ASSUME NEW d \in Direction, NEW r \in Bar, NEW lv \in RiskLevels, Triggered(d, r, lv)
  PROVE  /\ ExitPrice(d, r, lv) \in Int
         /\ r.low <= ExitPrice(d, r, lv) /\ ExitPrice(d, r, lv) <= r.high
<1>1. lv.stop \in Int /\ lv.take \in Int
  BY DEF RiskLevels
<1>2. CASE d = Long
  BY <1>1, <1>2, BarPrices
     DEF Triggered, ExitPrice, StopTouched, TakeTouched, Lower, Higher, Long, Short
<1>3. CASE d = Short
  BY <1>1, <1>3, BarPrices
     DEF Triggered, ExitPrice, StopTouched, TakeTouched, Lower, Higher, Long, Short
<1> QED
  BY <1>2, <1>3 DEF Direction

\* An entry or an exit that fits the end of a list keeps it paired.
LEMMA PairsAppend ==
  ASSUME NEW s \in Seq(Signal), NEW x \in Signal, PairsUp(s), NEW d \in Intent, Open(s, d),
         IF d = 0 THEN x.event = "entry" ELSE x.event = "exit" /\ x.direction = d
  PROVE  /\ PairsUp(Append(s, x))
         /\ Open(Append(s, x), IF d = 0 THEN x.direction ELSE 0)
<1> DEFINE t == Append(s, x)
           m == Len(s) + 1
<1>1. /\ Len(s) \in Nat /\ Len(t) = m /\ t[m] = x
      /\ \A n \in 1..Len(s) : t[n] = s[n]
  BY AppendProperties, LenProperties
<1>2. x.direction \in Direction /\ x.direction # 0
  BY DEF Signal, Direction, Long, Short
<1>3. d = 0 => m % 2 = 1
  BY <1>1 DEF Open
<1>4. d # 0 => m % 2 = 0 /\ Len(s) > 0
  BY <1>1 DEF Open
<1> HIDE DEF t
<1>5. ASSUME NEW n \in 1..Len(s)
      PROVE  /\ t[n].event = IF n % 2 = 1 THEN "entry" ELSE "exit"
             /\ n % 2 = 0 => t[n].direction = t[n - 1].direction
  <2>1. n % 2 = 0 => n - 1 \in 1..Len(s)
    BY <1>1
  <2> QED
    BY <1>1, <2>1 DEF PairsUp
<1>6. /\ x.event = IF m % 2 = 1 THEN "entry" ELSE "exit"
      /\ m % 2 = 0 => x.direction = t[m - 1].direction
  <2>1. CASE d = 0
    BY <1>3, <2>1
  <2>2. CASE d # 0
    BY <1>1, <1>4, <2>2 DEF Open
  <2> QED
    BY <2>1, <2>2
<1>7. PairsUp(t)
  BY <1>1, <1>5, <1>6 DEF PairsUp
<1>8. Open(t, IF d = 0 THEN x.direction ELSE 0)
  BY <1>1, <1>2, <1>3, <1>4 DEF Open
<1> QED
  BY <1>7, <1>8 DEF t

\* An appended list is sound if the list was sound at an earlier bar and the signal is.
LEMMA SoundAppend ==
  ASSUME NEW s \in Seq(Signal), NEW x \in Signal, NEW b, NEW r,
         \A n \in 1..Len(s) : Sound(s[n], b, r), Sound(x, b, r)
  PROVE  \A n \in 1..Len(Append(s, x)) : Sound(Append(s, x)[n], b, r)
<1>1. /\ Len(s) \in Nat /\ Len(Append(s, x)) = Len(s) + 1 /\ Append(s, x)[Len(s) + 1] = x
      /\ \A n \in 1..Len(s) : Append(s, x)[n] = s[n]
  BY AppendProperties, LenProperties
<1> QED
  BY <1>1

\* Pairing and openness give the property as the runs state it.
LEMMA PairProperty ==
  ASSUME NEW s \in Seq(Signal), NEW p, NEW ended \in BOOLEAN, PairsUp(s),
         Open(s, p) \/ (ended /\ Open(s, 0))
  PROVE  /\ \A n \in 1..Len(s) :
              /\ s[n].event = IF n % 2 = 1 THEN "entry" ELSE "exit"
              /\ n % 2 = 0 => s[n].direction = s[n - 1].direction
         /\ Len(s) % 2 = 1 => p = s[Len(s)].direction
         /\ Len(s) % 2 = 0 => p = 0 \/ ended
<1>1. Len(s) \in Nat
  BY LenProperties
<1> QED
  BY <1>1 DEF PairsUp, Open

-----------------------------------------------------------------------------
(* What one bar emits.                                                     *)

\* What the bar emits, spelled out case by case below.
StrategyExit(r) ==
  [event |-> "exit", direction |-> position, bar |-> bar + 1, price |-> r.open,
   cause |-> exitCause, reason |-> "strategy_exit"]
Entry(r) ==
  [event |-> "entry", direction |-> pendingEntry, bar |-> bar + 1, price |-> r.open,
   cause |-> entryCause, reason |-> "signal_confirmed"]
ProtectiveExit(r) ==
  [event |-> "exit", direction |-> Opened, bar |-> bar + 1,
   price |-> ExitPrice(Opened, r, OpenedLevels(r)), cause |-> bar + 1,
   reason |-> ExitReason(Opened, r, OpenedLevels(r))]

LEMMA Concats ==
  ASSUME NEW s \in Seq(Signal), NEW x \in Signal, NEW y \in Signal
  PROVE  /\ s \o ((<< >> \o << >>) \o << >>) = s
         /\ s \o ((<<x>> \o << >>) \o << >>) = Append(s, x)
         /\ s \o ((<< >> \o <<x>>) \o << >>) = Append(s, x)
         /\ s \o ((<< >> \o << >>) \o <<y>>) = Append(s, y)
         /\ s \o ((<< >> \o <<x>>) \o <<y>>) = Append(Append(s, x), y)
<1>1. << >> \in Seq(Signal) /\ <<x>> \in Seq(Signal) /\ <<y>> \in Seq(Signal)
  OBVIOUS
<1>2. /\ << >> \o << >> = << >> /\ <<x>> \o << >> = <<x>>
      /\ << >> \o <<x>> = <<x>> /\ << >> \o <<y>> = <<y>> /\ s \o << >> = s
  BY <1>1, ConcatEmptySeq, Zenon
<1>3. Append(s, x) \in Seq(Signal)
  BY AppendProperties
<1>4. /\ Append(s, x) = s \o <<x>> /\ Append(s, y) = s \o <<y>>
      /\ Append(Append(s, x), y) = Append(s, x) \o <<y>>
  BY <1>3, AppendIsConcat, Zenon
<1>5. s \o (<<x>> \o <<y>>) = (s \o <<x>>) \o <<y>>
  BY <1>1, ConcatAssociative
<1> QED
  BY <1>2, <1>4, <1>5, Zenon

\* A bar closes what was pending to close, or opens what was pending to open, or neither.
LEMMA OpenCases ==
  ASSUME IInv
  PROVE  \/ ExitsAtOpen /\ ~EntersAtOpen /\ Opened = 0 /\ position \in Direction
         \/ /\ ~ExitsAtOpen /\ EntersAtOpen /\ Opened = pendingEntry
            /\ position = 0 /\ pendingEntry \in Direction
         \/ ~ExitsAtOpen /\ ~EntersAtOpen /\ Opened = position
<1>1. position \in Intent /\ pendingEntry \in Intent
  BY DEF IInv, TypeOK
<1> QED
  BY <1>1 DEF IInv, PendingFresh, ExitsAtOpen, EntersAtOpen, Opened, Intent

\* The levels in force inside the bar are levels.
LEMMA OpenedLevelsType ==
  ASSUME IInv, NEW r \in Bar
  PROVE  OpenedLevels(r) \in RiskLevels
<1>1. levels \in RiskLevels
  BY DEF IInv, TypeOK
<1>2. CASE EntersAtOpen
  <2>1. pendingEntry \in Direction
    BY <1>2, OpenCases
  <2>2. r.open \in Nat
    BY BarPrices
  <2> QED
    BY <1>2, <2>1, <2>2, LevelsType DEF OpenedLevels
<1> QED
  BY <1>1, <1>2 DEF OpenedLevels

\* Each signal of the bar has the right shape and is sound at the bar.
LEMMA EmittedSignals ==
  ASSUME IInv, ~done, bar < MaxBars, NEW r \in Bar
  PROVE  /\ ExitsAtOpen =>
              StrategyExit(r) \in Signal /\ Sound(StrategyExit(r), bar + 1, r)
         /\ EntersAtOpen => Entry(r) \in Signal /\ Sound(Entry(r), bar + 1, r)
         /\ RiskExit(r) =>
              ProtectiveExit(r) \in Signal /\ Sound(ProtectiveExit(r), bar + 1, r)
<1>1. /\ bar \in 0..MaxBars /\ bar + 1 \in 1..MaxBars /\ bar + 1 \in 0..MaxBars
      /\ entryCause \in 0..bar /\ exitCause \in 0..bar
      /\ entryCause \in 0..MaxBars /\ exitCause \in 0..MaxBars
  BY PassAssumption DEF IInv, TypeOK
<1>2. r.open \in Int /\ r.low <= r.open /\ r.open <= r.high
  BY BarPrices
<1>3. ASSUME ExitsAtOpen
      PROVE  StrategyExit(r) \in Signal /\ Sound(StrategyExit(r), bar + 1, r)
  <2>1. position \in Direction
    BY <1>3, OpenCases
  <2>2. bar > 0 /\ exitCause = bar
    BY <1>3 DEF IInv, PendingFresh, StopsHonoured, ExitsAtOpen
  <2>3. StrategyExit(r) \in Signal
    BY <1>1, <1>2, <2>1 DEF StrategyExit, Signal
  <2>4. Sound(StrategyExit(r), bar + 1, r)
    BY <1>1, <1>2, <2>2 DEF StrategyExit, Sound
  <2> QED
    BY <2>3, <2>4
<1>4. ASSUME EntersAtOpen
      PROVE  Entry(r) \in Signal /\ Sound(Entry(r), bar + 1, r)
  <2>1. pendingEntry \in Direction
    BY <1>4, OpenCases
  <2>2. bar > 0 /\ entryCause = bar
    BY <1>4 DEF IInv, PendingFresh, EntersAtOpen
  <2>3. Entry(r) \in Signal
    BY <1>1, <1>2, <2>1 DEF Entry, Signal
  <2>4. Sound(Entry(r), bar + 1, r)
    BY <1>1, <1>2, <2>2 DEF Entry, Sound
  <2> QED
    BY <2>3, <2>4
<1>5. ASSUME RiskExit(r)
      PROVE  ProtectiveExit(r) \in Signal /\ Sound(ProtectiveExit(r), bar + 1, r)
  <2>1. Opened \in Direction
    <3>1. position \in Intent
      BY DEF IInv, TypeOK
    <3> QED
      BY <1>5, <3>1, OpenCases DEF RiskExit, Intent
  <2>2. OpenedLevels(r) \in RiskLevels
    BY OpenedLevelsType
  <2>3. /\ ExitPrice(Opened, r, OpenedLevels(r)) \in Int
        /\ r.low <= ExitPrice(Opened, r, OpenedLevels(r))
        /\ ExitPrice(Opened, r, OpenedLevels(r)) <= r.high
    BY <1>5, <2>1, <2>2, ExitPriceInside DEF RiskExit
  <2>4. ExitReason(Opened, r, OpenedLevels(r)) \in {"stop_loss", "take_profit"}
    BY DEF ExitReason
  <2>5. ProtectiveExit(r) \in Signal
    BY <1>1, <2>1, <2>3, <2>4 DEF ProtectiveExit, Signal
  <2>6. Sound(ProtectiveExit(r), bar + 1, r)
    BY <1>1, <2>3, <2>4 DEF ProtectiveExit, Sound
  <2> QED
    BY <2>5, <2>6
<1> QED
  BY <1>3, <1>4, <1>5

\* The list after the bar is typed, sound and paired, and open for what is held.
LEMMA BarEmits ==
  ASSUME IInv, ~done, bar < MaxBars, NEW r \in Bar
  PROVE  LET s == signals \o BarSignals(r)
         IN  /\ s \in Seq(Signal)
             /\ \A n \in 1..Len(s) : Sound(s[n], bar + 1, r)
             /\ PairsUp(s)
             /\ Open(s, Held(r))
<1> DEFINE Fine(s, d) == /\ s \in Seq(Signal)
                         /\ \A n \in 1..Len(s) : Sound(s[n], bar + 1, r)
                         /\ PairsUp(s)
                         /\ Open(s, d)
<1>1. /\ signals \in Seq(Signal) /\ PairsUp(signals) /\ Open(signals, position)
      /\ position \in Intent
  BY DEF IInv, TypeOK
<1>2. \A n \in 1..Len(signals) : Sound(signals[n], bar + 1, r)
  <2>1. ASSUME NEW n \in 1..Len(signals) PROVE signals[n].bar \in Int
    <3>1. signals[n] \in Signal
      BY <1>1, ElementOfSeq
    <3> QED
      BY <3>1 DEF Signal
  <2>2. bar \in Int
    BY DEF IInv, TypeOK
  <2> QED
    BY <2>1, <2>2 DEF IInv, AllSound, Sound
<1>3. Fine(signals, position)
  BY <1>1, <1>2
<1>4. ASSUME NEW s, NEW d \in Intent, NEW x \in Signal, Fine(s, d), Sound(x, bar + 1, r),
             IF d = 0 THEN x.event = "entry" ELSE x.event = "exit" /\ x.direction = d
      PROVE  Fine(Append(s, x), IF d = 0 THEN x.direction ELSE 0)
  <2>1. Append(s, x) \in Seq(Signal)
    BY <1>4, AppendProperties
  <2> QED
    BY <1>4, <2>1, PairsAppend, SoundAppend
<1> HIDE DEF Fine
<1>5. CASE ExitsAtOpen
  <2>1. ~EntersAtOpen /\ Opened = 0 /\ position # 0
    BY <1>5, OpenCases DEF Direction, Long, Short
  <2>2. ~RiskExit(r) /\ Held(r) = 0
    BY <2>1 DEF RiskExit, Held
  <2>3. StrategyExit(r) \in Signal /\ Sound(StrategyExit(r), bar + 1, r)
    BY <1>5, EmittedSignals
  <2>4. BarSignals(r) = (<<StrategyExit(r)>> \o << >>) \o << >>
    BY <1>5, <2>1, <2>2, Zenon DEF BarSignals, Emitted, StrategyExit
  <2>5. signals \o BarSignals(r) = Append(signals, StrategyExit(r))
    BY <1>1, <2>3, <2>4, Concats
  <2>6. StrategyExit(r).event = "exit" /\ StrategyExit(r).direction = position
    BY DEF StrategyExit
  <2>7. Fine(Append(signals, StrategyExit(r)), 0)
    BY <1>1, <1>3, <1>4, <2>1, <2>3, <2>6
  <2> QED
    BY <2>2, <2>5, <2>7 DEF Fine
<1>6. CASE ~ExitsAtOpen /\ EntersAtOpen
  <2>1. Opened = pendingEntry /\ position = 0 /\ pendingEntry \in Direction
    BY <1>6, OpenCases
  <2>2. Entry(r) \in Signal /\ Sound(Entry(r), bar + 1, r)
    BY <1>6, EmittedSignals
  <2>3. Entry(r).event = "entry" /\ Entry(r).direction = pendingEntry
    BY DEF Entry
  <2>4. Fine(Append(signals, Entry(r)), pendingEntry)
    BY <1>1, <1>3, <1>4, <2>1, <2>2, <2>3
  <2>5. CASE ~RiskExit(r)
    <3>1. BarSignals(r) = (<< >> \o <<Entry(r)>>) \o << >>
      BY <1>6, <2>5, Zenon DEF BarSignals, Emitted, Entry
    <3>2. signals \o BarSignals(r) = Append(signals, Entry(r))
      BY <1>1, <2>2, <3>1, Concats
    <3> QED
      BY <2>1, <2>4, <2>5, <3>2 DEF Held, Fine
  <2>6. CASE RiskExit(r)
    <3>1. ProtectiveExit(r) \in Signal /\ Sound(ProtectiveExit(r), bar + 1, r)
      BY <2>6, EmittedSignals
    <3>2. BarSignals(r) = (<< >> \o <<Entry(r)>>) \o <<ProtectiveExit(r)>>
      BY <1>6, <2>6, Zenon DEF BarSignals, Emitted, Entry, ProtectiveExit
    <3>3. signals \o BarSignals(r) = Append(Append(signals, Entry(r)), ProtectiveExit(r))
      BY <1>1, <2>2, <3>1, <3>2, Concats
    <3>4. ProtectiveExit(r).event = "exit" /\ ProtectiveExit(r).direction = pendingEntry
      BY <2>1 DEF ProtectiveExit
    <3>5. pendingEntry \in Intent /\ pendingEntry # 0
      BY <2>1 DEF Intent, Direction, Long, Short
    <3>6. Fine(Append(Append(signals, Entry(r)), ProtectiveExit(r)), 0)
      BY <1>4, <2>4, <3>1, <3>4, <3>5
    <3> QED
      BY <2>6, <3>3, <3>6 DEF Held, Fine
  <2> QED
    BY <2>5, <2>6
<1>7. CASE ~ExitsAtOpen /\ ~EntersAtOpen
  <2>1. Opened = position
    BY <1>7, OpenCases
  <2>2. CASE ~RiskExit(r)
    <3>1. BarSignals(r) = (<< >> \o << >>) \o << >>
      BY <1>7, <2>2, Zenon DEF BarSignals
    <3>2. signals \o BarSignals(r) = signals
      BY <1>1, <3>1, ConcatEmptySeq
    <3> QED
      BY <1>3, <2>1, <2>2, <3>2 DEF Held, Fine
  <2>3. CASE RiskExit(r)
    <3>1. ProtectiveExit(r) \in Signal /\ Sound(ProtectiveExit(r), bar + 1, r)
      BY <2>3, EmittedSignals
    <3>2. BarSignals(r) = (<< >> \o << >>) \o <<ProtectiveExit(r)>>
      BY <1>7, <2>3, Zenon DEF BarSignals, Emitted, ProtectiveExit
    <3>3. signals \o BarSignals(r) = Append(signals, ProtectiveExit(r))
      BY <1>1, <3>1, <3>2, Concats
    <3>4. /\ ProtectiveExit(r).event = "exit" /\ ProtectiveExit(r).direction = position
          /\ position # 0
      BY <2>1, <2>3 DEF ProtectiveExit, RiskExit
    <3>5. Fine(Append(signals, ProtectiveExit(r)), 0)
      BY <1>1, <1>3, <1>4, <3>1, <3>4
    <3> QED
      BY <2>3, <3>3, <3>5 DEF Held, Fine
  <2> QED
    BY <2>2, <2>3
<1> QED
  BY <1>5, <1>6, <1>7

-----------------------------------------------------------------------------
(* The invariant.                                                          *)

LEMMA InvInit == Init => IInv
<1> SUFFICES ASSUME Init PROVE IInv
  OBVIOUS
<1>1. signals = << >> /\ signals \in Seq(Signal) /\ Len(signals) = 0
  BY DEF Init
<1>2. bar = 0 /\ bar \in 0..MaxBars /\ position = 0 /\ pendingEntry = 0
  BY PassAssumption DEF Init
<1>3. entries \in [1..bar -> Intent]
  BY <1>2 DEF Init
<1>4. levels \in RiskLevels
  BY DEF Init, RiskLevels
<1>5. TypeOK
  <2>1. row \in Bar /\ pendingExit \in BOOLEAN /\ done \in BOOLEAN
    BY DEF Init
  <2>2. /\ position \in Intent /\ pendingEntry \in Intent /\ previousIntent \in Intent
        /\ entryCause \in 0..bar /\ exitCause \in 0..bar
    BY <1>2 DEF Init, Intent
  <2> QED
    BY <1>1, <1>2, <1>3, <1>4, <2>1, <2>2 DEF TypeOK
<1>6. StopsHonoured /\ PendingFresh /\ AllSound /\ PairsUp(signals) /\ Open(signals, position)
  BY <1>1, <1>2 DEF Init, StopsHonoured, PendingFresh, AllSound, PairsUp, Open
<1> QED
  BY <1>1, <1>2, <1>5, <1>6 DEF IInv, SignalsPair, PairsUp

\* One bar.
LEMMA StepInv ==
  ASSUME IInv, NEW r \in Bar, NEW candidate \in Intent, NEW wantsExit \in BOOLEAN,
         Step(r, candidate, wantsExit)
  PROVE  IInv'
<1>1. /\ ~done /\ ~done' /\ bar < MaxBars /\ bar' = bar + 1 /\ row' = r
      /\ position' = Held(r) /\ levels' = OpenedLevels(r)
      /\ signals' = signals \o BarSignals(r)
  BY DEF Step
<1>2. /\ bar \in Nat /\ bar' \in 0..MaxBars /\ bar' # 0
  BY <1>1, PassAssumption DEF IInv, TypeOK
<1>3. position' \in Intent
  BY <1>1, OpenCases DEF IInv, TypeOK, Held, Intent
<1>4. levels' \in RiskLevels
  BY <1>1, OpenedLevelsType
<1>5. /\ signals' \in Seq(Signal) /\ AllSound' /\ PairsUp(signals') /\ Open(signals', position')
  BY <1>1, BarEmits DEF AllSound
<1>6. entries' \in [1..bar' -> Intent]
  <2>1. entries \in Seq(Intent) /\ Len(entries) = bar
    BY <1>2, IsASeq DEF IInv, TypeOK
  <2>2. entries' \in Seq(Intent) /\ Len(entries') = bar + 1
    BY <2>1, AppendProperties DEF Step
  <2> QED
    BY <1>1, <2>2, LenProperties
<1>7. pendingEntry' \in Intent /\ previousIntent' \in Intent
  BY DEF IInv, TypeOK, Step, Intent
<1>8. pendingExit' \in BOOLEAN
  <2>1. \/ pendingExit' = wantsExit
        \/ pendingExit' = (pendingExit /\ ~ExitsAtOpen)
    BY Zenon DEF Step
  <2> QED
    BY <2>1, Zenon
<1>9. entryCause' \in 0..bar' /\ exitCause' \in 0..bar'
  BY <1>1, <1>2 DEF IInv, TypeOK, Step
<1>10. TypeOK'
  <2>1. done' = done /\ done \in BOOLEAN
    BY Zenon DEF Step, IInv, TypeOK
  <2> QED
    BY <2>1, <1>1, <1>2, <1>3, <1>4, <1>5, <1>6, <1>7, <1>8, <1>9 DEF TypeOK
<1>11. StopsHonoured'
  BY <1>1, <1>2 DEF StopsHonoured, Held, RiskExit
<1>12. PendingFresh'
  <2>1. ASSUME pendingEntry' # 0 PROVE position' = 0 /\ entryCause' = bar'
    <3>1. Accepts(r, candidate)
      BY <2>1, OpenCases DEF Step, IInv, PendingFresh, EntersAtOpen
    <3> QED
      BY <1>1, <3>1 DEF Step, Accepts
  <2>2. ASSUME pendingExit' PROVE position' # 0 /\ exitCause' = bar'
    <3>1. Held(r) # 0
      <4>1. ASSUME Held(r) = 0 PROVE pendingExit' = (pendingExit /\ ~ExitsAtOpen)
        BY <4>1, Zenon DEF Step
      <4>2. ~(pendingExit /\ ~ExitsAtOpen)
        BY Zenon DEF IInv, PendingFresh, ExitsAtOpen
      <4> QED
        BY <2>2, <4>1, <4>2, Zenon
    <3>2. wantsExit
      BY <2>2, <3>1, Zenon DEF Step
    <3> QED
      BY <1>1, <3>1, <3>2 DEF Step
  <2> QED
    BY <1>2, <2>1, <2>2 DEF PendingFresh
<1>13. SignalsPair'
  <2>1. FALSE \in BOOLEAN
    OBVIOUS
  <2> QED
    BY <1>5, <2>1, PairProperty DEF SignalsPair
<1> QED
  BY <1>1, <1>5, <1>10, <1>11, <1>12, <1>13 DEF IInv

\* The end of the pass.
LEMMA ReturnInv ==
  ASSUME IInv, Return
  PROVE  IInv'
<1> DEFINE x == [event |-> "exit", direction |-> position, bar |-> bar, price |-> row.close,
                 cause |-> bar, reason |-> "session_end"]
<1>1. /\ ~done /\ done'
      /\ UNCHANGED <<bar, row, entries, position, pendingEntry, pendingExit,
                     previousIntent, entryCause, exitCause, levels>>
  BY DEF Return
<1>2. /\ signals \in Seq(Signal) /\ AllSound /\ PairsUp(signals) /\ Open(signals, position)
      /\ position \in Intent
  BY <1>1 DEF IInv, TypeOK
<1>3. /\ signals' \in Seq(Signal) /\ AllSound' /\ PairsUp(signals')
      /\ Open(signals', position) \/ (ForceFinal /\ Open(signals', 0))
  <2>1. CASE ForceFinal /\ position # 0
    <3>1. signals' = signals \o <<x>>
      BY <2>1 DEF Return, Emitted
    <3>2. bar \in 1..MaxBars /\ bar \in 0..MaxBars /\ row \in Bar
      BY <2>1 DEF IInv, TypeOK, StopsHonoured
    <3>3. row.close \in Int /\ row.low <= row.close /\ row.close <= row.high
      BY <3>2, BarPrices
    <3>4. position \in Direction
      BY <1>2, <2>1 DEF Intent
    <3>5. x \in Signal
      BY <3>2, <3>3, <3>4 DEF Signal
    <3>6. Sound(x, bar, row)
      BY <3>2, <3>3 DEF Sound
    <3>7. signals' = Append(signals, x)
      BY <1>2, <3>1, <3>5, AppendIsConcat, Zenon
    <3>8. x.event = "exit" /\ x.direction = position
      OBVIOUS
    <3> HIDE DEF x
    <3>9. signals' \in Seq(Signal)
      BY <1>2, <3>5, <3>7, AppendProperties
    <3>10. \A n \in 1..Len(signals') : Sound(signals'[n], bar, row)
      BY <1>2, <3>5, <3>6, <3>7, SoundAppend DEF AllSound
    <3>11. PairsUp(signals') /\ Open(signals', 0)
      BY <1>2, <2>1, <3>5, <3>7, <3>8, PairsAppend
    <3> QED
      BY <1>1, <2>1, <3>9, <3>10, <3>11 DEF AllSound
  <2>2. CASE ~(ForceFinal /\ position # 0)
    <3>1. signals' = signals
      BY <2>2 DEF Return
    <3> QED
      BY <1>1, <1>2, <3>1 DEF AllSound
  <2> QED
    BY <2>1, <2>2
<1>4. TypeOK'
  BY <1>1, <1>3 DEF IInv, TypeOK
<1>5. StopsHonoured' /\ PendingFresh'
  BY <1>1 DEF IInv, StopsHonoured, PendingFresh
<1>6. SignalsPair'
  <2>1. ForceFinal \in BOOLEAN
    BY PassAssumption
  <2> QED
    BY <1>1, <1>3, <2>1, PairProperty DEF SignalsPair
<1> QED
  BY <1>1, <1>3, <1>4, <1>5, <1>6 DEF IInv

LEMMA InvStep == IInv /\ [Next]_vars => IInv'
<1> SUFFICES ASSUME IInv, [Next]_vars PROVE IInv'
  OBVIOUS
<1>1. ASSUME NEW r \in Bar, NEW candidate \in Intent, NEW wantsExit \in BOOLEAN,
             Step(r, candidate, wantsExit)
      PROVE  IInv'
  BY <1>1, StepInv
<1>2. CASE Return
  BY <1>2, ReturnInv
<1>3. CASE UNCHANGED vars
  BY <1>3 DEF IInv, vars, TypeOK, StopsHonoured, PendingFresh, AllSound, SignalsPair
<1> QED
  BY <1>1, <1>2, <1>3 DEF Next

\* The inductive invariant holds in every behaviour.
THEOREM Invariance == Spec => []IInv
  BY InvInit, InvStep, PTL DEF Spec

-----------------------------------------------------------------------------
(* What follows from it.                                                   *)

\* The variables of the pass keep their shape.
THEOREM TypeCorrect == Spec => []TypeOK
<1>1. IInv => TypeOK
  BY DEF IInv
<1> QED
  BY <1>1, Invariance, PTL

\* Entries and exits alternate, pair by pair in one direction.
THEOREM SignalsPairHolds == Spec => []SignalsPair
<1>1. IInv => SignalsPair
  BY DEF IInv
<1> QED
  BY <1>1, Invariance, PTL

\* Entries and strategy exits fill at the open of the bar after the one that asked.
THEOREM NextOpenHolds == Spec => []NextOpen
<1>1. IInv => NextOpen
  BY DEF IInv, AllSound, Sound, NextOpen
<1> QED
  BY <1>1, Invariance, PTL

\* Every signal has a price that traded in its bar.
THEOREM FillsInsideBarHolds == Spec => []FillsInsideBar
<1>1. IInv => FillsInsideBar
  BY DEF IInv, AllSound, Sound, FillsInsideBar
<1> QED
  BY <1>1, Invariance, PTL

\* No position survives a bar that touched one of its levels.
THEOREM StopsHonouredHolds == Spec => []StopsHonoured
<1>1. IInv => StopsHonoured
  BY DEF IInv
<1> QED
  BY <1>1, Invariance, PTL

-----------------------------------------------------------------------------
(* What a bar adds to the list, element by element.                        *)

\* A signal of the list after the bar was there before or is one of the bar's own.
LEMMA BarAdds ==
  ASSUME IInv, ~done, bar < MaxBars, NEW r \in Bar
  PROVE  LET s == signals \o BarSignals(r)
         IN  /\ Len(signals) \in Nat /\ Len(s) \in Nat /\ Len(signals) <= Len(s)
             /\ \A n \in 1..Len(signals) : s[n] = signals[n]
             /\ \A n \in 1..Len(s) :
                  n > Len(signals) =>
                    \/ ExitsAtOpen /\ s[n] = StrategyExit(r)
                    \/ EntersAtOpen /\ n = Len(signals) + 1 /\ s[n] = Entry(r)
                    \/ RiskExit(r) /\ s[n] = ProtectiveExit(r)
<1> DEFINE x == StrategyExit(r)
           y == Entry(r)
           z == ProtectiveExit(r)
<1>1. signals \in Seq(Signal) /\ Len(signals) \in Nat
  BY LenProperties DEF IInv, TypeOK
<1>2. /\ ExitsAtOpen => x \in Signal
      /\ EntersAtOpen => y \in Signal
      /\ RiskExit(r) => z \in Signal
  BY EmittedSignals
<1>3. /\ ExitsAtOpen => ~EntersAtOpen /\ ~RiskExit(r)
      /\ BarSignals(r) = ((IF ExitsAtOpen THEN <<x>> ELSE << >>)
                           \o (IF EntersAtOpen THEN <<y>> ELSE << >>))
                           \o (IF RiskExit(r) THEN <<z>> ELSE << >>)
  <2>1. ExitsAtOpen => ~EntersAtOpen /\ ~RiskExit(r)
    BY OpenCases DEF RiskExit
  <2>2. /\ x = StrategyExit(r) /\ y = Entry(r) /\ z = ProtectiveExit(r)
    OBVIOUS
  <2> QED
    BY <2>1, <2>2, Zenon DEF BarSignals, Emitted, StrategyExit, Entry, ProtectiveExit
<1> HIDE DEF x, y, z
<1>4. CASE ExitsAtOpen
  <2>1. BarSignals(r) = (<<x>> \o << >>) \o << >>
    BY <1>3, <1>4, Zenon
  <2>2. signals \o BarSignals(r) = Append(signals, x)
    BY <1>1, <1>2, <1>4, <2>1, Concats
  <2> QED
    BY <1>1, <1>2, <1>4, <2>2, AppendProperties DEF x
<1>5. CASE ~ExitsAtOpen /\ EntersAtOpen /\ ~RiskExit(r)
  <2>1. BarSignals(r) = (<< >> \o <<y>>) \o << >>
    BY <1>3, <1>5, Zenon
  <2>2. signals \o BarSignals(r) = Append(signals, y)
    BY <1>1, <1>2, <1>5, <2>1, Concats
  <2> QED
    BY <1>1, <1>2, <1>5, <2>2, AppendProperties DEF y
<1>6. CASE ~ExitsAtOpen /\ EntersAtOpen /\ RiskExit(r)
  <2>1. BarSignals(r) = (<< >> \o <<y>>) \o <<z>>
    BY <1>3, <1>6, Zenon
  <2>2. signals \o BarSignals(r) = Append(Append(signals, y), z)
    <3>1. y \in Signal /\ z \in Signal
      BY <1>2, <1>6
    <3>2. signals \o ((<< >> \o <<y>>) \o <<z>>) = Append(Append(signals, y), z)
      BY <1>1, <3>1, Concats, Zenon
    <3> QED
      BY <2>1, <3>2, Zenon
  <2>3. /\ Append(signals, y) \in Seq(Signal)
        /\ Len(Append(signals, y)) = Len(signals) + 1
        /\ \A n \in 1..Len(signals) : Append(signals, y)[n] = signals[n]
        /\ Append(signals, y)[Len(signals) + 1] = y
    BY <1>1, <1>2, <1>6, AppendProperties
  <2>4. /\ Len(Append(Append(signals, y), z)) = Len(signals) + 2
        /\ \A n \in 1..Len(signals) + 1 :
             Append(Append(signals, y), z)[n] = Append(signals, y)[n]
        /\ Append(Append(signals, y), z)[Len(signals) + 2] = z
    BY <1>1, <1>2, <1>6, <2>3, AppendProperties
  <2> QED
    BY <1>1, <1>6, <2>2, <2>3, <2>4 DEF y, z
<1>7. CASE ~ExitsAtOpen /\ ~EntersAtOpen /\ RiskExit(r)
  <2>1. BarSignals(r) = (<< >> \o << >>) \o <<z>>
    BY <1>3, <1>7, Zenon
  <2>2. signals \o BarSignals(r) = Append(signals, z)
    BY <1>1, <1>2, <1>7, <2>1, Concats
  <2> QED
    BY <1>1, <1>2, <1>7, <2>2, AppendProperties DEF z
<1>8. CASE ~ExitsAtOpen /\ ~EntersAtOpen /\ ~RiskExit(r)
  <2>1. BarSignals(r) = (<< >> \o << >>) \o << >>
    BY <1>3, <1>8, Zenon
  <2>2. signals \o BarSignals(r) = signals
    BY <1>1, <2>1, ConcatEmptySeq
  <2> QED
    BY <1>1, <2>2
<1> QED
  BY <1>4, <1>5, <1>6, <1>7, <1>8

\* The end of the pass adds at most an exit that the end of the session is the reason of.
LEMMA ReturnAdds ==
  ASSUME IInv, Return
  PROVE  /\ Len(signals) \in Nat /\ Len(signals') \in Nat /\ Len(signals) <= Len(signals')
         /\ \A n \in 1..Len(signals) : signals'[n] = signals[n]
         /\ \A n \in 1..Len(signals') :
              n > Len(signals) =>
                signals'[n].event = "exit" /\ signals'[n].reason = "session_end"
<1> DEFINE x == [event |-> "exit", direction |-> position, bar |-> bar, price |-> row.close,
                 cause |-> bar, reason |-> "session_end"]
<1>1. signals \in Seq(Signal) /\ Len(signals) \in Nat
  BY LenProperties DEF IInv, TypeOK
<1>2. x.event = "exit" /\ x.reason = "session_end"
  OBVIOUS
<1>3. signals' = signals \/ signals' = signals \o <<x>>
  BY Zenon DEF Return, Emitted
<1> HIDE DEF x
<1>4. CASE signals' = signals \o <<x>>
  <2> DEFINE T == Signal \cup {x}
  <2>1. signals \in Seq(T) /\ x \in T
    BY <1>1, SeqMonotonic
  <2> HIDE DEF T
  <2>2. signals' = Append(signals, x)
    BY <1>4, <2>1, AppendIsConcat, Zenon
  <2> QED
    BY <1>1, <1>2, <2>1, <2>2, AppendProperties
<1> QED
  BY <1>1, <1>3, <1>4

-----------------------------------------------------------------------------
(* Protective exits.                                                       *)

\* What a signal of the bar is held to by the levels in force.
Conservative(x, b, r, lv) ==
  x.bar = b =>
    /\ x.reason = "stop_loss" => x.direction * x.price <= x.direction * lv.stop
    /\ x.reason = "take_profit" =>
         x.direction * x.price >= x.direction * lv.take /\ ~StopTouched(x.direction, r, lv)

LEMMA ExitIsConservative ==
  ASSUME NEW d \in Direction, NEW r \in Bar, NEW lv \in RiskLevels, Triggered(d, r, lv)
  PROVE  /\ ExitReason(d, r, lv) = "stop_loss"
              => d * ExitPrice(d, r, lv) <= d * lv.stop
         /\ ExitReason(d, r, lv) = "take_profit"
              => d * ExitPrice(d, r, lv) >= d * lv.take /\ ~StopTouched(d, r, lv)
<1>1. lv.stop \in Int /\ lv.take \in Int
  BY DEF RiskLevels
<1>2. CASE d = Long
  BY <1>1, <1>2, BarPrices
     DEF Triggered, ExitPrice, ExitReason, StopTouched, TakeTouched, Lower, Higher, Long, Short
<1>3. CASE d = Short
  BY <1>1, <1>3, BarPrices
     DEF Triggered, ExitPrice, ExitReason, StopTouched, TakeTouched, Lower, Higher, Long, Short
<1> QED
  BY <1>2, <1>3 DEF Direction

\* Stops never fill better than their level, and a target fills only where the stop was not
\* touched, whatever the gaps (risk/engine.py:57-68).
THEOREM ConservativeExitsHolds == Spec => []ConservativeExits
<1> DEFINE C == \A n \in 1..Len(signals) : Conservative(signals[n], bar, row, levels)
<1>1. Init => C
  BY DEF Init
<1>2. ASSUME IInv, IInv', [Next]_vars, C PROVE C'
  <2>1. ASSUME NEW r \in Bar, NEW candidate \in Intent, NEW wantsExit \in BOOLEAN,
               Step(r, candidate, wantsExit)
        PROVE  C'
    <3>1. /\ ~done /\ bar < MaxBars /\ bar' = bar + 1 /\ row' = r
          /\ levels' = OpenedLevels(r) /\ signals' = signals \o BarSignals(r)
          /\ bar \in Int
      BY <1>2, <2>1 DEF Step, IInv, TypeOK
    <3>2. ASSUME NEW n \in 1..Len(signals') PROVE Conservative(signals'[n], bar + 1, r, levels')
      <4>1. CASE n <= Len(signals)
        <5>1. n \in 1..Len(signals) /\ signals'[n] = signals[n]
          BY <1>2, <3>1, <3>2, <4>1, BarAdds
        <5>2. signals[n].bar <= bar /\ signals[n] \in Signal
          BY <1>2, <5>1, ElementOfSeq DEF IInv, TypeOK, AllSound, Sound
        <5>3. signals[n].bar # bar + 1
          BY <3>1, <5>2 DEF Signal
        <5> QED
          BY <5>1, <5>3 DEF Conservative
      <4>2. CASE signals'[n] = StrategyExit(r) \/ signals'[n] = Entry(r)
        BY <4>2 DEF Conservative, StrategyExit, Entry
      <4>3. CASE RiskExit(r) /\ signals'[n] = ProtectiveExit(r)
        <5>1. Opened \in Direction
          BY <1>2, <4>3, OpenCases DEF RiskExit, IInv, TypeOK, Intent
        <5>2. OpenedLevels(r) \in RiskLevels /\ Triggered(Opened, r, OpenedLevels(r))
          BY <1>2, <4>3, OpenedLevelsType DEF RiskExit
        <5> QED
          BY <3>1, <4>3, <5>1, <5>2, ExitIsConservative DEF Conservative, ProtectiveExit
      <4>4. Len(signals) \in Nat /\ Len(signals') \in Nat
        BY <1>2, <3>1, BarAdds
      <4>5. n > Len(signals) =>
              \/ signals'[n] = StrategyExit(r) \/ signals'[n] = Entry(r)
              \/ RiskExit(r) /\ signals'[n] = ProtectiveExit(r)
        BY <1>2, <3>1, <3>2, BarAdds
      <4> QED
        BY <4>1, <4>2, <4>3, <4>4, <4>5
    <3> QED
      BY <3>1, <3>2
  <2>2. CASE Return
    <3>1. UNCHANGED <<bar, row, levels>>
      BY <2>2 DEF Return
    <3>2. ASSUME NEW n \in 1..Len(signals')
          PROVE  Conservative(signals'[n], bar, row, levels)
      <4>1. CASE n \in 1..Len(signals)
        BY <1>2, <2>2, <4>1, ReturnAdds
      <4>2. CASE n \notin 1..Len(signals)
        <5>1. signals'[n].reason = "session_end"
          BY <1>2, <2>2, <4>2, ReturnAdds
        <5> QED
          BY <5>1 DEF Conservative
      <4> QED
        BY <4>1, <4>2
    <3> QED
      BY <3>1, <3>2
  <2>3. CASE UNCHANGED vars
    BY <1>2, <2>3 DEF vars
  <2> QED
    BY <1>2, <2>1, <2>2, <2>3 DEF Next
<1>3. C => ConservativeExits
  BY DEF Conservative, ConservativeExits
<1> HIDE DEF C
<1>4. IInv /\ IInv' /\ [Next]_vars /\ C => C'
  BY <1>2
<1> QED
  BY Invariance, <1>1, <1>3, <1>4, PTL DEF Spec

-----------------------------------------------------------------------------
(* Edge-triggered entries.                                                 *)

\* The intents `es` of b bars turned to d at bar c.
Turned(es, b, c, d) ==
  /\ c \in 1..b /\ es[c] = d
  /\ c > 1 => es[c - 1] # d

\* The last intent is remembered, what is pending turned to its direction at the last bar,
\* and so did every entry before its own bar, each at a later bar than the one before.
EntriesTurned ==
  /\ bar > 0 => previousIntent = entries[bar]
  /\ pendingEntry # 0 => Turned(entries, bar, bar, pendingEntry)
  /\ \A n \in 1..Len(signals) :
       signals[n].event = "entry" =>
         /\ Turned(entries, bar, signals[n].cause, signals[n].direction)
         /\ signals[n].cause < bar
         /\ \A m \in 1..n - 1 :
              signals[m].event = "entry" => signals[m].cause < signals[n].cause

LEMMA TurnedKept ==
  ASSUME IInv, NEW candidate \in Intent, entries' = Append(entries, candidate),
         bar' = bar + 1
  PROVE  /\ \A i \in 1..bar : entries'[i] = entries[i]
         /\ entries'[bar'] = candidate
         /\ \A c, d : Turned(entries, bar, c, d) => Turned(entries', bar', c, d)
<1>1. bar \in Nat
  BY PassAssumption DEF IInv, TypeOK
<1>2. entries \in Seq(Intent) /\ Len(entries) = bar
  BY <1>1, IsASeq DEF IInv, TypeOK
<1>3. /\ \A i \in 1..bar : entries'[i] = entries[i]
      /\ entries'[bar'] = candidate
  BY <1>2, AppendProperties
<1>4. ASSUME NEW c, NEW d, Turned(entries, bar, c, d)
      PROVE  Turned(entries', bar', c, d)
  <2>1. c \in 1..bar /\ c \in 1..bar' /\ (c > 1 => c - 1 \in 1..bar)
    BY <1>1, <1>4 DEF Turned
  <2> QED
    BY <1>3, <1>4, <2>1 DEF Turned
<1> QED
  BY <1>3, <1>4

LEMMA StepTurns ==
  ASSUME IInv, IInv', EntriesTurned, NEW r \in Bar, NEW candidate \in Intent,
         NEW wantsExit \in BOOLEAN, Step(r, candidate, wantsExit)
  PROVE  EntriesTurned'
<1>1. /\ ~done /\ bar < MaxBars /\ bar' = bar + 1 /\ entries' = Append(entries, candidate)
      /\ signals' = signals \o BarSignals(r) /\ previousIntent' = candidate
      /\ bar \in Nat
  BY PassAssumption DEF Step, IInv, TypeOK
<1>2. /\ \A i \in 1..bar : entries'[i] = entries[i]
      /\ entries'[bar'] = candidate
      /\ \A c, d : Turned(entries, bar, c, d) => Turned(entries', bar', c, d)
  BY <1>1, TurnedKept
<1>3. ASSUME pendingEntry' # 0 PROVE Turned(entries', bar', bar', pendingEntry')
  <2>1. Accepts(r, candidate)
    BY <1>3, OpenCases DEF Step, IInv, PendingFresh, EntersAtOpen
  <2>2. pendingEntry' = candidate /\ candidate # previousIntent
    BY <2>1 DEF Step, Accepts, NewIntent
  <2>3. bar' > 1 => entries'[bar' - 1] = previousIntent
    <3>1. bar' - 1 = bar
      BY <1>1
    <3>2. bar' > 1 => bar > 0 /\ bar \in 1..bar
      BY <1>1
    <3> QED
      BY <1>2, <3>1, <3>2 DEF EntriesTurned
  <2>4. bar' \in 1..bar'
    BY <1>1
  <2>5. entries'[bar'] = candidate
    BY <1>2
  <2> QED
    BY <2>2, <2>3, <2>4, <2>5, Zenon DEF Turned
<1>4. /\ Len(signals) \in Nat /\ Len(signals') \in Nat /\ Len(signals) <= Len(signals')
      /\ \A n \in 1..Len(signals) : signals'[n] = signals[n]
      /\ \A n \in 1..Len(signals') :
           n > Len(signals) =>
             \/ ExitsAtOpen /\ signals'[n] = StrategyExit(r)
             \/ EntersAtOpen /\ n = Len(signals) + 1 /\ signals'[n] = Entry(r)
             \/ RiskExit(r) /\ signals'[n] = ProtectiveExit(r)
  BY <1>1, BarAdds
<1>5. ASSUME NEW n \in 1..Len(signals'), signals'[n].event = "entry"
      PROVE  /\ Turned(entries', bar', signals'[n].cause, signals'[n].direction)
             /\ signals'[n].cause < bar'
             /\ \A m \in 1..n - 1 :
                  signals'[m].event = "entry" => signals'[m].cause < signals'[n].cause
  <2>1. CASE n <= Len(signals)
    <3>1. n \in 1..Len(signals) /\ signals'[n] = signals[n]
          /\ \A m \in 1..n - 1 : signals'[m] = signals[m]
      BY <1>4, <2>1
    <3>2. /\ Turned(entries, bar, signals[n].cause, signals[n].direction)
          /\ signals[n].cause < bar
          /\ \A m \in 1..n - 1 :
               signals[m].event = "entry" => signals[m].cause < signals[n].cause
      BY <1>5, <3>1 DEF EntriesTurned
    <3>3. signals[n].cause < bar'
      BY <1>1, <3>2 DEF Turned
    <3>4. Turned(entries', bar', signals'[n].cause, signals'[n].direction)
      BY <1>2, <3>1, <3>2
    <3> QED
      BY <3>1, <3>2, <3>3, <3>4
  <2>2. CASE n > Len(signals)
    <3>1. signals'[n].event # "exit"
      BY <1>5
    <3>2. EntersAtOpen /\ n = Len(signals) + 1 /\ signals'[n] = Entry(r)
      BY <1>4, <2>2, <3>1 DEF StrategyExit, ProtectiveExit
    <3>3. signals'[n].cause = bar /\ signals'[n].direction = pendingEntry
          /\ Turned(entries, bar, bar, pendingEntry)
      BY <3>2 DEF Entry, IInv, PendingFresh, EntersAtOpen, EntriesTurned
    <3>4. Turned(entries', bar', signals'[n].cause, signals'[n].direction)
      BY <1>2, <3>3
    <3>5. ASSUME NEW m \in 1..n - 1, signals'[m].event = "entry"
          PROVE  signals'[m].cause < bar
      <4>1. m \in 1..Len(signals) /\ signals'[m] = signals[m]
        BY <1>4, <3>2
      <4> QED
        BY <3>5, <4>1 DEF EntriesTurned
    <3> QED
      BY <1>1, <3>3, <3>4, <3>5
  <2> QED
    BY <1>4, <2>1, <2>2
<1>6. bar' > 0 => previousIntent' = entries'[bar']
  BY <1>1, <1>2
<1> QED
  BY <1>3, <1>5, <1>6 DEF EntriesTurned

LEMMA ReturnTurns ==
  ASSUME IInv, EntriesTurned, Return
  PROVE  EntriesTurned'
<1>1. UNCHANGED <<bar, entries, pendingEntry, previousIntent>>
  BY DEF Return
<1>2. \A c, d : Turned(entries, bar, c, d) => Turned(entries', bar', c, d)
  BY <1>1 DEF Turned
<1>3. /\ Len(signals) \in Nat /\ Len(signals') \in Nat /\ Len(signals) <= Len(signals')
      /\ \A n \in 1..Len(signals) : signals'[n] = signals[n]
      /\ \A n \in 1..Len(signals') : n > Len(signals) => signals'[n].event = "exit"
  BY ReturnAdds
<1>4. ASSUME NEW n \in 1..Len(signals'), signals'[n].event = "entry"
      PROVE  /\ n \in 1..Len(signals) /\ signals'[n] = signals[n]
             /\ \A m \in 1..n - 1 : signals'[m] = signals[m]
  <2>1. signals'[n].event # "exit"
    BY <1>4
  <2>2. n \in 1..Len(signals)
    BY <1>3, <2>1
  <2> QED
    BY <1>3, <2>2
<1> QED
  BY <1>1, <1>2, <1>4 DEF EntriesTurned

\* A sustained intent opens one position: between two entries of one direction the intent
\* had left that direction (policy.py:10-13, simulator.py:112-121).
THEOREM SustainedOpensOnceHolds == Spec => []SustainedOpensOnce
<1>1. Init => EntriesTurned
  BY DEF Init, EntriesTurned
<1>2. IInv /\ IInv' /\ [Next]_vars /\ EntriesTurned => EntriesTurned'
  <2> SUFFICES ASSUME IInv, IInv', [Next]_vars, EntriesTurned PROVE EntriesTurned'
    OBVIOUS
  <2>1. CASE UNCHANGED vars
    BY <2>1 DEF vars, EntriesTurned, Turned
  <2> QED
    BY <2>1, StepTurns, ReturnTurns DEF Next
<1>3. IInv /\ EntriesTurned => SustainedOpensOnce
  <2> SUFFICES ASSUME IInv, EntriesTurned, NEW m \in 1..Len(signals), NEW n \in 1..Len(signals),
                      m < n, signals[m].event = "entry", signals[n].event = "entry",
                      signals[m].direction = signals[n].direction
               PROVE  IntentBetween(m, n, Intent \ {signals[n].direction})
    BY DEF SustainedOpensOnce
  <2>1. bar \in Nat /\ entries \in [1..bar -> Intent]
    BY PassAssumption DEF IInv, TypeOK
  <2>2. m \in 1..n - 1
    BY LenProperties DEF IInv, TypeOK
  <2>3. /\ Turned(entries, bar, signals[n].cause, signals[n].direction)
        /\ Turned(entries, bar, signals[m].cause, signals[m].direction)
        /\ signals[m].cause < signals[n].cause
    BY <2>2 DEF EntriesTurned
  <2> DEFINE i == signals[n].cause - 1
  <2>4. /\ signals[m].cause \in 1..bar /\ signals[n].cause \in 1..bar
        /\ signals[n].cause > 1 /\ i \in 1..bar
        /\ entries[i] # signals[n].direction
        /\ entries[signals[m].cause] = signals[n].direction
    BY <2>1, <2>3 DEF Turned
  <2>5. i # signals[m].cause
    BY <2>4
  <2>6. i \in signals[m].cause + 1..signals[n].cause - 1
    BY <2>1, <2>3, <2>4, <2>5
  <2>7. entries[i] \in Intent \ {signals[n].direction}
    BY <2>1, <2>4
  <2> QED
    BY <2>6, <2>7 DEF IntentBetween
<1> QED
  BY Invariance, <1>1, <1>2, <1>3, PTL DEF Spec
=============================================================================
