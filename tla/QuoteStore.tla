----------------------------- MODULE QuoteStore -----------------------------
(***************************************************************************)
(* The two holders of the latest quote: ExecutionQuoteCache, one in memory *)
(* per process (market/quotes.py), and the SQLite table that the processes *)
(* share (market/quote_store.py).  Both are asked under a lock, so every   *)
(* call is one step.                                                       *)
(*                                                                         *)
(* A quote is its received_at - an instant and the UTC offset it is written*)
(* with - and a tag for everything else in it.  The cache compares the     *)
(* instants; the table compares the ISO texts, which read the wall clock   *)
(* first and the offset last.  Offsets are not negative here.              *)
(***************************************************************************)
EXTENDS Integers

CONSTANTS
  Process,       \* application processes
  Instrument,    \* (symbol, contract)
  MaxTime,       \* bound: the last instant a quote is received at, in hours
  Offset,        \* the UTC offsets feeds use: any (quotes.py:25), in hours
  Tag,           \* bid, ask, last price and source
  NoQuote

Instant == 1..MaxTime
Quote == [received : Instant, offset : Offset, tag : Tag]

VARIABLES
  cache,    \* per process: _quotes, NoQuote where the dict has no entry
  table,    \* the rows of live_execution_quotes
  updated,  \* the quotes each process's cache was given since it started
  saved     \* the quotes the table was given

quoteVars == <<cache, table, updated, saved>>

QuoteInit ==
  /\ cache = [p \in Process |-> [i \in Instrument |-> NoQuote]]
  /\ table = [i \in Instrument |-> NoQuote]
  /\ updated = [p \in Process |-> [i \in Instrument |-> {}]]
  /\ saved = [i \in Instrument |-> {}]

\* The cache: quote.received_at >= current.received_at, as datetimes.
NotOlder(q, current) == q.received >= current.received

Wall(q) == q.received + q.offset

\* The table: excluded.received_at >= received_at, as texts.
TextNotOlder(q, current) ==
  \/ Wall(q) > Wall(current)
  \/ Wall(q) = Wall(current) /\ q.offset >= current.offset

\* ExecutionQuoteCache.update().
Update(p, i, q) ==
  /\ updated' = [updated EXCEPT ![p][i] = @ \cup {q}]
  /\ cache' = IF cache[p][i] = NoQuote \/ NotOlder(q, cache[p][i])
              THEN [cache EXCEPT ![p][i] = q]
              ELSE cache
  /\ UNCHANGED <<table, saved>>

\* SQLiteExecutionQuoteRepository.save(), from any process.
Save(i, q) ==
  /\ saved' = [saved EXCEPT ![i] = @ \cup {q}]
  /\ table' = IF table[i] = NoQuote \/ TextNotOlder(q, table[i])
              THEN [table EXCEPT ![i] = q]
              ELSE table
  /\ UNCHANGED <<cache, updated>>

\* A process ends and starts again: its cache is new, CREATE TABLE IF NOT EXISTS keeps
\* the table.
Restart(p) ==
  /\ cache' = [cache EXCEPT ![p] = [i \in Instrument |-> NoQuote]]
  /\ updated' = [updated EXCEPT ![p] = [i \in Instrument |-> {}]]
  /\ UNCHANGED <<table, saved>>

QuoteNext ==
  \/ \E p \in Process, i \in Instrument, q \in Quote : Update(p, i, q)
  \/ \E i \in Instrument, q \in Quote : Save(i, q)
  \/ \E p \in Process : Restart(p)

QuoteSpec == QuoteInit /\ [][QuoteNext]_quoteVars

-----------------------------------------------------------------------------
(* Properties.                                                             *)

\* Both holders hold quotes or nothing.
QuoteTypeOK ==
  /\ cache \in [Process -> [Instrument -> Quote \cup {NoQuote}]]
  /\ table \in [Instrument -> Quote \cup {NoQuote}]
  /\ updated \in [Process -> [Instrument -> SUBSET Quote]]
  /\ saved \in [Instrument -> SUBSET Quote]

\* A holder holds the newest of the quotes it was given, in whatever order, with
\* whatever repetitions they came.
IsLatest(held, given) ==
  IF given = {} THEN held = NoQuote
  ELSE held \in given /\ \A q \in given : q.received <= held.received

\* A cache decides on the newest quote its process has seen (quotes.py:56-58).
CacheLatest == \A p \in Process, i \in Instrument : IsLatest(cache[p][i], updated[p][i])

\* "Latest canonical BidAsk shared across isolated application processes"
\* (quote_store.py:17): the table holds the newest quote that any process saved, whatever
\* offset each was written with.
TableLatest == \A i \in Instrument : IsLatest(table[i], saved[i])

\* What the table does hold: the quote whose text is greatest (quote_store.py:44).  Of an
\* instrument whose quotes all carry one offset, that is the newest one.
TableByText ==
  \A i \in Instrument :
    IF saved[i] = {} THEN table[i] = NoQuote
    ELSE /\ table[i] \in saved[i]
         /\ \A q \in saved[i] : TextNotOlder(table[i], q)
         /\ \/ \E q, r \in saved[i] : q.offset # r.offset
            \/ \A q \in saved[i] : q.received <= table[i].received
=============================================================================
