----------------------------- MODULE PriceCandles -----------------------------
(***************************************************************************)
(* How the price service turns stored one-minute bars into candles.        *)
(*                                                                         *)
(* A candle is the set of the minutes whose bars it sums up: its open is   *)
(* that of the first, its close that of the last, and its high, low and    *)
(* volume are over all of them.  Its time is the first minute of its       *)
(* bucket.                                                                 *)
(***************************************************************************)
EXTENDS Integers, FiniteSets, FiniteSetsExt, SequencesExt

\* A gap of more than three candles ends a page.
MaxContinuityGap(bucket) == 3 * bucket

TimeOf(minute, bucket) == (minute \div bucket) * bucket
CandleTime(candle, bucket) == TimeOf(Min(candle), bucket)

\* The rows of one bucket after another become one candle each.
Aggregate(rows, bucket) ==
    {{n \in rows : TimeOf(n, bucket) = TimeOf(m, bucket)} : m \in rows}

\* The last n of a set of minutes or, by their first minutes, of candles.
LastRows(rows, n) == {m \in rows : Cardinality({k \in rows : k > m}) < n}
LastCandles(candles, n) ==
    {c \in candles : Cardinality({d \in candles : Min(d) > Min(c)}) < n}

\* No candle from this one on follows its predecessor after too long a gap.
ContiguousFrom(start, candles, bucket) ==
    \A c \in candles :
        LET before == {d \in candles : Min(d) < Min(c)} IN
        Min(c) > Min(start) /\ before # {} =>
            CandleTime(c, bucket) - Max({CandleTime(d, bucket) : d \in before})
                <= MaxContinuityGap(bucket)

TrimToContiguousTail(candles, bucket, limit) ==
    LET recent == LastCandles(candles, Max({limit + 1, 2}))
        tail == {c \in recent : ContiguousFrom(c, recent, bucket)}
    IN  IF Cardinality(tail) > limit
        THEN [candles |-> LastCandles(tail, limit), hasMore |-> TRUE]
        ELSE [candles |-> tail, hasMore |-> tail # candles]

\* Mutant: as many rows are read as the candles of the page can hold.
MutFetchLimit(bucket, limit) == limit * bucket

\* One candle more than the page shows is read.
FetchLimit(bucket, limit) == (limit + 1) * bucket

\* The page of candles before a time.
Page(rows, bucket, limit, before) ==
    TrimToContiguousTail(
        Aggregate(LastRows({m \in rows : m < before}, FetchLimit(bucket, limit)),
                  bucket),
        bucket, limit)

\* The candles between two times.
InRange(rows, bucket, from, to) ==
    {c \in Aggregate({m \in rows : from <= m /\ m < to + bucket}, bucket) :
        from <= CandleTime(c, bucket) /\ CandleTime(c, bucket) <= to}

\* What a chart shows that asks for one page after another, each for what is
\* before the last one, as long as there is more.
AllPages(rows, bucket, limit, end) ==
    LET shown[before \in 0 .. end] ==
            LET page == Page(rows, bucket, limit, before)
            IN  page.candles \cup
                IF page.hasMore
                THEN shown[Min({CandleTime(c, bucket) : c \in page.candles})]
                ELSE {}
    IN  shown[end]

===============================================================================
