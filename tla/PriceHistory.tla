----------------------------- MODULE PriceHistory -----------------------------
(***************************************************************************)
(* The price service and the script that patches its history.              *)
(*                                                                         *)
(* The service polls a feed per asset, without waiting for the last poll   *)
(* to end, stores what the feeds answer as one-minute bars, and keeps the  *)
(* newest price of each asset in memory.  The script is a process of its   *)
(* own on the same database: it asks for old bars, looks for gaps, and     *)
(* fills each from an exchange or by interpolation.                        *)
(*                                                                         *)
(* Of a bar it matters whether a feed reported it, the script made it up   *)
(* or the first start did; of the prices in memory, whether the bars they  *)
(* were read from have changed since.                                      *)
(***************************************************************************)
EXTENDS Integers, Sequences, FiniteSets, PriceCandles

CONSTANTS
    Assets,
    Oracle,       \* the assets whose feed is the chain's oracle, the only ones
                  \* patched; the others' feed answers with a range of bars
    Polls,        \* bound on the polls under way at a time
    Horizon,      \* bound on the minutes
    MinGap,       \* minutes without a bar that the script leaves alone
    Buckets,      \* the intervals of candles, in minutes
    Limits,       \* the sizes of pages
    MaxFailures   \* bound on the feeds' failures

\* A candle spans some minutes and a page shows some candles.
ASSUME PriceInputs == /\ Oracle \subseteq Assets
                      /\ Horizon \in Nat \ {0}
                      /\ Buckets \subseteq Nat \ {0}
                      /\ Limits \subseteq Nat \ {0}

NoPoll == [waiting |-> {}, failed |-> FALSE]
Stopped == [at |-> "off", assets |-> {}, gaps |-> {}]

VARIABLES
    bars,      \* per asset the stored bars: minute -> source
    stale,     \* assets whose newest bar is not the one the cache has read
    now,
    polls,     \* per poll the feeds that have not answered, and if one failed
    script,    \* what the script is doing, and for which assets or gaps
    failures

priceVars == <<bars, stale, now, polls, script, failures>>

\* A database that is new is seeded with one made-up bar per asset.
Seeds == [a \in Assets |-> [minute \in {1} |-> "fallback"]]

PricesInit ==
    /\ bars = Seeds
    /\ stale = {}
    /\ now = 1
    /\ polls = [p \in Polls |-> NoPoll]
    /\ script = Stopped
    /\ failures = 0

-----------------------------------------------------------------------------
(* The database. *)

Minutes(a) == DOMAIN bars[a]
SourcedFrom(a, sources) == {m \in Minutes(a) : bars[a][m] \in sources}

\* Once there is anything but the made-up bar, that is all a reader is shown.
LiveRows(a) == LET live == Minutes(a) \ SourcedFrom(a, {"fallback"})
               IN  IF live = {} THEN Minutes(a) ELSE live

\* Rows in place of those of the same minutes; the made-up bar goes.
Upsert(a, minutes) ==
    LET kept == Minutes(a) \ (minutes \cup SourcedFrom(a, {"fallback"}))
    IN  [bars EXCEPT ![a] = [m \in kept \cup minutes |->
                                IF m \in minutes THEN "feed" ELSE @[m]]]

\* The cache is behind when the newest bar is new, or another one now.
Outdates(a, minutes) ==
    IF minutes # {} /\ (\A m \in LiveRows(a) : \E n \in minutes :
                            n >= m \/ bars[a][m] = "fallback")
    THEN {a} ELSE {}

-----------------------------------------------------------------------------
(* The polls of the service. *)

\* Mutant: the last poll to end is the one that refreshes the cache.
MutRefreshes(p, poll) ==
    poll.waiting = {} /\ ~poll.failed /\ \A q \in Polls \ {p} : polls[q] = NoPoll

\* The prices in memory are read again when every feed has answered.
Refreshes(p, poll) == poll.waiting = {} /\ ~poll.failed

\* A feed has answered or failed: the poll goes on, or ends.
Answered(p, a, fails, outdated) ==
    LET poll == [polls[p] EXCEPT !.waiting = @ \ {a}, !.failed = @ \/ fails] IN
    /\ polls' = [polls EXCEPT ![p] = IF poll.waiting = {} THEN NoPoll ELSE poll]
    /\ stale' = IF Refreshes(p, poll) THEN {} ELSE stale \cup outdated

\* setInterval does not wait for the last poll.
Poll(p) ==
    /\ polls[p] = NoPoll
    /\ polls' = [polls EXCEPT ![p] =
                     [waiting |-> Assets, failed |-> FALSE]]
    /\ UNCHANGED <<bars, stale, now, script, failures>>

\* The oracle answers with the price of a block of this minute or the last.
OracleAnswers(p, a) ==
    /\ a \in polls[p].waiting \cap Oracle
    /\ \E m \in Max({now - 1, 1}) .. now :
           /\ bars' = Upsert(a, {m})
           /\ Answered(p, a, FALSE, Outdates(a, {m}))
    /\ UNCHANGED <<now, script, failures>>

\* A provider has the last bars, or none.
RangeAnswers(p, a) ==
    /\ a \in polls[p].waiting \ Oracle
    /\ \E minutes \in {{}, 1 .. now} :
           /\ bars' = IF minutes = {} THEN bars ELSE Upsert(a, minutes)
           /\ Answered(p, a, FALSE, Outdates(a, minutes))
    /\ UNCHANGED <<now, script, failures>>

\* One feed that fails is enough for the poll to fail; the others' answers are
\* stored as they come.
FeedFails(p, a) ==
    /\ a \in polls[p].waiting
    /\ failures < MaxFailures
    /\ failures' = failures + 1
    /\ Answered(p, a, TRUE, {})
    /\ UNCHANGED <<bars, now, script>>

\* The constructor seeds what is empty, which no asset is any more, and reads the
\* prices.
Restart ==
    /\ polls' = [p \in Polls |-> NoPoll]
    /\ stale' = {}
    /\ UNCHANGED <<bars, now, script, failures>>

-----------------------------------------------------------------------------
(* The script. *)

StartScript ==
    /\ script.at = "off"
    /\ script' = [script EXCEPT !.at = "backfill", !.assets = Assets]
    /\ UNCHANGED <<bars, stale, now, polls, failures>>

\* The bars that a provider has up to some minute, one range after another.
Backfilled(a, to) == IF to = 0 THEN bars ELSE Upsert(a, 1 .. to)

\* backfill asks a provider for the bars of one asset after another, up to some
\* minute; without a key for one, the asset is skipped.
Backfill(a) ==
    /\ script.at = "backfill"
    /\ a \in script.assets
    /\ \E to \in 0 .. now :
           /\ bars' = Backfilled(a, to)
           /\ stale' = stale \cup Outdates(a, 1 .. to)
    /\ script' = [script EXCEPT !.assets = @ \ {a}]
    /\ UNCHANGED <<now, polls, failures>>

\* Two bars with too much time between them.
GapsOf(a) == {g \in Minutes(a) \X Minutes(a) :
                 /\ g[2] - g[1] > MinGap
                 /\ \A m \in Minutes(a) : m <= g[1] \/ m >= g[2]}

\* All gaps are looked up at once, before the first is filled.
FindGaps ==
    /\ script.at = "backfill"
    /\ script.assets = {}
    /\ script' = [script EXCEPT !.at = "patch",
                                !.gaps = UNION {{a} \X GapsOf(a) : a \in Oracle}]
    /\ UNCHANGED <<bars, stale, now, polls, failures>>

Inside(gap) == (gap[1] + 1) .. (gap[2] - 1)

\* The bars of the exchange go in, and those made up in the gap before go.
WithExchange(a, gap, minutes) ==
    LET made == SourcedFrom(a, {"patched"}) \cap Inside(gap)
        kept == Minutes(a) \ (minutes \cup made)
    IN  [bars EXCEPT ![a] = [m \in kept \cup minutes |->
                                IF m \in minutes THEN "feed" ELSE @[m]]]

\* Mutant: the bars that are made up take the place of others.
MutInterpolated(a, gap) ==
    [bars EXCEPT ![a] = [m \in Minutes(a) \cup Inside(gap) |->
                            IF m \in Inside(gap) THEN "patched" ELSE @[m]]]

\* Bars are made up for the minutes of the gap that still have none.
Interpolated(a, gap) ==
    [bars EXCEPT ![a] = [m \in Minutes(a) \cup Inside(gap) |->
                            IF m \in Minutes(a) THEN @[m] ELSE "patched"]]

\* The exchange's answer is stored; when it has nothing, the gap is made up.
PatchGap(a, gap) ==
    /\ script.at = "patch"
    /\ <<a, gap>> \in script.gaps
    /\ \A other \in script.gaps : other[1] = a => other[2][1] >= gap[1]
    /\ \E minutes \in SUBSET Inside(gap) :
           bars' = IF minutes = {} THEN Interpolated(a, gap)
                   ELSE WithExchange(a, gap, minutes)
    /\ script' = [script EXCEPT !.gaps = @ \ {<<a, gap>>}]
    /\ UNCHANGED <<stale, now, polls, failures>>

\* The script is done, or stops where it is: a feed fails or it is stopped.
StopScript ==
    /\ script.at # "off"
    /\ script' = Stopped
    /\ UNCHANGED <<bars, stale, now, polls, failures>>

-----------------------------------------------------------------------------
MinutePasses ==
    /\ now < Horizon
    /\ now' = now + 1
    /\ UNCHANGED <<bars, stale, polls, script, failures>>

Feed(p, a) == OracleAnswers(p, a) \/ RangeAnswers(p, a)

Script == \/ StartScript \/ FindGaps \/ StopScript
          \/ \E a \in Assets : Backfill(a)
          \/ \E gap \in script.gaps : PatchGap(gap[1], gap[2])

PricesNext ==
    \/ MinutePasses \/ Restart \/ Script
    \/ \E p \in Polls : Poll(p) \/ \E a \in Assets : Feed(p, a) \/ FeedFails(p, a)

PricesSpec == PricesInit /\ [][PricesNext]_priceVars

\* Every poll is followed by another, and no request waits for ever.
PricesFairness ==
    \A p \in Polls : /\ WF_priceVars(Poll(p))
                      /\ WF_priceVars(\E a \in Assets : Feed(p, a) \/ FeedFails(p, a))

FairPricesSpec == PricesSpec /\ PricesFairness

-----------------------------------------------------------------------------
(* Properties. *)

\* No bar of a feed is ever lost or replaced by one that was made up, although the
\* script fills gaps that it looked up before it waited for the exchange, and the
\* service stores bars meanwhile.
RealBarsStay ==
    [][\A a \in Assets : \A m \in SourcedFrom(a, {"feed"}) :
           m \in DOMAIN bars'[a] /\ bars'[a][m] = "feed"]_priceVars

\* Page by page, or by a range, a reader gets every candle once, and each candle
\* sums up all bars of its bucket: no limit cuts a bucket in two, and no gap in the
\* history ends the pages early.  Only the bars matter, and those of any state stay
\* as they are when the service and the script stop: those states are looked at.
CandlesAreComplete ==
  script = Stopped /\ stale = {} /\ (\A p \in Polls : polls[p] = NoPoll) =>
    \A a \in Assets, bucket \in Buckets :
        LET all == Aggregate(LiveRows(a), bucket) IN
        /\ \A limit \in Limits :
               AllPages(LiveRows(a), bucket, limit, Horizon + 1) = all
        /\ \A from \in 0 .. now : \A to \in {from, now} :
               InRange(LiveRows(a), bucket, from, to) =
                   {c \in all : from <= CandleTime(c, bucket)
                                /\ CandleTime(c, bucket) <= to}

\* The reference prices catch up with the stored bars again and again, also when
\* polls overlap, feeds fail now and then, and the script adds bars behind the
\* service's back.
CacheCatchesUp == []<>(stale = {})

===============================================================================
