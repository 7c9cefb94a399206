------------------------------- MODULE Adjuster -------------------------------
(* Adjusted prices (protocol/adjuster.rs, protocol/fq_service.rs) and the older bars   *)
(* fetched to compute them (net/utils.rs and both clients).                            *)
(*                                                                                     *)
(* A bar is its number in the history, 1 the oldest; day[b] is its date.  An event is  *)
(* a record of get_xdxr_info: its date, its category, and whether the factor computed  *)
(* from its fields is usable.  A factor stands for the event it is of and the bar its  *)
(* closing price was taken from; an adjusted price is the sequence of factors it is    *)
(* multiplied by.                                                                      *)
EXTENDS Naturals, Sequences, FiniteSets, SequencesExt

CONSTANTS
  Page,     \* bars of a page (MAX_KLINE_COUNT)
  LowPages, \* pages of FqContextTier::Low; Mid and High have two and three times as many
  AllPages  \* pages fetched at most for calc_fq_factors

NoBar == 0

MinOf(S) == CHOOSE x \in S : \A y \in S : x <= y
MaxOf(S) == CHOOSE x \in S : \A y \in S : x >= y

-----------------------------------------------------------------------------
(* The server's side *)

\* count bars that end start bars before the newest, ascending.
BarsOf(day, start, count) ==
  LET n == Len(day)
      first == IF n > start + count THEN n - start - count + 1 ELSE 1
  IN IF start >= n THEN <<>> ELSE [i \in 1..(n - start - first + 1) |-> first + i - 1]

-----------------------------------------------------------------------------
(* The context: older bars *)

EventDates(xdxr) == {xdxr[i].date : i \in {j \in DOMAIN xdxr : xdxr[j].category = 1}}

\* The pages of older bars that are asked for, from Page before the newest bar on whatever
\* bars starts at, and what ends them: an error (of page failing), the end of the history, a
\* page that reaches the first event.
ContextPages(day, pages, failing, firstEvent) ==
  LET batch(k) == BarsOf(day, k * Page, Page)
      got(k) == k # failing /\ batch(k) # <<>>
      asked == {k \in 1..pages : \A j \in 1..(k - 1) : got(j) /\ day[batch(j)[1]] > firstEvent}
  IN {k \in asked : got(k)}

\* None are fetched if the bars begin no later than on the day of the first event.
FetchContext(day, bars, xdxr, pages, failing) ==
  IF bars = <<>> \/ EventDates(xdxr) = {} THEN <<>>
  ELSE LET firstEvent == MinOf(EventDates(xdxr))
           n == Cardinality(ContextPages(day, pages, failing, firstEvent))
       IN IF day[bars[1]] <= firstEvent THEN <<>>
          ELSE FlattenSeq([i \in 1..n |-> BarsOf(day, (n + 1 - i) * Page, Page)])

TierPages(tier) == LowPages * (CASE tier = "low" -> 1 [] tier = "mid" -> 2 [] tier = "high" -> 3)

\* q is a call: [day, start, count, xdxr, eventsFail, tier, failing, fq].
SyncContext(q, bars) == FetchContext(q.day, bars, q.xdxr, TierPages(q.tier), q.failing)
DirectContext(q, bars) == FetchContext(q.day, bars, q.xdxr, TierPages(q.tier), q.failing)
AsyncContext(q, bars) == FetchContext(q.day, bars, q.xdxr, TierPages(q.tier), q.failing)

\* fetch_context_for_factors.
SyncFactorContext(q, bars) == FetchContext(q.day, bars, q.xdxr, AllPages, q.failing)
DirectFactorContext(q, bars) == FetchContext(q.day, bars, q.xdxr, AllPages, q.failing)

\* auto_detect_tier, with years counted as dates; xdxr ascends.
DetectTier(xdxr, now, decade) ==
  IF xdxr = <<>> THEN "mid"
  ELSE LET back == IF now > xdxr[1].date THEN now - xdxr[1].date ELSE 0
       IN IF back <= decade THEN "low" ELSE IF back <= 2 * decade THEN "mid" ELSE "high"

-----------------------------------------------------------------------------
(* Factors *)

\* Events of category 1 by date; the sort is stable.
Events(xdxr) ==
  LET picked == {i \in DOMAIN xdxr : xdxr[i].category = 1}
      before(i) == {j \in picked : xdxr[j].date < xdxr[i].date \/ (xdxr[j].date = xdxr[i].date /\ j < i)}
  IN [k \in 1..Cardinality(picked) |-> xdxr[CHOOSE i \in picked : Cardinality(before(i)) = k - 1]]

\* The last of bars before date, while they ascend, else the last of context.
MutCloseBefore(day, bars, context, date) ==
  LET older == {i \in DOMAIN bars : day[bars[i]] <= date}
      earlier == {i \in DOMAIN context : day[context[i]] < date}
  IN IF older # {} THEN bars[MaxOf(older)]
     ELSE IF earlier # {} THEN context[MaxOf(earlier)] ELSE NoBar

CloseBefore(day, bars, context, date) ==
  LET prefix == {i \in DOMAIN bars : \A j \in 1..i : day[bars[j]] < date}
      earlier == {i \in DOMAIN context : day[context[i]] < date}
  IN IF prefix # {} THEN bars[MaxOf(prefix)]
     ELSE IF earlier # {} THEN context[MaxOf(earlier)] ELSE NoBar

Factor(event, bar) == [event |-> event, close |-> bar]

\* One factor per date: of the last usable event of that date.
FactorMap(day, bars, context, events) ==
  LET usable == {i \in DOMAIN events :
                   events[i].usable /\ CloseBefore(day, bars, context, events[i].date) # NoBar}
      dates == {events[i].date : i \in usable}
  IN [d \in dates |->
        Factor(events[MaxOf({i \in usable : events[i].date = d})],
               CloseBefore(day, bars, context, d))]

\* The factors that the events of the due dates bring in.
Applied(map, events, due) ==
  FlattenSeq([i \in DOMAIN events |-> IF events[i].date \in due THEN <<map[events[i].date]>> ELSE <<>>])

\* adjust_security_bars: what each of the bars is multiplied by.  Forward adjustment goes
\* through the bars from the newest, backward adjustment from the oldest.
Adjust(day, bars, context, xdxr, fq) ==
  LET events == Events(xdxr)
      map == FactorMap(day, bars, context, events)
      oldest(i) == MinOf({day[bars[j]] : j \in i..Len(bars)})
      newest(i) == MaxOf({day[bars[j]] : j \in 1..i})
  IN [i \in DOMAIN bars |->
        CASE fq = "none" -> <<>>
          [] fq = "qfq"  -> Applied(map, events, {d \in DOMAIN map : d > oldest(i)})
          [] fq = "hfq"  -> Applied(map, events, {d \in DOMAIN map : d <= newest(i)})]

\* calc_fq_factors: a factor per event whose closing price was found.
CalcFactors(day, bars, context, xdxr) ==
  LET events == Events(xdxr)
      close(i) == CloseBefore(day, bars, context, events[i].date)
  IN FlattenSeq([i \in DOMAIN events |-> IF close(i) # NoBar THEN <<Factor(events[i], close(i))>> ELSE <<>>])

-----------------------------------------------------------------------------
(* get_security_bars with adjustment: the bars, their context and what each is          *)
(* multiplied by; nothing if the events cannot be fetched                               *)

FqType(n) == CASE n = 0 -> "none" [] n = 2 -> "hfq" [] OTHER -> "qfq"

Adjusted(q, bars, context) ==
  [bars |-> bars, context |-> context,
   factors |-> IF q.eventsFail THEN [i \in DOMAIN bars |-> <<>>]
               ELSE Adjust(q.day, bars, context, q.xdxr, FqType(q.fq))]

ContextOf(q, bars, context) == IF q.fq = 0 \/ q.eventsFail THEN <<>> ELSE context

SyncAdjusted(q) ==
  LET bars == BarsOf(q.day, q.start, q.count) IN Adjusted(q, bars, ContextOf(q, bars, SyncContext(q, bars)))
AsyncAdjusted(q) ==
  LET bars == BarsOf(q.day, q.start, q.count) IN Adjusted(q, bars, ContextOf(q, bars, AsyncContext(q, bars)))
DirectAdjusted(q) ==
  LET bars == BarsOf(q.day, q.start, q.count) IN Adjusted(q, bars, ContextOf(q, bars, DirectContext(q, bars)))

AdjustedBy(client, q) ==
  CASE client = "sync" -> SyncAdjusted(q) [] client = "async" -> AsyncAdjusted(q) [] OTHER -> DirectAdjusted(q)

\* FqService::calc_factors over the context that is meant for it.
FactorsBy(client, q) ==
  LET bars == BarsOf(q.day, q.start, q.count)
  IN CalcFactors(q.day, bars, IF client = "sync" THEN SyncFactorContext(q, bars) ELSE DirectFactorContext(q, bars), q.xdxr)

-----------------------------------------------------------------------------
(* Reference: every event's factor is of the last close before it in the whole history *)

Before(day, date) == {b \in DOMAIN day : day[b] < date}

\* A bar is adjusted by the events after its day, or by those up to its day.
Due(fq, date, barDay) == IF fq = "qfq" THEN date > barDay ELSE date <= barDay

TrueAdjustment(day, bars, xdxr, fq) ==
  LET events == Events(xdxr)
      counts(e, b) == e.usable /\ Due(fq, e.date, day[b]) /\ Before(day, e.date) # {}
  IN [i \in DOMAIN bars |->
        FlattenSeq([k \in DOMAIN events |->
          IF counts(events[k], bars[i]) THEN <<Factor(events[k], MaxOf(Before(day, events[k].date)))>> ELSE <<>>])]

-----------------------------------------------------------------------------
(* Properties *)

Distinct(xdxr) == \A i, j \in DOMAIN xdxr : i # j => xdxr[i].date # xdxr[j].date

\* Forward-adjusted newest bars are exactly those of the whole history, whatever fails while
\* the context is fetched, as long as no two events have one date.
ForwardExact(client, q) ==
  LET got == AdjustedBy(client, q)
  IN FqType(q.fq) = "qfq" /\ q.start = 0 /\ ~q.eventsFail /\ Distinct(q.xdxr) =>
       got.factors = TrueAdjustment(q.day, got.bars, q.xdxr, "qfq")

\* Backward-adjusted newest bars are so if the context, fetched without error, goes back to
\* the first bar or has no gap to the bars, and no event is on the date of its first bar.
BackwardExact(client, q) ==
  LET got == AdjustedBy(client, q)
      known == got.context \o got.bars
      covered == q.count = Page /\ Page + TierPages(q.tier) * Page >= Len(q.day)
  IN FqType(q.fq) = "hfq" /\ q.start = 0 /\ ~q.eventsFail /\ q.failing = 0 /\ Distinct(q.xdxr)
     /\ covered /\ (\A i \in DOMAIN q.xdxr : q.xdxr[i].date # q.day[known[1]]) =>
       got.factors = TrueAdjustment(q.day, got.bars, q.xdxr, "hfq")

\* The factors that are listed are those that the newest bar is adjusted by.
FactorsAgree(client, q) ==
  LET got == AdjustedBy(client, q)
      usable == \A i \in DOMAIN q.xdxr : q.xdxr[i].usable
      all == FactorsBy(client, q)
      listed == FlattenSeq([i \in DOMAIN all |->
                  IF all[i].event.date <= q.day[got.bars[Len(got.bars)]] THEN <<all[i]>> ELSE <<>>])
  IN FqType(q.fq) = "hfq" /\ got.bars # <<>> /\ ~q.eventsFail /\ Distinct(q.xdxr) /\ usable
     /\ AllPages = TierPages(q.tier) =>
       got.factors[Len(got.bars)] = listed

\* The tier that is recommended fetches bars back to the first event, if there is one bar a
\* day, three decades at most, and a decade as many bars as LowPages: when a whole page is
\* asked for, or the history is longer than that (the context begins a page back).
DetectedTierReaches(client, q) ==
  LET n == Len(q.day)
      decade == LowPages * Page
      tier == DetectTier(Events(q.xdxr), q.day[n], decade)
      got == AdjustedBy(client, [q EXCEPT !.tier = tier])
      first == MinOf(EventDates(q.xdxr))
  IN /\ q.day = [i \in 1..n |-> i]
     /\ EventDates(q.xdxr) # {} /\ first \in DOMAIN q.day /\ n - first <= 3 * decade
     /\ q.fq # 0 /\ ~q.eventsFail /\ q.failing = 0 /\ q.start = 0 /\ got.bars # <<>>
     /\ q.count >= Page \/ n > Page
     => q.day[(got.context \o got.bars)[1]] <= first

AdjustmentExact(client, q) ==
  ForwardExact(client, q) /\ BackwardExact(client, q) /\ FactorsAgree(client, q) /\ DetectedTierReaches(client, q)

\* Adjusted bars are those of the whole history, whatever part of it is asked for.
AdjustmentAlwaysExact(client, q) ==
  LET got == AdjustedBy(client, q)
  IN q.fq # 0 /\ ~q.eventsFail /\ q.failing = 0 =>
       got.factors = TrueAdjustment(q.day, got.bars, q.xdxr, FqType(q.fq))
=============================================================================
