------------------------------- MODULE Responses -------------------------------
(* What the servers write: the bytes of a response with given records, and what is     *)
(* expected of a parser that gets all of them, or all but the last few.                *)
EXTENDS Parsers

EncInt(n, v) == [i \in 1..n |-> IF i > 4 THEN 0 ELSE (v \div 256^(i - 1)) % 256]

EncPrice(v) ==
  LET size == IF v < 0 THEN -v ELSE v
      more == size \div 64
      n == CHOOSE k \in 0..3 : more < 128^k /\ (k = 0 \/ more >= 128^(k - 1))
      goesOn(i) == IF i < n THEN 128 ELSE 0
  IN <<(size % 64) + (IF v < 0 THEN 64 ELSE 0) + goesOn(0)>>
     \o [i \in 1..n |-> ((more \div 128^(i - 1)) % 128) + goesOn(i)]

EncFields(layout, values) ==
  FlattenSeq([i \in DOMAIN layout |-> IF layout[i] = V THEN EncPrice(values[i]) ELSE EncInt(layout[i], values[i])])

EncDatetime(category, at) ==
  IF OfMinutes(category)
    THEN at.minutes * 65536 + (at.date.year - 2004) * 2048 + at.date.month * 100 + at.date.day
    ELSE at.date.year * 10000 + at.date.month * 100 + at.date.day

Zeros(n) == Times(n, 0)

Previous(recs, i, field) == IF i = 1 THEN 0 ELSE recs[i - 1][field]

-----------------------------------------------------------------------------
(* Responses by kind; records are given as the parser is to return them *)

Kinds == {"minute_bars", "day_bars", "index_bars", "minutes", "history_minutes", "ticks", "history_ticks",
          "quotes", "list", "xdxr", "finance", "count", "meta", "block"}

\* Responses of one record.
Single == {"finance", "count", "meta", "block"}

LayoutOf(kind) ==
  CASE kind \in {"minute_bars", "day_bars"}     -> BarLayout
    [] kind = "index_bars"                      -> IndexBarLayout
    [] kind \in {"minutes", "history_minutes"}  -> MinuteLayout
    [] kind = "ticks"                           -> TickLayout
    [] kind = "history_ticks"                   -> FormerTickLayout
    [] kind = "quotes"                          -> QuoteLayout
    [] kind = "list"                            -> ListLayout
    [] kind = "xdxr"                            -> XdxrLayout

\* The bytes a record takes at least.
Least(kind) == FoldLeft(LAMBDA acc, field : acc + (IF field = V THEN 1 ELSE field), 0, LayoutOf(kind))

Category(kind) == IF kind = "minute_bars" THEN 0 ELSE 9

EncBar(kind, bars, i) ==
  LET b == bars[i]
  IN EncFields(BarLayout, <<EncDatetime(Category(kind), b.at), b.open - Previous(bars, i, "close"),
                            b.close - b.open, b.high - b.open, b.low - b.open, b.vol, b.amount>>)

EncQuote(q) ==
  EncFields(QuoteLayout,
    <<q.market, q.code, q.active1, q.price, q.last_close - q.price, q.open - q.price, q.high - q.price,
      q.low - q.price, q.reversed[1], q.reversed[2], q.vol, q.cur_vol, q.amount, q.s_vol, q.b_vol>>
    \o SubSeq(q.reversed, 3, 4)
    \o FlattenSeq([i \in 1..5 |-> <<q.bids[i][1] - q.price, q.asks[i][1] - q.price, q.bids[i][2], q.asks[i][2]>>])
    \o SubSeq(q.reversed, 5, 10) \o <<q.active2>>)

EncXdxr(x) ==
  EncFields(XdxrLayout, <<0, EncDatetime(9, [date |-> x.date]), x.category>> \o x.data)

EncRecord(kind, recs, i) ==
  LET r == recs[i]
  IN CASE kind \in {"minute_bars", "day_bars"} -> EncBar(kind, recs, i)
       [] kind = "index_bars" -> EncBar(kind, [j \in DOMAIN recs |-> recs[j].bar], i) \o EncFields(<<2, 2>>, <<r.up, r.down>>)
       [] kind \in {"minutes", "history_minutes"} ->
            EncFields(MinuteLayout, <<r.price - Previous(recs, i, "price"), 0, r.vol>>)
       [] kind \in {"ticks", "history_ticks"} ->
            EncFields(LayoutOf(kind), <<r.minutes, r.price - Previous(recs, i, "price"), r.vol>> \o r.rest)
       [] kind = "quotes" -> EncQuote(r)
       [] kind = "list" -> EncFields(ListLayout,
                                     <<r.code, r.volunit, r.name, 0, r.decimal_point, r.pre_close, 0>>)
       [] kind = "xdxr" -> EncXdxr(r)
       [] kind = "finance" -> EncFields(FinanceLayout, Append(r, 0))
       [] kind = "count" -> EncInt(2, r)
       [] kind = "meta" -> EncInt(4, r.size) \o Zeros(1) \o r.hash \o Zeros(1)
       [] kind = "block" -> EncInt(4, Len(r)) \o r

Head0(kind, n) ==
  CASE kind = "minutes"         -> EncInt(2, n) \o Zeros(11)
    [] kind = "history_minutes" -> Zeros(6)
    [] kind = "history_ticks"   -> EncInt(2, n) \o Zeros(4)
    [] kind = "quotes"          -> Zeros(2) \o EncInt(2, n)
    [] kind = "xdxr"            -> Zeros(9) \o EncInt(2, n)
    [] kind = "finance"         -> Zeros(9)
    [] kind \in {"count", "meta", "block"} -> <<>>
    [] OTHER                    -> EncInt(2, n)

Encode(kind, recs) == Head0(kind, Len(recs)) \o FlattenSeq([i \in DOMAIN recs |-> EncRecord(kind, recs, i)])

Parse(kind, body) ==
  CASE kind \in {"minute_bars", "day_bars"} -> ParseSecurityBars(body, Category(kind))
    [] kind = "index_bars"      -> ParseIndexBars(body, Category(kind))
    [] kind = "minutes"         -> ParseMinuteTimeData(body)
    [] kind = "history_minutes" -> ParseHistoryMinuteTimeData(body)
    [] kind = "ticks"           -> ParseTransactionData(body)
    [] kind = "history_ticks"   -> ParseHistoryTransactionData(body)
    [] kind = "quotes"          -> ParseSecurityQuotes(body)
    [] kind = "list"            -> ParseSecurityList(body)
    [] kind = "xdxr"            -> ParseXdxrInfo(body)
    [] kind = "finance"         -> ParseFinanceInfo(body)
    [] kind = "count"           -> ParseSecurityCount(body)
    [] kind = "meta"            -> ParseBlockInfoMeta(body)
    [] kind = "block"           -> Parsed(body, 0, ParseBlockInfo(body))

\* What the caller is to get, oldest first: minutes have a time and the average so far, an
\* event the fields its category has, and unsigned fields the two's complement.
Session == [i \in 1..240 |-> IF i <= 120 THEN 570 + i ELSE 660 + i]

Expected(kind, recs) ==
  CASE kind \in {"minutes", "history_minutes"} ->
         [i \in DOMAIN recs |->
            LET amount == Total(LAMBDA j : recs[j].price * recs[j].vol, i)
                vol == Total(LAMBDA j : recs[j].vol, i)
            IN [time |-> Session[i], price |-> recs[i].price, vol |-> recs[i].vol,
                average |-> IF vol = 0 THEN <<recs[i].price, 1>> ELSE <<amount, vol>>]]
    [] kind = "xdxr" ->
         [i \in DOMAIN recs |->
            [date |-> recs[i].date, category |-> recs[i].category,
             fields |-> XdxrFields(recs[i].category, recs[i].data)]]
    [] kind \in {"ticks", "history_ticks"} ->
         [i \in DOMAIN recs |-> [recs[i] EXCEPT !.rest = [j \in DOMAIN @ |-> AsU32(@[j])]]]
    [] kind = "quotes" ->
         [i \in DOMAIN recs |-> [recs[i] EXCEPT !.reversed = [j \in DOMAIN @ |-> AsU32(@[j])]]]
    [] kind \in Single -> recs[1]
    [] OTHER -> recs

OldestFirst(kind, records) ==
  IF kind \in {"minutes", "history_minutes"} THEN Reverse(records) ELSE records

-----------------------------------------------------------------------------
(* What is expected *)

Without0(n, seq) == SubSeq(seq, 1, Len(seq) - n)

\* A whole response gives back its records.
AllOf(kind, got, recs) == got.ok => OldestFirst(kind, got.records) = Expected(kind, recs)
ReadsAll(kind, recs) == AllOf(kind, Parse(kind, Encode(kind, recs)), recs)

\* The bytes before the record behind the first n.
End(kind, recs, n) ==
  Len(Head0(kind, Len(recs))) + Len(FlattenSeq([i \in 1..n |-> EncRecord(kind, recs, i)]))

\* How many records a response of so many bytes has whole.
WholeRecords(kind, recs, bytes) == Max({0} \cup {n \in DOMAIN recs : End(kind, recs, n) <= bytes})

\* A response whose end is cut off gives the records that are whole, and at most one made up
\* of the bytes of the next, if at least those are there that a record takes.  Two guards are
\* off: 6 bytes are enough to make up a transaction, which takes 7; and an index bar is lost
\* if fewer than 24 bytes are left from its first on, where 20 may be a whole one.  And
\* former minutes have neither count nor guard: any bytes at the end make up one more.
ReadsPrefix(kind, recs, cut) ==
  LET bytes == Len(Encode(kind, recs)) - cut
      n == WholeRecords(kind, recs, bytes)
      rest == bytes - End(kind, recs, n)
      lost == IF kind = "index_bars" /\ n > 0 /\ bytes - End(kind, recs, n - 1) < 24 THEN 1 ELSE 0
      least == CASE kind = "ticks"           -> 6
                 [] kind = "history_minutes" -> 1
                 [] OTHER                    -> Least(kind)
      got == OldestFirst(kind, Parse(kind, Without0(cut, Encode(kind, recs))).records)
  IN /\ IsPrefix(SubSeq(Expected(kind, recs), 1, n - lost), got)
     /\ Len(got) <= n - lost + (IF rest >= least THEN 1 ELSE 0)

\* A made-up record does not occur at all.
NothingForged(kind, recs, cut) ==
  IsPrefix(OldestFirst(kind, Parse(kind, Without0(cut, Encode(kind, recs))).records), Expected(kind, recs))

\* get_volume reads the four bytes as an IEEE single, as long as it is normal and positive.
VolumeIsSingle(log, high, mid, low) ==
  LET exponent == 2 * log + (high \div 128)
      fraction == (high % 128) * 65536 + mid * 256 + low
  IN exponent > 0 => GetVolume(log, high, mid, low) = (8388608 + fraction) * (IF high >= 128 THEN 2 ELSE 1)

\* A time of day survives format_servertime; hour without leading zero.
ServertimeIsRead(h, m, f) == FormatServertime(h * 1000000 + m * 10000 + f) = <<h, m, f * 60>>
=============================================================================
