------------------------------ MODULE MCAlgorithms -----------------------------
(* The pure parts of the clients over bounded inputs: a behaviour is one input.        *)
EXTENDS Algorithms, TLC

CONSTANTS
  MaxCut, HeaderSize, NameSize, CodeSize, BlockArea, MaxKeyword, MaxResults,
  NameBytes, FileBytes, MaxGap

R   == INSTANCE Responses
Fi  == INSTANCE Files
Pr  == INSTANCE Profiles

-----------------------------------------------------------------------------
(* Responses *)

At == [date |-> [year |-> 2026, month |-> 6, day |-> 23], minutes |-> 0]
Bar(p, vol) == [at |-> At, open |-> p, close |-> p - 3, high |-> p + 100, low |-> p - 9000, vol |-> vol, amount |-> 70000]
Bars == {Bar(p, vol) : p \in {10, 5000}, vol \in {3, 70000}}

Quote(p) ==
  [market |-> 1, code |-> p, active1 |-> 7, price |-> p, last_close |-> p + 70, open |-> p - 1, high |-> p + 2,
   low |-> p - 5, servertime |-> R!FormatServertime(14000000 + p), vol |-> 9000, cur_vol |-> 5, amount |-> 300000,
   s_vol |-> 3, b_vol |-> 4, bids |-> [i \in 1..5 |-> <<p - i, 10 * i>>], asks |-> [i \in 1..5 |-> <<p + i, 20 * i>>],
   reversed |-> <<14000000 + p, -p, 1, 2, 40000, 0, 1, 2, 3, -400>>, active2 |-> 8]

Samples(kind) ==
  CASE kind \in {"minute_bars", "day_bars"} -> Bars
    [] kind = "index_bars" -> {[bar |-> b, up |-> 900, down |-> 1] : b \in Bars}
    [] kind \in {"minutes", "history_minutes"} -> [price : {8, 700}, vol : {0, 5, 9000}]
    [] kind \in {"ticks", "history_ticks"} ->
         {[minutes |-> 571, price |-> p, vol |-> v, rest |-> R!Times(IF kind = "ticks" THEN 2 ELSE 1, 1) \o <<r>>] :
            p \in {8, 9000}, v \in {1, 70}, r \in {2, -3}}
    [] kind = "quotes" -> {Quote(p) : p \in {60, 9000}}
    [] kind = "list" -> [code : {1, 2}, volunit : {100}, name : {5}, decimal_point : {2}, pre_close : {0, 70000}]
    [] kind = "xdxr" -> [date : {At.date}, category : {1, 2, 11, 14}, data : {<<1, 2, 3, 4>>}]
    [] kind = "finance" -> {[i \in 1..34 |-> k * i] : k \in {1, 900}}
    [] kind = "count" -> {0, 25000}
    [] kind = "meta" -> {[size |-> n, hash |-> R!Times(32, 7)] : n \in {9, 400000}}
    [] kind = "block" -> {<<1, 2>>, <<1, 2, 3, 4, 5>>}

Counts(kind) == IF kind \in R!Single THEN {1} ELSE 0..2

ParseJobs ==
  \E kind \in R!Kinds : \E n \in Counts(kind), cut \in 0..MaxCut : \E recs \in [1..n -> Samples(kind)] :
    /\ cut <= Len(R!Encode(kind, recs))
    /\ job' = [job |-> "parse", kind |-> kind, recs |-> recs, cut |-> cut]

NumberJobs ==
  \/ \E bytes \in {0, 1, 70} \X {0, 1, 127, 128, 129, 255} \X {0, 1, 255} \X {0, 7, 255} :
       job' = [job |-> "volume", bytes |-> bytes]
  \/ \E hmf \in {1, 9, 15} \X {0, 1, 59} \X {0, 7, 9999} : job' = [job |-> "servertime", hmf |-> hmf]

MCFrames ==
  [client : Fr!Readers, content : {<<>>, <<7>>, <<7, 8>>, <<7, 8, 9>>, <<5, 6, 7, 8>>, <<1, 2, 3, 4, 5>>},
   size : 0..3, declared : 0..5, corrupt : BOOLEAN, cut : 0..3, next : {<<>>, <<4>>}]

\* Index bars: parse_index_bars guards each record by the bytes it has at least.
IndexBarsAreRead == job.job = "parse" /\ job.kind = "index_bars" => R!ReadsAll(job.kind, job.recs)

\* No record is made up of the bytes of one cut off.
NothingForged == job.job = "parse" /\ job.kind \notin R!Single => R!NothingForged(job.kind, job.recs, job.cut)

\* A deflated body as long as its content is inflated too.
EqualSizesInflated ==
  job.job = "frame" /\ job.frame.size > 0 /\ ~job.frame.corrupt =>
    Fr!FramesAlwaysRead(job.frame.client, job.frame.content, job.frame.size)

-----------------------------------------------------------------------------
(* Requests *)

Pad(prefix) == [i \in 1..6 |-> IF i <= Len(prefix) THEN prefix[i] ELSE 1]
WellFormed == {Pad(<<6, 0>>), Pad(<<8, 8>>), Pad(<<5, 1>>), Pad(<<1, 5>>), Pad(<<4, Req!Letter>>)}
Malformed == {<<>>, <<6, 0, 0, 5>>, <<6, 0, 0, 5, 1, 9, 9>>, Pad(<<6, Req!Other>>)}

Arguments ==
  [market : {0, 1}, code : WellFormed \cup Malformed, category : {0, 3, 7, 9}, start : {0, 65535, 65536},
   count : {0, 5, 900}, date : {20260622}, today : {20260623}, file : {"block_gn.dat"}]

\* Arguments an operation does not have keep one value.
Relevant(op, a) ==
  /\ op \notin {"bars", "index"} => a.category = 9
  /\ op \notin {"bars", "index", "ticks", "history_ticks", "list", "block"} => a.start = 0
  /\ op \notin {"bars", "index", "ticks", "history_ticks", "block"} => a.count = 5
  /\ op \in {"list", "count", "meta", "block"} => a.code = Pad(<<6, 0>>)

MCAsks ==
  UNION {UNION {[client : {client}, op : {op}, a : {a \in Arguments : Relevant(op, a)}] : op \in Req!OpsOf(client)} :
           client \in Req!Clients}

Stocks(client) ==
  CASE client = "fund"  -> {<<1, Pad(<<5, 1>>)>>, <<0, Pad(<<1, 5>>)>>}
    [] client = "block" -> {<<1, Pad(<<8, 8>>)>>, <<1, Pad(<<8, 8, 2>>)>>, <<1, Pad(<<6, 0>>)>>}
    [] OTHER            -> {<<1, Pad(<<6, 0>>)>>, <<0, Pad(<<6, 0>>)>>, <<0, Pad(<<0, 0>>)>>}
Garbage == <<0, Pad(<<3>>)>>

\* What a server answers for: in any order, stocks missing or twice.
Lists(client) == UNION {[1..n -> Stocks(client)] : n \in 0..3}

MCBaskets ==
  UNION {[client : {client},
          stocks : {s \in Lists(client) : \A i, j \in DOMAIN s : i # j => s[i] # s[j]},
          server : [known : SUBSET Stocks(client), garbage : {Garbage, CHOOSE s \in Stocks(client) : TRUE},
                    order : Lists(client)]] :
           client \in Req!QuoteClients}

MCDownloads == {[i \in 1..n |-> i] : n \in 0..8}

Days == {1, 58, 59, 60, 365} \cup 20628..20635 \cup 47500..47560 \cup 11016..11020
MCMoments == [day : Days, sec : {0, 5399, 5400, 25200, 25201, 57599, 57600, 86399}]

\* Malformed codes are refused by every client.
MalformedRefused == job.job = "call" => Req!MalformedRefused(job.client, job.op, job.a)

\* Quotes are genuine whatever the server returns for codes it does not know.
QuotesAlwaysGenuine ==
  job.job = "quotes" =>
    LET b == job.basket IN Req!QuotesAlwaysGenuine(b.client, b.stocks, b.server)

\* No more quotes are given than fit into one request.
QuotesOfOneRequest ==
  job.job = "quotes" =>
    LET b == job.basket
    IN Len(Req!Quotes(b.client, b.server, b.stocks)) <= MaxQuotes

\* A part of a block file shorter than asked for is noticed.
ShortPartsNoticed == job.job = "download" => \A given \in 1..4 : Fr!ShortPartsNoticed(job.file, given)

\* The phase is closed exactly at the weekend.
ClosedAtWeekend == job.job = "clock" => Cal!ClosedAtWeekend(job.moment)

-----------------------------------------------------------------------------
(* Files and texts *)

Blocks == [name : {5, 6}, type : {2, 3}, codes : {<<>>, <<7>>, <<8, 9>>}]
Day == [date |-> At.date, prices |-> <<1000, 1100, 900, 1050>>, amount |-> 70000, volume |-> 300]
Daily == {<<>>, <<Day>>, <<Day, [Day EXCEPT !.date.day = 24, !.volume = 5]>>}
MinuteOf(day) ==
  [date |-> day.date, minutes |-> 571 + day.volume, unit |-> "", prices |-> day.prices, amount |-> day.amount,
   volume |-> day.volume]
Reports == [code : {1, 2}, fields : {<<10, 20>>, <<30, 40>>}]
Indicators == [eps |-> 1, roe |-> 2, cash |-> 3]

LocalFileJobs ==
  \E cut \in 0..20 :
    \/ \E n \in 0..2 : \E blocks \in [1..n -> Blocks] :
         \E keyword \in [bytes : {0, 2, 3}, matches : {{5}, {5, 6}}] :
           /\ cut <= Len(Fi!EncBlocks(blocks))
           /\ job' = [job |-> "blocks", blocks |-> blocks, cut |-> cut, keyword |-> keyword]
    \/ \E days \in Daily : 32 * Len(days) >= 8 * cut /\ job' = [job |-> "minutes", bars |-> [i \in DOMAIN days |-> MinuteOf(days[i])], cut |-> 8 * cut]
    \/ \E days \in Daily : 8 * cut <= Len(Fi!EncDaily(days)) /\ job' = [job |-> "daily", days |-> days, cut |-> 8 * cut]
    \/ \E n \in 0..2 : \E reports \in [1..n -> Reports] :
         cut <= Len(Fi!EncFinancial(20260331, reports)) /\ job' = [job |-> "reports", reports |-> reports, cut |-> cut]

Padded(bytes) == Pr!Padded(bytes, FileBytes)
Texts == (Padded(<<7, 8>>) :> <<1, 2, 3, 4, 5, 6>>) @@ (Padded(<<9>>) :> <<11, 12, 13>>)
Categories == [name : {<<5>>, <<6>>}, file : {<<7, 8>>, <<9>>}, start : {0, 2}, length : {1, 3}]
Rows == [field : {"a", "b"}, value : {<<>>, <<Pr!Word("x")>>, <<Pr!Word("y"), Pr!Word("z")>>, <<Pr!Word(Pr!Dash)>>}]
Basic == [name |-> <<"a", "b">>, code |-> <<"b">>]
Listing == [date |-> <<"a">>]

TextJobs ==
  \/ \E client \in Pr!ProfileClients, code \in {Pad(<<6>>), Pad(<<0>>), Pad(<<8>>), <<6>>}, n \in 0..2,
        failing \in SUBSET DOMAIN Texts : \E categories \in [1..n -> Categories] :
       /\ \A i \in 1..n : categories[i].start + categories[i].length <= Len(Texts[Padded(categories[i].file)])
       /\ job' = [job |-> "contents", client |-> client, code |-> code, categories |-> categories, failing |-> failing]
  \/ \E n \in 0..2, m \in 0..1, gap \in 0..2 : \E rows1 \in [1..n -> Rows], rows2 \in [1..m -> Rows] :
       job' = [job |-> "fields", rows1 |-> rows1, rows2 |-> rows2, gap |-> gap]

\* What is encoded is read back.  Responses give back each record they have whole (but for a
\* last index bar of less than 24 bytes), with negative numbers as the unsigned ones the code
\* casts them to.  Of a record that is cut off nothing is returned if fewer bytes of it are
\* there than a record takes (a transaction: one fewer; former minutes: none); otherwise one
\* record may be made up, though the comment at parsers.rs:466 says none is.  Volumes and
\* times keep their value; local files, and the texts of companies, are read whole or refused.
RecordsAreRead ==
  /\ job.job = "parse" =>
       IF job.kind \in R!Single THEN R!ReadsAll(job.kind, job.recs)
       ELSE R!ReadsPrefix(job.kind, job.recs, job.cut)
  /\ job.job = "volume" => R!VolumeIsSingle(job.bytes[1], job.bytes[2], job.bytes[3], job.bytes[4])
  /\ job.job = "servertime" => R!ServertimeIsRead(job.hmf[1], job.hmf[2], job.hmf[3])
  /\ job.job = "blocks" => Fi!BlocksWholeOrRefused(job.blocks, job.cut, job.keyword, 300 :> 5)
  /\ job.job = "daily" => Fi!DailyWholeOrRefused(job.days, job.cut)
  /\ job.job = "minutes" => Fi!MinutesWholeOrRefused(job.bars, job.cut)
  /\ job.job = "reports" => Fi!ReportsWhole(20260331, job.reports, job.cut, Indicators)
  /\ job.job = "contents" => Pr!ContentsWhole(job.client, job.code, job.categories, Texts, job.failing, 3)
  /\ job.job = "fields" => Pr!FieldsRead(job.rows1, job.rows2, job.gap, Basic, Listing)

\* So they are if the server gives less of a content than its category is long.
ContentsAlwaysWhole ==
  job.job = "contents" => Pr!ContentsWhole(job.client, job.code, job.categories, Texts, job.failing, 2)

\* A text with two headings of one number is parsed in one way.
TextsParsedOneWay ==
  job.job = "fields" =>
    Pr!OneParsing(<<Pr!Heading(1, "a")>> \o Pr!RowText(job.rows1, 0) \o <<Pr!Heading(1, "b")>> \o Pr!RowText(job.rows2, 0),
                  Basic, Listing)

-----------------------------------------------------------------------------
(* Funds *)

Prefixes == {<<a, b, c>> : a \in 0..9, b \in 0..9, c \in 0..9}
Listed == {Pad(p) : p \in {<<3, 9, 9>>, <<1, 5, 0>>, <<1, 6, 4>>, <<0, 0, 0>>, <<5, 1, 0>>, <<6, 0, 0>>}}

MCFundCodes == (0..2) \X {Pad(p) : p \in Prefixes}
MCListings ==
  UNION {[market : {0, 1}, list : [1..n -> Listed], total : n..(n + 1)] : n \in 0..5}

\* Everything called a fund is priced as one.
AllFundsArePriced == job.job = "code" => Fund!AllFundsArePriced(job.market, job.code)

-----------------------------------------------------------------------------
(* Adjustment *)

Events == UNION {[1..n -> [date : {1, 2, 3, 5, 6}, category : {1, 2}, usable : BOOLEAN]] : n \in 0..2}
Histories == {<<1, 2>>, <<3>>, <<2, 4, 6, 8>>, <<2, 2, 4, 4, 6>>, <<1, 2, 3, 4, 5>>, <<1, 2, 3, 4, 5, 6>>}

Asked ==
  {q \in [day : Histories, xdxr : Events, start : 0..1, count : 1..3, tier : {"low", "mid", "high"}, failing : 0..1,
          fq : 0..2, eventsFail : {FALSE}] : q.start = 1 => q.fq # 0 /\ q.failing = 0}
MCCalls == [client : {"sync", "async", "direct"}, q : Asked]

\* They are so wherever the bars begin.
AdjustmentAlwaysExact == job.job = "adjust" => Adj!AdjustmentAlwaysExact(job.client, job.q)

-----------------------------------------------------------------------------

MCBegin == job \in [job : {"begin"}, topic : Topics \cup {"parse", "number", "files", "texts"}]

Next ==
  \/ OneInput
  \/ /\ job.job = "begin"
     /\ \/ job.topic = "parse" /\ ParseJobs
        \/ job.topic = "number" /\ NumberJobs
        \/ job.topic = "files" /\ LocalFileJobs
        \/ job.topic = "texts" /\ TextJobs

Spec == MCBegin /\ [][Next]_job
=============================================================================
