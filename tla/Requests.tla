-------------------------------- MODULE Requests -------------------------------
(* The requests of the clients (net/client.rs, net/async_client.rs,                    *)
(* net/direct_client.rs, net/finance_client.rs, block/client.rs, net/utils.rs): which  *)
(* calls are refused, the packet each sends, the parser its answer goes to, batches of *)
(* quotes.  The arguments of a call are a record [market, code, category, start,       *)
(* count, date, today, file].                                                          *)
EXTENDS Codes, Parsers

CONSTANTS
  Width,     \* 2^16
  MaxQuotes  \* MAX_QUOTES_COUNT

-----------------------------------------------------------------------------
(* Packets: the declared length and the fields behind it, each with its width *)

Field(width, value) == [width |-> width, value |-> value]

Packet(declared, fields) == [declared |-> declared, fields |-> fields]

\* K-lines of securities and of indices are asked for by the same command.
BarsPacket(a) ==
  Packet(28, <<Field(2, "bars"), Field(2, a.market), Field(6, CodeBytes(a.code)), Field(2, a.category),
               Field(2, 1), Field(2, a.start % Width), Field(2, a.count), Field(4, 0), Field(4, 0), Field(2, 0)>>)

\* A stock is <<market, code>>.
QuotesPacket(stocks) ==
  Packet(7 * Len(stocks) + 12,
         <<Field(4, "quotes"), Field(4, 0), Field(2, 0), Field(2, Len(stocks))>>
         \o FlattenSeq([i \in DOMAIN stocks |-> <<Field(1, stocks[i][1]), Field(6, CodeBytes(stocks[i][2]))>>]))

MutHistoryPacket(op, a) ==
  Packet(13, <<Field(2, op), Field(4, a.date), Field(2, a.market), Field(6, CodeBytes(a.code))>>)
HistoryPacket(op, a) ==
  Packet(13, <<Field(2, op), Field(4, a.date), Field(1, a.market), Field(6, CodeBytes(a.code))>>)

TicksPacket(op, a) ==
  Packet(14, <<Field(2, op), Field(2, a.market), Field(6, CodeBytes(a.code)), Field(2, a.start), Field(2, a.count)>>)

HistoryTicksPacket(op, a) ==
  Packet(18, <<Field(2, op), Field(4, a.date), Field(2, a.market), Field(6, CodeBytes(a.code)), Field(2, a.start),
               Field(2, a.count)>>)

\* get_finance_info, get_xdxr_info.
OneStockPacket(op, a) ==
  Packet(11, <<Field(2, op), Field(2, 1), Field(1, a.market), Field(6, CodeBytes(a.code))>>)

ListPacket(op, a) == Packet(6, <<Field(2, op), Field(2, a.market), Field(2, a.start)>>)
CountPacket(op, a) == Packet(8, <<Field(2, op), Field(2, a.market), Field(4, 0)>>)

\* A file name fills 40 or 100 bytes.
MetaPacket(op, a) == Packet(42, <<Field(2, op), Field(40, a.file)>>)
BlockPacket(op, a) == Packet(110, <<Field(2, op), Field(4, a.start), Field(4, a.count), Field(100, a.file)>>)

-----------------------------------------------------------------------------
(* What a call sends: a packet, or NoPacket if it is refused *)

NoPacket == [declared |-> 0, fields |-> <<>>]
Unless(refused, packet) == IF refused THEN NoPacket ELSE packet

\* K-lines of securities, then of indices.
SyncBars(op, a) ==
  Unless(IsBlockCode(a.code) \/ (op = "bars" /\ ~Strict(a.code)), BarsPacket(a))
AsyncBars(op, a) == BarsPacket(a)
DirectBars(op, a) == Unless(IsBlockCode(a.code), BarsPacket(a))

\* get_minute_time_data asks for the history of today.
StockPacket(op, a) ==
  CASE op = "history_minutes"     -> HistoryPacket(op, a)
    [] op = "minutes"             -> HistoryPacket("history_minutes", [a EXCEPT !.date = a.today])
    [] op = "ticks"               -> TicksPacket(op, a)
    [] op = "history_ticks"       -> HistoryTicksPacket(op, a)
    [] op \in {"finance", "xdxr"} -> OneStockPacket(op, a)

SyncStockData(op, a) == Unless(~Strict(a.code), StockPacket(op, a))
AsyncStockData(op, a) == StockPacket(op, a)
DirectStockData(op, a) == StockPacket(op, a)
FinanceStockData(op, a) == StockPacket(op, a)

MarketPacket(op, a) == IF op = "list" THEN ListPacket(op, a) ELSE CountPacket(op, a)
SyncMarketData(op, a) == MarketPacket(op, a)
AsyncMarketData(op, a) == MarketPacket(op, a)
DirectMarketData(op, a) == MarketPacket(op, a)

FilePacket(op, a) == IF op = "meta" THEN MetaPacket(op, a) ELSE BlockPacket(op, a)
SyncBlockInfo(op, a) == FilePacket(op, a)
DirectBlockInfo(op, a) == FilePacket(op, a)

\* get_block_bars: no K-lines of a minute, and bounds on the others.
KlineLimit(category) ==
  CASE category \in {7, 8}    -> [default |-> 0, max |-> 0]
    [] category \in {0, 1, 2} -> [default |-> 50, max |-> 200]
    [] category = 3           -> [default |-> 200, max |-> 800]
    [] OTHER                  -> [default |-> 100, max |-> 800]

BlockBars(a) ==
  LET limit == KlineLimit(a.category)
      count == IF a.count = 0 THEN limit.default ELSE IF a.count < limit.max THEN a.count ELSE limit.max
  IN Unless(limit.max = 0, BarsPacket([a EXCEPT !.market = SH, !.count = count]))

\* get_fund_*: validated, then the synchronous client's.
FundCall(op, a) ==
  Unless(~IsFund(a.market, a.code), IF op = "bars" THEN SyncBars(op, a) ELSE SyncStockData(op, a))

-----------------------------------------------------------------------------
(* The calls of each client *)

Clients == {"sync", "async", "direct", "finance", "block", "fund"}

StockOps == {"history_minutes", "minutes", "ticks", "history_ticks", "finance", "xdxr"}
OpsOf(client) ==
  CASE client \in {"sync", "direct"} -> {"bars", "index", "list", "count", "meta", "block"} \cup StockOps
    [] client = "async"              -> {"bars", "index", "list", "count"} \cup StockOps
    [] client = "finance"            -> {"finance", "xdxr"}
    [] client = "block"              -> {"index"}
    [] client = "fund"               -> {"bars"} \cup StockOps

Sent(client, op, a) ==
  IF client = "block" THEN BlockBars(a)
  ELSE IF client = "finance" THEN FinanceStockData(op, a)
  ELSE IF client = "fund" THEN FundCall(op, a)
  ELSE
  CASE op \in {"bars", "index"}    -> CASE client = "sync"  -> SyncBars(op, a)
                                        [] client = "async" -> AsyncBars(op, a)
                                        [] OTHER            -> DirectBars(op, a)
    [] op \in {"list", "count"}    -> CASE client = "sync"  -> SyncMarketData(op, a)
                                        [] client = "async" -> AsyncMarketData(op, a)
                                        [] OTHER            -> DirectMarketData(op, a)
    [] op \in {"meta", "block"}    -> IF client = "sync" THEN SyncBlockInfo(op, a) ELSE DirectBlockInfo(op, a)
    [] OTHER                       -> CASE client = "sync"  -> SyncStockData(op, a)
                                        [] client = "async" -> AsyncStockData(op, a)
                                        [] OTHER            -> DirectStockData(op, a)

\* The parser a call gives its answer to.
ParserOf(op, a) ==
  CASE op = "bars"    -> IF OfMinutes(a.category) THEN "minute_bars" ELSE "day_bars"
    [] op = "index"   -> "index_bars"
    [] op = "minutes" -> "history_minutes"
    [] OTHER          -> op

-----------------------------------------------------------------------------
(* External: the server's reading of a packet *)

\* Where a command's arguments are: the number of the field.
Positions ==
  [bars    |-> [market |-> 2, code |-> 3, category |-> 4, start |-> 6, count |-> 7],
   quotes  |-> [market |-> 5, code |-> 6],
   history_minutes |-> [date |-> 2, market |-> 3, code |-> 4],
   ticks   |-> [market |-> 2, code |-> 3, start |-> 4, count |-> 5],
   history_ticks |-> [date |-> 2, market |-> 3, code |-> 4, start |-> 5, count |-> 6],
   finance |-> [market |-> 3, code |-> 4],
   xdxr    |-> [market |-> 3, code |-> 4],
   list    |-> [market |-> 2, start |-> 3],
   count   |-> [market |-> 2],
   meta    |-> [file |-> 2],
   block   |-> [start |-> 2, count |-> 3, file |-> 4]]

\* The bytes of a packet's fields.
Size(fields) ==
  LET sum[i \in 0..Len(fields)] == IF i = 0 THEN 0 ELSE sum[i - 1] + fields[i].width
  IN sum[Len(fields)]

\* The arguments the server finds; nothing in a packet whose length is not as declared.
Asked(packet) ==
  LET cmd == packet.fields[1].value
      at == Positions[cmd]
  IN IF Size(packet.fields) # packet.declared THEN [cmd |-> "garbled", args |-> <<>>]
     ELSE [cmd |-> cmd, args |-> [x \in DOMAIN at |-> packet.fields[at[x]].value]]

\* What it writes in answer: each command has its own layout, K-lines that of the security.
WrittenAs(asked, isIndex) ==
  IF asked.cmd # "bars" THEN asked.cmd
  ELSE IF isIndex THEN "index_bars"
  ELSE IF OfMinutes(asked.args.category) THEN "minute_bars" ELSE "day_bars"

-----------------------------------------------------------------------------
(* Quotes *)

Chunks(seq, n) ==
  [i \in 1..((Len(seq) + n - 1) \div n) |-> SubSeq(seq, (i - 1) * n + 1, IF i * n < Len(seq) THEN i * n ELSE Len(seq))]

\* External: a record for each of the first MaxQuotes stocks that the server answers for, in
\* an order of its own, where stocks may be missing and come twice: the stock's own record if
\* the server knows the code, else one of a garbage stock.
QuotesFor(server, batch) ==
  LET taken == ToSet(SubSeq(batch, 1, IF Len(batch) < MaxQuotes THEN Len(batch) ELSE MaxQuotes))
      answer(s) == LET stock == IF s \in server.known THEN s ELSE server.garbage
                   IN [market |-> stock[1], code |-> stock[2], genuine |-> s \in server.known]
  IN FlattenSeq([i \in DOMAIN server.order |->
                   IF server.order[i] \in taken THEN <<answer(server.order[i])>> ELSE <<>>])

\* get_security_quotes: batches of up to MaxQuotes.
GetSecurityQuotes(server, stocks) ==
  LET batches == Chunks(stocks, MaxQuotes)
  IN FlattenSeq([i \in DOMAIN batches |-> FilterQuotesByRequest(ToSet(batches[i]), QuotesFor(server, batches[i]))])

SyncQuotes(server, stocks) ==
  IF \E s \in ToSet(stocks) : IsBlockCode(s[2]) \/ ~Strict(s[2]) THEN <<>> ELSE GetSecurityQuotes(server, stocks)
AsyncQuotes(server, stocks) == GetSecurityQuotes(server, stocks)
DirectQuotes(server, stocks) ==
  IF \E s \in ToSet(stocks) : IsBlockCode(s[2]) THEN <<>> ELSE GetSecurityQuotes(server, stocks)
InShanghai(stocks) == [i \in DOMAIN stocks |-> <<SH, stocks[i][2]>>]
BlockQuotes(server, stocks) == GetSecurityQuotes(server, InShanghai(stocks))
\* get_fund_quotes.
FundQuotes(server, stocks) ==
  IF \E s \in ToSet(stocks) : ~IsFund(s[1], s[2]) THEN <<>> ELSE SyncQuotes(server, stocks)

\* A FinanceClient has no quotes.
QuoteClients == Clients \ {"finance"}

Quotes(client, server, stocks) ==
  CASE client = "fund"  -> FundQuotes(server, stocks)
    [] client = "sync"  -> SyncQuotes(server, stocks)
    [] client = "async" -> AsyncQuotes(server, stocks)
    [] client = "block" -> BlockQuotes(server, stocks)
    [] OTHER            -> DirectQuotes(server, stocks)

-----------------------------------------------------------------------------
(* Properties *)

\* The arguments a call is about: those of get_block_bars are bounded.
Meant(client, op, a) ==
  CASE op = "minutes"   -> [a EXCEPT !.date = a.today]
    [] client = "block" -> [a EXCEPT !.market = SH, !.count = IF @ = 0 THEN KlineLimit(a.category).default
                                                              ELSE IF @ > KlineLimit(a.category).max THEN KlineLimit(a.category).max ELSE @]
    [] OTHER            -> a

\* A call reaches the server as it was meant, every argument in the field the server looks
\* for it in, and gives the answer to the parser of the layout the server writes.
Arrives(client, op, a) ==
  LET asked == Asked(Sent(client, op, a))
  IN /\ asked.cmd # "garbled"
     /\ \A x \in DOMAIN asked.args : asked.args[x] = Meant(client, op, a)[x]
     /\ ParserOf(op, a) = WrittenAs(asked, op = "index")

Refused0(client, op, a) == Sent(client, op, a) = NoPacket

\* So does every call with a well-formed code that is no block's; a block's K-lines are
\* refused by the synchronous and the direct client, and those of a minute by the block
\* client; the fund client refuses what is no fund.
CallArrives(client, op, a) ==
  LET refused == \/ client \in {"sync", "direct"} /\ op \in {"bars", "index"} /\ IsBlockCode(a.code)
                 \/ client = "block" /\ a.category \in {7, 8}
                 \/ client = "fund" /\ ~IsFund(a.market, a.code)
  IN Strict(a.code) /\ a.start < Width =>
       IF refused THEN Refused0(client, op, a) ELSE Arrives(client, op, a)

\* A malformed code is refused, never sent to a server cut off or filled up (comment of
\* code_bytes_strict).
MalformedRefused(client, op, a) ==
  op \in StockOps \cup {"bars", "index"} /\ ~Strict(a.code) => Refused0(client, op, a)

\* That is so for the synchronous client's calls but get_index_bars.
SyncRefusesMalformed(op, a) == op # "index" => MalformedRefused("sync", op, a)

\* A request for quotes asks for every stock, in a packet of the declared length.
QuotesAsked(stocks) ==
  LET p == QuotesPacket(stocks)
      asked(i) == <<p.fields[3 + 2 * i].value, p.fields[4 + 2 * i].value>>
  IN /\ Size(p.fields) = p.declared
     /\ p.fields[4].value = Len(stocks)
     /\ \A i \in DOMAIN stocks : Strict(stocks[i][2]) => asked(i) = stocks[i]

\* The stocks a client asks for, and those it takes: well-formed ones of its kind.
StocksOf(client, stocks) == IF client = "block" THEN InShanghai(stocks) ELSE stocks
Takes(client, stocks) ==
  \A s \in ToSet(stocks) :
    /\ Strict(s[2])
    /\ client \in {"sync", "direct"} => ~IsBlockCode(s[2])
    /\ client = "fund" => IsFund(s[1], s[2])

\* Of different stocks those are returned that the server knows and answers for, each once and
\* with its own data, whatever it leaves out, reorders or sends twice; in the order asked for if
\* it keeps that order.  Nothing else is returned, as long as the garbage of unknown codes is of
\* no stock asked for.
QuotesGenuine(client, stocks, server) ==
  LET asked == StocksOf(client, stocks)
      got == Quotes(client, server, stocks)
      of(i) == <<got[i].market, got[i].code>>
  IN /\ Takes(client, stocks)
     /\ \A i, j \in DOMAIN asked : asked[i] = asked[j] => i = j
     /\ server.garbage \notin ToSet(asked)
     => /\ {of(i) : i \in DOMAIN got} = ToSet(asked) \cap server.known \cap ToSet(server.order)
        /\ \A i \in DOMAIN got : got[i].genuine
        /\ \A i, j \in DOMAIN got : i < j =>
             /\ of(i) # of(j)
             /\ server.order = asked => \E k, l \in DOMAIN asked : k < l /\ asked[k] = of(i) /\ asked[l] = of(j)

\* So are they whatever the server returns for the unknown ones.
QuotesAlwaysGenuine(client, stocks, server) ==
  LET got == Quotes(client, server, stocks)
  IN \A i \in DOMAIN got : got[i].genuine
=============================================================================
