------------------------------- MODULE Algorithms ------------------------------
(* The pure parts of the clients whose properties are proved for every input: requests *)
(* and quotes, reading responses off a connection, putting block files together, the   *)
(* clock, funds and adjusted prices.  A behaviour is one input.                        *)
EXTENDS Integers, Sequences

CONSTANTS
  HeaderLen, Margin, AbsLimit, Chunk, \* of Framing
  LastYear,                           \* of Calendar
  Width, MaxQuotes, MaxValidYear,     \* of Requests
  Page, LowPages, AllPages,           \* of Funds and Adjuster
  Frames, Downloads, Moments, FundCodes, Listings, Calls, Asks, Baskets \* the inputs

Fr   == INSTANCE Framing
Cal  == INSTANCE Calendar
Fund == INSTANCE Funds
Adj  == INSTANCE Adjuster
Req  == INSTANCE Requests

\* Codes of any length; the entries of a history of dividends; and what get_security_bars is
\* called with: day is the server's history, of which the dates never descend.
AnyCode == Seq(0..Fund!Nul)
AnyEvent == [date : Nat, category : Nat, usable : BOOLEAN]
AnyCall ==
  [day : Seq(Nat) \ {<<>>}, xdxr : Seq(AnyEvent), start : Nat, count : Nat \ {0}, tier : {"low", "mid", "high"},
   failing : Nat, fq : Nat, eventsFail : BOOLEAN]
AnyStock == Nat \X AnyCode
AnyQuoteServer == [known : SUBSET AnyStock, garbage : AnyStock, order : Seq(AnyStock)]
AnyArguments ==
  [market : Nat, code : AnyCode, category : Nat, start : Nat, count : Nat, date : Nat, today : Nat, file : STRING]
Ascending(day) == \A i, j \in DOMAIN day : i <= j => day[i] <= day[j]

\* A client accepts what a handshake brings, three bytes of content.
ASSUME ParametersAssumption ==
  /\ HeaderLen \in Nat \ {0} /\ Margin \in Nat /\ AbsLimit \in Nat /\ AbsLimit >= 3 /\ Chunk \in Nat \ {0}
  /\ LastYear \in Nat /\ LastYear >= 1970
  /\ Width \in Nat \ {0} /\ MaxQuotes \in Nat \ {0} /\ MaxValidYear \in Nat
  /\ Page \in Nat \ {0} /\ LowPages \in Nat /\ AllPages \in Nat

ASSUME InputsAssumption ==
  /\ Frames \subseteq [client : Fr!Readers, content : Seq(Int), size : Nat, declared : Nat, corrupt : BOOLEAN,
                       cut : Nat, next : Seq(Int)]
  /\ Downloads \subseteq Seq(Int)
  /\ Moments \subseteq [day : Nat, sec : 0..(Cal!OneDay - 1)]
  /\ \A m \in Moments : Cal!BeijingDay(m) < Cal!YearsBefore(LastYear + 1)
  /\ FundCodes \subseteq Nat \X AnyCode
  /\ Listings \subseteq [market : Nat, list : Seq(AnyCode), total : Nat]
  /\ Calls \subseteq [client : {"sync", "async", "direct"}, q : AnyCall]
  /\ \A c \in Calls : Ascending(c.q.day)
  /\ Asks \subseteq [client : Req!Clients, op : STRING, a : AnyArguments]
  /\ \A k \in Asks : k.op \in Req!OpsOf(k.client)
  /\ Baskets \subseteq [client : Req!QuoteClients, stocks : Seq(AnyStock), server : AnyQuoteServer]

VARIABLE job

Topics == {"call", "quotes", "frame", "download", "clock", "funds", "adjust"}

Begin == job \in [job : {"begin"}, topic : Topics]

OneInput ==
  /\ job.job = "begin"
  /\ \/ job.topic = "call" /\ \E k \in Asks : job' = [job |-> "call", client |-> k.client, op |-> k.op, a |-> k.a]
     \/ job.topic = "quotes" /\ \E b \in Baskets : job' = [job |-> "quotes", basket |-> b]
     \/ job.topic = "frame" /\ \E f \in Frames : job' = [job |-> "frame", frame |-> f]
     \/ job.topic = "download" /\ \E file \in Downloads : job' = [job |-> "download", file |-> file]
     \/ job.topic = "clock" /\ \E m \in Moments : job' = [job |-> "clock", moment |-> m]
     \/ job.topic = "funds" /\ \E c \in FundCodes : job' = [job |-> "code", market |-> c[1], code |-> c[2]]
     \/ job.topic = "funds" /\ \E l \in Listings : job' = [job |-> "funds", listing |-> l]
     \/ job.topic = "adjust" /\ \E c \in Calls : job' = [job |-> "adjust", client |-> c.client, q |-> c.q]

Inputs == Begin /\ [][OneInput]_job

-----------------------------------------------------------------------------
(* Properties *)

\* Every call of every client reaches the server as meant and gives its answer to the right
\* parser; malformed codes are refused by the synchronous client; quotes are those the server
\* has of the stocks asked for, each once.  However many are asked for, all are fetched, by the
\* direct and the fund client too, whose comments (direct_client.rs, fund/client.rs) say that more
\* than one request holds are cut off: it is the code this follows (QuotesOfOneRequest fails).
RequestsArrive ==
  /\ job.job = "call" =>
       /\ Req!CallArrives(job.client, job.op, job.a)
       /\ job.client = "sync" => Req!SyncRefusesMalformed(job.op, job.a)
  /\ job.job = "quotes" =>
       LET b == job.basket IN Req!QuotesAsked(b.stocks) /\ Req!QuotesGenuine(b.client, b.stocks, b.server)

\* Every client reads responses off its connection whole, or gets an error and leaves nothing
\* of them behind; block files are put together as they are on the server.
ResponsesComeWhole ==
  /\ job.job = "frame" =>
       LET f == job.frame IN Fr!FramesRead(f.client, f.content, f.size, f.declared, f.corrupt, f.cut, f.next)
  /\ job.job = "download" => Fr!FilesPutTogether(job.file)

\* Today is the date in Beijing, and trading its session.
ClockIsBeijings ==
  job.job = "clock" => Cal!TodayIsBeijings(job.moment) /\ Cal!TradingInSession(job.moment)

\* Funds are priced as funds, and all of them are found in the list of securities.
FundsArePriced ==
  /\ job.job = "code" => Fund!FundsArePriced(job.market, job.code)
  /\ job.job = "funds" => Fund!FundListWhole(job.listing.market, job.listing.list, job.listing.total)

\* Adjusted prices are those of the whole history, where enough of it is fetched.
AdjustmentIsExact == job.job = "adjust" => Adj!AdjustmentExact(job.client, job.q)
=============================================================================
