# TLA+ models of tdxrs

tdxrs (`src/`) is a Rust library with Python bindings that reads market data
from TDX quotation servers. This directory models it in two ways. Where several
things happen at once or fail half-way (the connection pool, the clients and
their heartbeats, the limiter and the caches, paging over servers that change,
the finance client's download and disk cache, the downloader and its files) a module is a state machine. Where
the code computes (packets, parsers, framing, files, calendars, codes, price
adjustment) a module is a set of operators, checked against what the servers
write or against a reference definition.

Run a configuration with `tlc -config X.cfg M`, where `M` is the `MC` module the
name of the cfg begins with; check the proofs with `tlapm M_proofs.tla`.

## 1. Inventory of the system

| Component | Source | State it keeps | Operations | Modelled |
|---|---|---|---|---|
| Connection pool | `net/pool.rs`, `net/connection.rs` | idle queue, `active`, `total` behind one mutex; a `healthy` flag per connection | `borrow`, `try_borrow`, `push`, `close_all`, guard drop | `ConnectionPool`, `PoolLedger`, `ConnectionPool_proofs` |
| Synchronous client: connections | `net/client.rs` | pool (behind a mutex of its own), `connected`, `last_server`, heartbeat stop flag and join handle, blacklist, user's server list | `connect`, `connect_to_any`, `disconnect`, requests with retry, heartbeat thread | `HqClient`, `HqClient_proofs`; the lists in `ServerList` |
| Asynchronous client: connections | `net/async_client.rs` | list of connection channels, `current_server`, `connected`, stop sender of the heartbeat; per connection a task with a channel and a stream | the same as tokio tasks | `AsyncClient`, `AsyncClient_proofs`; its lists in `ServerList` |
| Paging | `client.rs`, `async_client.rs`, `net/utils.rs` | none; it runs while servers change and bars arrive | `get_security_bars(_all)`, `get_index_bars(_all)`, the context of adjustment | `BarPaging` over `ServerList`, `BarPaging_proofs`; `Adjuster` |
| Rate limiter, trading phase | `net/utils.rs` | last request, interval, base rate, phase | `wait`, `set_rps`, `set_phase`, `detect_trading_phase`, `today_yyyymmdd` | `Throttle`, `Calendar`, `Utils_proofs` |
| Caches of the clients | `client.rs`, `async_client.rs` | list and count caches with a time to live | look-up, insertion after the answer, clearing by `connect` | `Throttle`, `Utils_proofs` |
| Smart client | `net/smart_client.rs` | cache file (`last_success`, `blacklist`, failure streaks), `current_server`, `health_checked`, an inner synchronous client | `connect_to_any`, requests with health check and failover, `probe_and_cache`, `clear_cache` | `SmartClient`, `SmartClient_proofs` |
| Direct client | `net/direct_client.rs` | its tier only | every request over a connection of its own | `Requests`, `Framing`, `Adjuster`, `Utils_proofs` |
| Finance client | `net/finance_client.rs` | disk cache of report files | chunked download, cache get and put, reports | `FinanceCache`, `FinanceCache_proofs`; `Requests`, `Framing`, `Files` |
| Adjuster | `protocol/adjuster.rs`, `protocol/fq_service.rs` | none | adjustment factors and adjusted bars | `Adjuster`, `Utils_proofs` |
| Parsers, requests | `protocol/parsers.rs`, `helpers.rs`, `net/packet.rs`, builders in `net/utils.rs` | none | byte layouts, variable-length integers, packets | `Wire`, `Parsers`, `Responses`, `Requests`, `Framing`, `Utils_proofs` |
| Types and constants | `protocol/types.rs`, ... | none | classification of codes, coefficients, indicators | `Codes`, `Files`, `Utils_proofs` |
| Block files | `block/`, `reader/block.rs` | parsed blocks | download in parts, file format, queries | `Files`, `Framing`, `Utils_proofs` |
| Local file readers | `reader/` | none | daily and minute bars, financial reports | `Files` |
| F10, profiles | `net/f10_client.rs`, `profile/` | none | categories, contents, fields out of a text | `Profiles` |
| Funds | `fund/` | none | which codes are funds, list of funds, quotes and bars | `Funds`, `Codes`, `Requests`, `Utils_proofs` |
| Downloader | `python/tdxrs/downloader.py` | output files, sync record (on disk and in memory), checkpoint file | `run`, `update`, resumption | `Downloader`, `Downloader_proofs` |
| Python bindings | `src/python/` | a client each | one method per client method | no (conversion only) |
| Command line, logging, error texts | `python/tdxrs/cli.py`, `logging.rs`, ... | none | output | no |

How they interact: a synchronous request waits in the limiter, locks the client's
pool mutex, borrows a guard from the pool, does its I/O on it and drops it; its
answer is parsed and, for lists and counts, put into a cache. The heartbeat is a
thread of the same client; it borrows through the same mutex but does its I/O
without it, and on a dead line empties the pool, dials other servers, pushes a
connection and rewrites `last_server` and `connected`. An asynchronous request is
put into the bounded channel of one of the connection tasks and waits on a
oneshot. A paged call is a sequence of requests, between which the client may be
moved to another server by its heartbeat, its retries or an empty answer. The
smart client calls the synchronous client and keeps a `current_server` of its own
that the inner client knows nothing of. The finance client shares its directory
with every other process that uses it. The downloader is Python over direct clients: it writes bars, the
sync record and the checkpoint one after the other, and a later run reads what an
earlier one left.

What is hard: counters changed on both sides of an unlocked dial; a heartbeat
that is joined, or told to stop and not joined, while it repairs the connection;
state spread over five mutexes and atomics that `connect` and `disconnect` change
one at a time; answers that come after their request timed out, or after the
cache they go into was cleared; channels and pools at their capacity; pages
counted from an end that moves; a file emptied and filled in two steps while
others read it; files written in turn, with a crash between any two; guards of the parsers, which must fit records without a fixed
length; adjustment computed from a part of the history. `PROJECT.json` lists each
hazard at its line.

What makes each component correct:

- pool: counters exact, at most `max_size` slots, refusals only when all of them are
  taken, no broken or foreign connection handed out;
- clients: `disconnect` is final, a connected client is watched by a heartbeat
  in reach, calls return, a dead server is left, a request gets its own answer;
- smart client: bans are earned, held and charged to the right server, and never
  amount to a refusal of service;
- limiter and caches: requests spaced by the interval in force; what is answered
  is, in the end, the present server's;
- paging: the pages fit together; one server without data does not cost the data;
- finance client: what is cached or returned is not displaced, mixes versions only as replaced
  and overwritten files do, and in the end is the whole file, or its first four chunks;
- downloader: a file in order stays in order while what is new fits into a page, and never loses
  a bar; what a crash leaves is made up for by later runs;
- algorithms: whole responses give back what was written, broken ones at most a
  beginning of it; requests mean what was called; adjusted prices are those of the
  whole history.

## 2. Modules

### ConnectionPool, PoolLedger

`ConnectionPool` has one action per critical section of `pool.rs`: `borrow` is
`TakeIdle`, `ReserveSlot` or `Exhausted` (with the eviction of connections to
other servers each of them begins with), and after a reservation `Dialled` or
`DialFailed`, any step of other threads in between. `IoError` lowers a
connection's `healthy`, `Return` is the guard's drop with `return_connection`,
`Push` and `CloseAll` are the client's calls. `active` and `total` are numbers
with the code's saturating subtractions. The idle `VecDeque` is a set, as nothing
observes its order.

`PoolLedger` is what the pool promises: it counts the connections themselves.
`ConnectionPool!LedgerSpec` is its instance under the refinement mapping written
there; TLC checks it in the run `pool`, TLAPS proves it (`ImplementsLedger`).

### HqClient

The synchronous client over an instance of `ConnectionPool`. A user's call and
the heartbeat are sequences of the steps between which the code holds no lock
another thread needs; `poolLock` is the client's mutex on its pool, held by a
request from borrow to answer. `Connect` ... `Confirm` are
`connect_internal` and `start_heartbeat`, `TakeStop`, `TakeHandle`, `Join` are
`stop_heartbeat`, `Beat*` the heartbeat thread. The steps on the pool are the pool
module's own actions, conjoined with the client's; that each is taken with a thread at the place the
pool has it at (the lemma `ImplementsPool`) carries what is proved of the pool over into
the client.

Abstractions: PRIMARY and ALL_KNOWN servers are one set, scanned in any order (which
of them are tried, and the blacklist, are in `ServerList`); the caches and the rate
limiter are in `Throttle`, the contents of requests in `Requests`; whether `auto_retry` is set, and whether an error is
retryable, is left open at each failure.

### AsyncClient

One step per stretch between two awaits at which another task can interfere.
`link[c]` is a connection task: its channel, the request it serves and `owed`,
the answers its stream will still carry, in order. `TaskReads` takes the next
answer of the stream whatever request it belongs to, as `send_and_recv` does;
`TaskFails` is an I/O error or the 30 s timeout, after which the answer may still
come. A timeout in the middle of a body leaves the stream displaced; that is
represented by the late answer too. Which connection the round robin points at is
left open. A sender that is dropped closes its channel (`HasSender`) and stops its
heartbeat (`Keep`), as tokio does.

### SmartClient

One step per section of the cache mutex, per dial and per request. Each section
ends with `save`, so the cache file is not a variable: `Restart` keeps the cache,
or loses it to a torn write. A failed write of the file is not modelled. There is no
clock: a ban may expire at any time (`Expire`), which covers every order of
expiries and a clock that jumps. The inner client is its server, its flag, and the ways
in which they change without the smart client: the heartbeat's failover
(`InnerFailsOver`), a reconnecting retry and the server changes of a daily K-line
request that is answered with nothing (`Answering`). Latencies and success
counts decide nothing and are left out.

### ServerList, BarPaging

`ServerList` is about *which* server is dialled next, for both clients (`kind`): the
last server, the user's list, `PRIMARY_SERVERS`, `ALL_KNOWN_SERVERS`, minus the
blacklist where the code looks at it. A scan over these lists (`Reach`) is one step: it
ends at the first place of the list whose server answers and is not passed over (`Answering`),
as `HqClient` and `AsyncClient` have the steps of a connect. Servers come and go, and
some answer K-line requests with nothing (`empty`).

`BarPaging` adds a paged call. A bar is its number, 1 the oldest; `top` is the newest
and grows by at most `MaxNew` while the call runs. A request and its answer are one step; between two of
them everything else happens. `start` is truncated to `Width` in the packet, as
`build_security_bars` truncates it to 16 bits; the loop's own counter is wide. On an
empty daily page the synchronous client moves to another server and asks again; the
asynchronous one does not. `calm` says that no bar arrived and no
server went down or came back during the call. What the properties rest on (`PagingInv`,
`FitInv`, `OrderInv`, `SurvivalInv`) is at the end of the module.

### Throttle, Calendar

A request's way out: look-up in the cache, limiter, request, insertion. `owner` is the
limiter's mutex, which `wait` keeps while it sleeps and which the setters have to wait
for. Time is in ticks; only the span since the last request (`since`), what is left
of each sleep and of each entry's life are kept, each capped where it no longer
decides anything. Both limiters are modelled (`kind`): the synchronous one, which
computes the interval from base rate and phase, and the asynchronous one.
`Calendar` is `today_yyyymmdd` and `detect_trading_phase` for any day and second.

### FinanceCache

A report file is a sequence of cells, each with the version of the file it is of and
its place in it, so that a part, a mixture of two versions and a displaced chunk can
be told apart. Files may be longer than `MaxPages` chunks (the code's four of 30 KB, at which a
download without the size ends, `finance_client.rs:251`; report files are longer), so that what such a
call returns and caches is the beginning of one. A download is one step per chunk; the answer may be short
(`DownloadShort`) or fail. `fs::write` is two steps (`Truncate`, `Write`) and may stop in
between or half-way (`WriteTears`). The server may replace the file (`Replace`), the
clock passes (`Tick`) or steps back (`StepBack`). Callers are threads or processes that
share the directory: the code keeps nothing else between calls.

### Downloader

A call of `run` or `update` is a sequence of steps: the list of stocks, each page, each
write of a file (bars, sync record, checkpoint). Between two of them, or in the middle of
a write, the call may end, by an interrupt that leaves the `Downloader` object (`memory`,
`counter`) or with the process. A torn `.day` file has some whole records (the buffer that is
written out holds 256 of them, exactly), a torn parquet or JSON file cannot be
read. An error within a stock is caught and the next stock's turn comes. The checkpoint
may be a day old at any time (`Expire`). A bar is its number; its date decides whether
it is newer than a file, and `PerDay[job]` bars of a category have the same one: 1 for days and
longer, more for minutes. `Every` and `SyncEvery` are
the code's 50 and 100, `Page` its 800. One market stands for all; the direct client
beneath is `Bars`.

### Wire, Parsers, Responses, Framing

`Wire` reads fields from a body, a sequence of bytes: little-endian integers, the
variable-length integer of `get_price`, the volume's float, dates. A record is read by
its layout, guarded by the number of bytes the parser asks for. `Parsers` has a
parser per function of `parsers.rs`; `Responses` encodes records the way servers do
and states that parsing a whole response gives back the records (`ReadsAll`) and
parsing one cut off gives the first of them (`ReadsPrefix`): those that are whole and at most one made up behind them, which takes as many bytes as a record has at
least. Where a guard does not fit its record (index bars, transactions, former minutes) it says how
far off it is. Names and codes are
numbers, prices stay integers in units of their coefficient and floats their raw bits. The casts of the
code are what they do: a negative value `as u32` comes out near 2^32 (`AsU32`), the last
reversed field of a quote goes through 16 bits (`AsI16`).

`Framing` reads a response off a stream: header, body, inflated if its two sizes
differ. A deflated byte stands for the whole content, so that a truncated or foreign
body is recognised. Each client has its own `send_and_recv` with its own limits. Block
files, which are put together from parts of the sizes asked for, are here as well.

### Requests, Codes, Files, Profiles, Funds, Adjuster

- `Requests`: per client and operation, what is refused, the packet (its declared length and its fields,
  each with a width) and the parser; batches of quotes and what is filtered from their answers. The server
  reads each command's arguments at their fields and writes the layout of the command and its category.
  To a packet for quotes it may answer with fewer records, in another order, with one several times and,
  for codes it does not know, with made-up ones.
- `Codes`: a code is six digits, letters or other bytes; classification of funds,
  blocks and kinds of securities, and their price coefficients.
- `Files`: block files, daily and minute bars, financial reports byte by byte, and the
  queries over blocks.
- `Profiles`: categories and contents as F10 and profile clients read them, and the
  fields read out of a text. Sections are found through a `HashMap`, whose order is a
  choice of any order.
- `Funds`: the list of funds, page by page.
- `Adjuster`: a bar is its number, an event a date, a category and whether its factor is
  usable. A factor is the event and the bar its close was taken from; an adjusted price
  is the sequence of factors it is multiplied by, so that a missing, doubled or wrongly
  anchored factor shows. The context each client fetches (pages of older bars) is part of it.

### Algorithms

`Algorithms` instantiates the pure parts that are proved about (`Requests`, `Framing`, `Calendar`,
`Funds` with `Codes`, `Adjuster`). A behaviour of `Inputs` is one input, of any length: a job is chosen, and the
properties relate what the code makes of it to what it should be. What the inputs are is
assumed by name (`InputsAssumption`). `MCAlgorithms` extends it with the modules that are
only model-checked (`Responses` over `Parsers`, `Files`, `Profiles`) and gives every kind of
input a finite set; TLC evaluates the assumptions on them.

`Adjuster!DetectedTierReaches` is stated for a whole page of bars, or a history longer than a
page: the context begins one page behind the newest bar whatever the bars asked for, so with
fewer bars and a history that ends within that page nothing is fetched, and bars between the
two are missing (`AdjustmentAlwaysExact` in section 4).

## 3. Runs

| Run | Shows | Bounds |
|---|---|---|
| `pool` | exact counters, guards of the right server, no broken idle connection, refusals only when full, the ledger | 3 threads, 2 servers, pool of 2, pushes up to 4 counted connections |
| `hq_one` | `disconnect` is final, a connected client has one heartbeat in reach, calls return | 1 caller, 2 heartbeats, 2 servers, pool of 2, 1 retry |
| `hq_failover` (violation) | the client stays at a dead server | as `hq_one` |
| `async_one` | `disconnect` is final, connections of one server only | 1 caller, 2 heartbeats, 2 servers, 2 connections with channels of 1, 1 retry |
| `async_live` | calls return although servers need never answer; a client without connections finds out | 1 caller, 1 heartbeat, 2 connections |
| `async_race` | no orphaned heartbeat, requests in flight in one place, a connected client is watched while no other call runs beside a `disconnect` | 2 callers, 2 heartbeats, 1 server, 1 connection |
| `smart` | bans are earned, nobody is refused untried, the dead server is forgotten, a banned server that is up is reached again | 1 caller, 2 servers of which 1 primary, streak of 2, 2 attempts |
| `paging` | pages fit together while the market moves and servers change; a server that answers with nothing is survived | both clients, 3 servers (2 primary, all known), user's list empty or one server, pages of 2, 16-bit offsets as 6, calls for 3 or 5 bars, up to 5 bars of which 1 arrives during a call, 1 empty server |
| `throttle` | requests are spaced, the interval is that of rate and phase, cached answers settle on the present server | both limiters, 2 threads, 2 servers, a second of 4 ticks, rates 0, 1 and 5 a second, lifetimes of 1 and 2 |
| `finance` | what is cached or returned has each cell in its place, versions mix only as replaced and overwritten files do; in the end it is the whole, or the chunks a call without the size asks for | 2 callers, chunks of 2 cells, 2 of them at most, files of 5 and 3 cells, lifetime of 1, 2 faults |
| `downloader` | files in order stay in order, nothing in them is lost, every stock is brought up to date in the end | 2 stocks, calls for a category of days or for it and one of two bars a day, over the market's list or the recorded stocks, pages of 2, up to 3 bars, checkpoint with each stock, sync record with every second, 1 fault, `.day` and parquet, adjusted or not |
| `algorithms` | responses are read, requests arrive as meant, files and texts are read whole or refused, the clock is Beijing's, funds are found and priced, adjustment is exact | 678,024 inputs, see below |

`TypeOK` of `HqClient`, `AsyncClient`, `SmartClient`, `BarPaging`, `Downloader` and `FinanceCache`, and the
inductive invariants of section 5, hold as well when they are added to the invariants of the runs; these
are left to the properties that relate parts of the state. Two configurations are kept for instances too
large for a run: `MCHqClient_two` (`RoomForRequests` with two callers) and `MCAsyncClient_conns`
(`ConnsOfCurrent` with two callers, two servers and two connections) pass. In section 4 the
first is given another property.

Every property is also checked to be falsifiable: `PROJECT.json` "mutants" names for
each a plausible bug (the `Mut*` operator before the definition it replaces)
under which TLC finds it violated.

### Bounds, and why they are enough

- `Beats`, `ConnIds` are identities, used again once a thread, task or connection is
  gone; they bound how many exist at once. Two heartbeats are an old one that is
  still ending and a new one; `Spawn` waits when a third would be needed.
- `MaxTotal` (pool) stops `push` once so many connections are counted; one more than
  `max_size` is enough for the case the code does not check, a push into a full pool.
- `Retries`, `MaxRetry`: one retry (two attempts) shows what an attempt leaves for the
  next; the code's four repeat that.
- `Cap` = 1 makes channels full, the code's 64 would need 64 requests in flight.
- `MaxOwed` is the number of late answers one stream may carry before it breaks. The runs have 0,
  as none of their properties is about whose answer it is; with 1, `MCAsyncClient_late` shows how
  answers are mixed up (section 4).
- `Streak` = 2 has servers with no, some and enough failures in a row.
- In `async_race` there is one connection identity: a connect dials once the task of
  the old connection has ended, or fails. Which connections stand beside each other is asked in
  `async_one`, which has two of them and two servers.
- `pool`: three threads in a pool of two, so that a refusal may be right, and may be the
  fault of a slot that was not given back.
- `paging`: two whole pages and a short one, the history shorter, as long and longer
  than what is asked for; one bar that arrives during a call, which is what the order of the
  pages allows for (section 4); three servers, so that a blocked, an empty and a good one
  exist at once. `Width` = 6 is above every offset a call reaches by itself: the
  code's pages end before 65536 as well (a caller may still ask for such a start).
- `throttle`: an interval of one tick, of several, and a rate above one request a
  tick, which rounds to one; a lifetime shorter and one longer than the span between two calls.
- `finance`: a file longer than the chunks a call without its size asks for, which ends within a
  chunk, replaced by one that is shorter than they are; two faults let a torn write meet a short download.
- `downloader`: histories shorter than a page, as long and longer (three bars: a page with the newest two,
  and an older one behind it), that grow while calls run; a day that a write ends in the middle of. One
  fault cuts a call off, which the next resumes. Larger instances pass as well: with calls that name the stocks in
  another order (`MCGiven`; 3.1 million states, some four minutes), and with these and 2 faults for histories
  up to a page (1.1 million states).
- `algorithms`: responses of up to two records of each kind, cut by up to seven bytes
  (more than the difference of any guard to the record it guards); variable-length
  integers of one to three bytes and both signs; streams of up to five bytes, deflated or not, cut
  or corrupted; every operation of every client on well-formed and malformed codes; up to
  three quotes in batches of two; block files of up to eight parts; a thousand code
  prefixes on three markets; dates around the ends of months, leap days, weekends; up
  to two blocks, days and reports; up to two events on, before, between and behind the bars.

### Fairness

`HqClient!FairSpec`: every thread that can take a step takes one (weak fairness), which
covers dials and reads because they have timeouts. `AsyncClient!FairSpec`: the runtime polls tasks that
are ready and fires timers; tokio's mutexes are first-come-first-served, so a
heartbeat obtains the list of connections (strong fairness). Nothing is assumed of
servers: they need not answer, come back or stay. `SmartClient!FairSpec`:
callers' threads run. `Reconnects` states what else it needs in its premise: one
server up for good, the caller calling again and again, no expiry.
`Throttle!FairSpec`: time passes, and threads behind the limiter go on, as requests
end by answer or timeout; nothing is assumed of the limiter's mutex. Its
property `SettlesOnServer` assumes that the client stays with a server from some time on.
`FinanceCache!FairSpec`: callers ask again, requests return and time passes; faults are
bounded by `MaxFaults`, so they end. `WholeAtLast` allows for one thing that does not
end: another process about to write has emptied the file at the moment a call reads it, so a
single call may get nothing; it says that nothing *else* than the whole (or its first
`MaxPages` chunks, if it is longer) is returned for ever, and that somebody is always given it. The size a caller passes is that
of the server's present list.
`Downloader!FairSpec`: a process goes on with its call. `CatchesUp` has in its premise that
somebody downloads the market again and again; faults are bounded by `MaxFaults`.

## 4. What the code does otherwise than it says

The run `hq_failover` expects a violation:

- `hq_failover`: once a failed request has removed the connection from the pool, the
  heartbeat's `try_borrow` has to dial the dead server itself, its error is passed over by
  `if let Ok(Some(..))`, and nobody lowers `connected` or tries another server.

The configurations below are kept beside the runs; TLC finds the property each of them
names violated. The text each contradicts is in `PROJECT.json` "findings" where there is one.

| Configuration | Property | What happens |
|---|---|---|
| `MCAsyncClient_late` | `AnswersMatch` | after a timeout the task goes on with the same stream; the next request reads the answer to the one before |
| `MCAsyncClient_late` | `BusyIsSkipped`, as its property | `try_send` on a full channel evaluates to "not alive", where the comment says that the heartbeat skips |
| `MCAsyncClient_unwatched` | `ServerRemembered`, as its invariant | a disconnect during a connect forgets the server of live connections |
| `MCAsyncClient_unwatched` | `ConnectedIsWatched`, two callers | a disconnect between the two steps of `start_heartbeat`: `connected` is raised after it, with nothing behind it. Nothing else does this (`WatchedIfAlone`) |
| `MCHqClient_two` | `HeartbeatsInReach`, as its invariant | two connects at once leave a heartbeat that no disconnect stops |
| `MCSmartClient_blame` | `BlamesTheRightServer` | `current_server` is where the smart client last dialled, not where the inner client is: a daily request answered with nothing moves the inner client, and the old server is banned |
| `MCSmartClient_blame` | `AnomalyIsRecorded`, as its property | a protocol anomaly of a server already banned for its failures leaves the entry as it is, and the next success lifts it |
| `MCDownloader_given` | `SkippedWereTried` | a run over given codes leaves a checkpoint behind which a run over the market resumes, skipping stocks nobody has processed |
| `MCFinanceCache_whole` | `OnlyWholeFiles` | a download without the size ends after four chunks, one that is cut short where it is, and half a write leaves half a file: each is cached and returned as the file; size and hash are not compared |

These properties are violated with other constants, or when given in place of those of
`MCHqClient_one.cfg`, `MCBarPaging.cfg`, `MCThrottle.cfg` and `MCDownloader.cfg`:

- `ConnectLands` (synchronous client): the old heartbeat's failover overrides the server that
  `connect` has stored, and `connect` returns success.
- `PagesFit` (paging, with `MaxNew` = 2): two bars that arrive during a call of the synchronous client
  shift its later pages by two; a bar that is then in two pages need not stand beside its
  other copy, so the result is not ascending. No bar is missing (`NoneMissing`) up to a page of new ones.
- `AllAscending` (paging): the asynchronous `get_security_bars_all` appends older pages behind newer ones.
- `BlockedNeverChosen` (paging, a PROPERTY): reconnect and heartbeat dial blocked servers.
- `AsyncPhaseKept` (throttle): the asynchronous client's `set_rate_limit` drops the phase; its base
  rate (20 a second) and its first interval (20 ms) disagree.
- `AnswersOfServer` (throttle, a PROPERTY): an answer on its way when `connect` clears the caches is
  inserted afterwards; a failover clears nothing.
- `NoBarTwice` (downloader): pages are appended newest first, so a file of
  several pages ends with its oldest page; the next update takes that for the last date and
  appends newer bars again. `FilesInOrder` therefore asks only for files that fall behind by at
  most a page.
- `UpdatesReachAll` (downloader, a PROPERTY): sync records of up to 99 stocks are lost in a crash;
  `update` without codes never downloads these stocks again, although their files are there.
- `CatchesUp` (downloader, asked of the category of two bars a day as well): newer means of a later day, so
  the rest of the day a file ends with is passed over. `InOrder` allows for these rests.

These invariants of `MCAlgorithms` are violated when given in place of those of its cfg:

- `IndexBarsAreRead`: the guard of index bars is 24 where a record may have 20 bytes: the last
  bar is dropped.
- `NothingForged`: the guard of transactions is 6 where a record has at least 7 bytes, and former minutes have
  none; and no guard knows the length of a record that has variable-length fields: a response cut off ends with a
  record made up.
- `EqualSizesInflated`: a deflated body exactly as long as its content is taken as it is.
- `MalformedRefused`: the asynchronous, direct and finance clients, and the synchronous
  `get_index_bars`, cut malformed codes to six bytes.
- `QuotesAlwaysGenuine`: a record the server makes up may carry a code that was asked for
  and replace its quote.
- `QuotesOfOneRequest`: the direct and the fund client return the quotes of any number of stocks in batches; their
  comments say that what is above 60 is cut off.
- `ShortPartsNoticed`: a part of a block file that comes back short shifts the parts behind it.
- `ClosedAtWeekend`: the day of the week is that of UTC, so from midnight to eight in Beijing
  the phase is that of the day before: closed on Monday, before the session on Saturday.
- `ContentsAlwaysWhole`: the length of an F10 content is not compared with what was asked for;
  categories that fail are left out silently.
- `TextsParsedOneWay`: two sections of one number in a text are read in an order that a
  `HashMap` chooses.
- `AllFundsArePriced`: `get_security_type` and `classify_code` differ on the prefixes 52, 55 and
  56; the fund client refuses 56 and 58.
- `AdjustmentAlwaysExact`: the context ends with the page that reaches the day of the first
  event itself (`first_bar_date <= ee_date`, `net/utils.rs:508`, `537`), so the close
  before it may be missing; it always begins 800 bars back, whatever the bars' own start and count;
  the `*_all` methods adjust each page by itself; of several events on one date one
  path multiplies and the other overwrites.

`FundListAlwaysWhole` (`Funds`) fails as well: `get_fund_list` stops before the last page once it is
behind the codes of funds.

Seen while modelling, and in the modules as the code has it: if `get_xdxr_info` fails, bars are
returned unadjusted without an error (`client.rs:875`); retries do not pass the limiter; a start of
65536 or more is truncated; a body of 13 bytes with a count of 0 is refused for minutes; a block of
more than 400 stocks is read into the next block's header; a size of the inflated body that differs
from the declared one is only logged; the direct and asynchronous clients have no limit on declared
sizes; docs say that more than 60 quotes are truncated, the code batches them; the downloader takes an
empty answer to a later page for the end of the history, and the older bars are never
downloaded for an unadjusted file, which is only appended to; a parquet table that cannot be read is
replaced by the increment; a list of stocks that cannot be fetched overwrites the checkpoint;
the running day's bar stays as it was first downloaded.

## 5. Proofs

`ConnectionPool_proofs` proves, for any finite sets of threads, servers and connections
and any sizes (`PoolAssumption`), that the pool's properties hold in every reachable
state: `TypeCorrect`, `CountersExact`, `GuardsMatchServer`, `NoBrokenIdle`,
`RefusalsAreReal` (whenever a borrow would be refused, `max_size` threads dial or hold a guard, so no
leak refuses for ever), and that it implements the ledger (`ImplementsLedger`).

None of them is inductive alone. `Accounting` says `active` = number of busy
threads and `total` = that plus the number of idle connections. It is preserved only if a
guard's connection is not also idle and no two guards share one, else returning one
would change the sets by another amount than the numbers; that is `GuardsOwn`. A
connection may only be returned to the queue healthy if every broken one is still in
a guard: `BrokenInUse`. `IInv` is the conjunction with types and `ServerMatch`;
`Inductive` proves it from one lemma per conjunct and one step per action. Under
`Accounting` no subtraction saturates (`SatSubExact`), which is why the saturating
subtractions hide nothing. The refinement follows: under `IInv` each pool step is a
ledger step or a stutter (`LedgerStep`).

`Utils_proofs` proves, for any threads, servers, rates and lifetimes
(`ThrottleAssumption`): `TypeCorrect`, `IntervalAlwaysInForce` and `AlwaysSpaced`. Distance is not
inductive by itself: a thread that has slept stamps the time and goes, so its sleep must have
been long enough for the interval in force *now*. `SleepsLongEnough` says so: only
the holder of the mutex sleeps, and the time since the last request plus what is left of its
sleep is at least the interval. The setters wait for the mutex, so the interval does not
change under a sleeper. `InsertsAnswers` is what the types need: what is about to be inserted is an
answer. `IInv` is their conjunction with `TypeOK` and `IntervalInForce`.

`FinanceCache_proofs` proves, for any callers, chunk sizes, lifetimes and versions, files longer than all
chunks included (`FinanceCacheAssumption`): `TypeCorrect` and `NothingDisplaced` (`OnlyBeginnings`). That every file
and every result is a beginning depends on the downloads under way: `Adjoining` says that the part downloaded so far is
a beginning, and that while a caller asks, the offset it asks for is the length of that part; only a full chunk
leads to another request, so short answers cannot shift what follows. A download never goes on in an older version than
it has (`Known`). An older version stands behind a newer one only where a process wrote less than another that had
emptied the file as well: `Overlaid` counts these places together with the processes still to write, and
each write brings at most one (`OverwrittenBack`). The lemmas are about sequences of cells: a beginning continued by
the cells behind it (`Continued`, `ContinuedInOrder`), cut short (`CutBeginning`, `CutInOrder`), written over another
file (`OverwrittenBeginning`), and what a server answers (`Chunks`).

`SmartClient_proofs` proves, for any callers, servers, streaks and retries (`SmartAssumption`):
`TypeCorrect` and `BansAreEarned` (`StreakBansEarned`). The two together are inductive: a count of
failures stays within the streak, so a count that has reached it equals it. One lemma per
section of the cache (`AddKeeps`, `SuccessKeeps`, `FailureKeeps`, `EmptyKeeps`) shows that it keeps
the cache's part, `StepCache` that calls change the cache through these only, `StepType` that every
step keeps the types of the rest.

With one caller, two of the run's invariants are proved as well. `NoRefusalUntried` follows from
`SomeoneAhead`: a call that has not dialled anybody yet still has somebody to dial ahead of it, which each
section that passes servers over must keep true (`BansNeverRefuse`). `SelfHeals` follows from
`ForgetsFirst`: a connect that has gone through the whole list has dropped the first choice
(`FirstChoiceHeals`). With a second caller, TLC finds both violated (`Users` = {u1, u2}, without fairness): a
client shared by threads does not promise them.

`HqClient_proofs` proves, for any callers, heartbeats, servers and pool sizes (`ClientAssumption`),
that its steps on the pool are the pool's (`ImplementsPool`, a lemma, as the actions are written with the
pool's), and that a caller or heartbeat is where the pool has it (`Coupling`): at a place where the code
holds a guard, or dials, it is a thread of the pool
that does (`UsersInPool`, `BeatsInPool`), the server it dials is in its hand (`ServersInHand`), and
the mutex is held by whoever is between borrow and answer (`LocksHeld`). With it the pool's own theorems carry over
(`PoolStaysSound`, `TypeCorrect`). `RequestsFindRoom` (`RoomForRequests`) counts: a refused request means that all
slots are busy (`RefusalTakesSlots`); a caller that may borrow holds the mutex, so
every other busy slot is a heartbeat's; while there are fewer heartbeats than slots
(`Cardinality(Beats) < MaxSize`; the code has five slots) one is left. For one caller, `HeartbeatInSlots`
says at each place of connect and disconnect which heartbeat is in the two slots, which was told to
stop and which still runs; from it `DisconnectStays` and `ConnectedStaysWatched`. With two callers two
stops and two starts interleave, and a heartbeat may end up in neither slot (`HeartbeatsInReach`, section 4).

`AsyncClient_proofs` proves, for any callers, heartbeats, servers, pool sizes, channel
capacities and numbers of late answers (`AsyncAssumption`), `OneHeartbeatAtATime`, `ConnectionsAgree`,
`NoRequestIsLost` and `AnswersStayInOrder`. `IInv` follows a request and a connection from hand to hand: who is about to
dial holds the lock of the list (`DialsLocked`) and dials what `current_server` names (`DialsCurrent`); a sender in
somebody's hand belongs to a task that runs (`SendersKeepTasks`); a waiting caller has one request
in one channel or task (`OneRequestEach`, `AwaitedAreSent`, `RepliesAreAwaited`); what a stream owes last is the answer to the
request being served (`AnswerIsLast`, which `AnswersStayInOrder` proves), so only an answer that comes late is taken
for another. `WatchedWhileAlone` (`WatchedIfAlone`) is for any number of callers as well: `WatchInv` says that
the flag is up only over a heartbeat that nobody has told to stop, or while a call is about to start one or to
lower the flag (`FlagIsWatched`). Calls that overlap keep that true, as each keeps the heartbeat it has started
(`BeatsApart`), unless a disconnect is among them (`OnlyDisconnectsLeave`). For one caller, `DisconnectStays`, from `DisconnectSoFar`.

`BarPaging_proofs` proves, for any servers, lists, counts and page sizes (`BarPagingAssumption`):

- `PagesAdjoin`, if no more bars arrive during a call than a page holds (`MaxNew <= Page`; a page has 800):
  `FitInv` says that the bars fetched so far reach from the newest one at the beginning down to where the
  next page begins, which new bars only shift upwards, so that pages overlap and never leave a gap.
- `PagesInOrder`, if at most one bar arrives: the overlap is then at most one bar, at the seam, and prepending
  keeps the sequence ascending (`OrderInv`). A paged call takes seconds and a bar of the shortest category
  a minute, so one is what the code can count on; two are a violation (section 4).
- `EmptyServerIsSurvived`, without any assumption: `SurvivalInv` says that after an empty answer of the one server without
  K-lines the client is at another server whenever a good one is left (`RetriesElsewhere`),
  and an attempt is left to ask it.

Its lemmas about lists (`ScanReaches`) need the least place that answers; `LeastOf` proves that every
set of naturals but the empty one has a least element, from the well-foundedness of `<`
on the naturals. This is as much induction as the provers can be given.

`Downloader_proofs` proves, for any lists, pages and numbers of stocks and faults (`DownloaderAssumption`): `TypeCorrect`, in which the record of
stocks stays an order of stocks of the market, each once, and so never longer than the market (`OrderGrows`, a count
of injections); `HistoryIsKept`: only `_write_tdx` changes a `.day` file, a file with bars is continued
as no date is 0 (`DatesArePositive`), and a torn write leaves a beginning of what was to be put behind it; and
`FilesStayInOrder` (`FilesInOrder`), for days and minutes and histories of any length. For that `OrderInv` (`Inductive`) adds
what is under way (`DownloadInOrder`): while what is new fits into a page, the new bars stand together in what is downloaded, each once and in order, as
they come with the first page (`Together`), and what is about to be written goes on where the file ends.
Dates are quotients (`BarsOfDays`, by `ProductsKeepOrder`), so the bars newer than a file begin with the first of a
day (`EndOfFile`). The filter of newer bars is written by the rank of each place (`AtPlaces`); of a run of places it
leaves a run (`PlaceOfRank`, `PlacesTogether`, `NewerContinues`).

`Utils_proofs` also proves what the algorithms give, as invariants of `Inputs`, for inputs of any length
(`ParametersAssumption`: sizes are positive and a handshake's answer is within the limit; `InputsAssumption`:
what the inputs are, and that the dates of a history never descend). A behaviour is one
input, so nothing is inductive about its steps; the argument is about the operators.

- `ResponsesAreWhole` (`ResponsesComeWhole`): every client reads a response as it was written or gets an error, and what it
  leaves in the stream is exactly what follows (`FramesAreRead`, with one lemma for a whole and one for a
  cut response); a block file put together from parts is the file. For that the parts are
  stretches of it (`StretchesJoin`), and `PartsCover` counts them.
- `ClockIsRight` (`ClockIsBeijings`), until `LastYear`: `LeapsCounted` counts the leap years before a year, so the
  first day of each year is known (`YearsAreDays`), and the year and the month found are the ones the day is in.
- `FundsAreRight` (`FundsArePriced`): a fund by its prefix has a price coefficient of a fund on the market its code leads to; the pages of
  the list hold every fund where they stand together. Pages before and behind them bring in nothing
  (`NoFundsBehind`), and the pages in between are stretches of the list (`PagesFollow`).
- `AdjustmentIsRight` (`AdjustmentIsExact`): forward adjustment, backward adjustment, the listed factors and the detected tier. Bars and
  context are runs of consecutive numbers (`BarsAreRun`, `ContextIsRun`), and a context of the number of
  pages that are got has no gap to the bars (`ContextHasNoGap`). So the close before an event is in
  the bars if the first of them is before it (`CloseInBars`), otherwise in the context if that goes back
  to the beginning or to a day before the event (`CloseInContext`); both sides are then the same pieces, one
  per event that is due (`AdjustIs`, `TrueAdjustmentIs`). That sorted events are a
  rearrangement of the picked ones (`EventsAre`) rests on their ranks, which are a surjection onto the
  places (`RanksAreAll`). The factors listed up to a day are found with a filter that is shown to
  distribute over concatenation (`KeptOfAll`).

- `RequestsAreRight` (`RequestsArrive`), for codes and lists of stocks of any length. The bytes of a packet are the
  sum of its fields (`SizeSteps`), so each packet is as long as declared and its arguments are where the server
  looks for them (`BarsAsked` to `BlockAsked`, by way of `AskedIs`); a well-formed code passes
  through `code_bytes` unchanged (`CodeAsItIs`). `CallsArrive` puts this together for every client and
  operation with what each refuses: a fund's code is never a block's (`FundNoBlock`), so the fund client's calls
  pass the check of the client within. In a packet for quotes the fields come in pairs behind four
  others (`PairsFlatten`, `QuotesAreAsked`). Of the answer to a batch (`AnswersAre`), whatever the server leaves
  out, repeats or puts in another order, the filter keeps the records of stocks asked for (`FilterKeeps`,
  `BatchIsGenuine`), and the batches are adjoining stretches of the list (`PartsCover`, `BatchesAreGenuine`), so every
  quote returned is of a stock asked for, and every stock the server knows and answers for has its quote
  (`QuotesAreGenuine`). The
  hypotheses: the code is well-formed (the other clients send malformed ones cut off or filled up, `MalformedRefused`
  in section 4), the start is below 65536 (above, it is truncated), the stocks are different, and what the server
  makes up for codes it does not know is of no stock asked for (`QuotesAlwaysGenuine` in section 4 shows what happens
  otherwise). That the parser then reads the answer is `RecordsAreRead`.

What a fold does over a sequence of any length is an induction over data. Here it is avoided
where the fold is `FlattenSeq`: `FlattenIs` says that any function that begins empty and appends the
next sequence at each place ends with its value. Its proof takes the least place at which two such functions
would differ. `FlattenSteps` gives such a function for every sequence, and `SizeSteps` one for a sum.

In all of these TLC checked the inductive invariants on the runs' instances before they were proved.

Only model-checked:

- liveness (`CallsReturn`, `EmptyNoticed`, `Reconnects`, `SettlesOnServer`, `WholeAtLast`, `CatchesUp`), which the prover
  does not handle;
- `RecordsAreRead`, over bounded inputs: the parsers are folds over bytes with
  an offset each record moves, and files and texts are read likewise; what such a fold computes for every input takes an
  induction over data, for which the library's theorems need an operator as a parameter that no
  installed prover can instantiate;
- what is stated of two callers of one client beyond the theorems above, in the configurations of section 4.

## 6. Not modelled

- Downloader: the range of dates, CSV, the files by day of `download_minute`, `download_ticks` and
  `run_xdxr`, which no later call reads, and the order and waiting of its pool of servers.
- Python bindings: a method per client method, and the conversion of arguments and results;
  `get_transaction_data_all`, which exists only there.
- Command line, logging, texts of errors: output.
- `probe_servers` and latencies: an order of servers by time of connect, which decides only which
  of two good servers is taken.
- Conversions that rename fields (`fund/types.rs`, `protocol/types.rs`), and `stats` of the pool.
- Rounding: prices and factors are exact in the models; what `f64` loses is not stated.
- A write error of the smart client's cache file; its latencies and success counts.

## 7. Plan

1. Proofs: the parsers' loops with the offset of each record as a function on places, which would bring
   `RecordsAreRead` within reach as `FlattenSteps` did for `FlattenSeq`.
2. `SmartClient`: an error of the caller's own making as an outcome of its own.
3. `probe_servers`, and the conversions of `fund/types.rs`.
