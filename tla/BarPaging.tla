------------------------------- MODULE BarPaging ------------------------------
(* get_security_bars and get_security_bars_all (and their index versions): pages of    *)
(* K-lines, counted back from the newest bar, from servers some of which answer with   *)
(* nothing (net/client.rs, net/async_client.rs).  A bar is its number, 1 the oldest;   *)
(* a request and its answer are one step, and the market moves on in between.          *)
EXTENDS ServerList, FiniteSets

CONSTANTS
  Page,      \* MAX_KLINE_COUNT
  Width,     \* 2^16: start and count are u16 in a request
  Counts,    \* counts asked for
  MaxTop,    \* bound on the number of bars
  MaxNew,    \* bound on the bars that arrive during one call (one a minute at most)
  MaxEmpty,  \* bound on the number of servers without K-lines
  Blockable  \* servers the user may block

ASSUME BarPagingAssumption ==
  /\ Page \in Nat \ {0} /\ Width \in Nat \ {0} /\ Page < Width
  /\ Counts \subseteq 0..(Width - 1)
  /\ MaxTop \in Nat \ {0} /\ MaxNew \in Nat /\ Blockable \subseteq Servers

VARIABLES
  top,    \* the newest bar
  empty,  \* servers that accept a connection and answer K-line requests with nothing
  call    \* the paging call in progress

vars == <<serverVars, top, empty, call>>

Idle == [at |-> "idle", daily |-> TRUE, want |-> 0, remaining |-> 0, offset |-> 0,
         attempt |-> 0, acc |-> <<>>, top0 |-> 0, calm |-> TRUE]

TypeOK ==
  /\ ServerTypeOK
  /\ top \in 1..MaxTop
  /\ empty \subseteq Servers
  /\ call \in [at : {"idle", "page", "done", "failed"}, daily : BOOLEAN, calm : BOOLEAN,
               want : 0..(Width - 1), remaining : 0..(Width - 1), offset : 0..(Width - 1),
               attempt : 0..2, acc : Seq(1..top), top0 : 0..top]

Init ==
  /\ ServerInit
  /\ top \in 1..MaxTop
  /\ empty \in {S \in SUBSET Servers : Cardinality(S) <= MaxEmpty}
  /\ call = Idle

-----------------------------------------------------------------------------

\* A server's answer: count bars that end start bars before the newest, oldest first;
\* the request holds the low bits of start.
Answer(start, count) ==
  LET newest == top - (start % Width)
  IN [i \in 1..(IF newest <= 0 THEN 0 ELSE IF newest < count THEN newest ELSE count) |->
        (IF newest < count THEN 0 ELSE newest - count) + i]

Batch == IF call.remaining < Page THEN call.remaining ELSE Page

\* Only the synchronous client asks again, and only for daily bars and longer.
MaxRetry == IF kind = "sync" /\ call.daily THEN 3 ELSE 1

\* An empty answer is taken for the server's fault, until the attempts are used up.
BlameServer == call.attempt < MaxRetry - 1

\* A page is added; the next one starts after what was received, unless that was less
\* than was asked for.
Join(bars, acc) == IF kind = "sync" THEN bars \o acc ELSE acc \o bars

MutReceive(bars) ==
  LET left == call.remaining - Len(bars)
  IN call' = [call EXCEPT !.acc = Join(bars, @), !.remaining = left,
                !.offset = @ + Len(bars) + 1, !.attempt = 0,
                !.at = IF Len(bars) < Batch \/ left = 0 THEN "done" ELSE "page"]
Receive(bars) ==
  LET left == call.remaining - Len(bars)
  IN call' = [call EXCEPT !.acc = Join(bars, @), !.remaining = left,
                !.offset = @ + Len(bars), !.attempt = 0,
                !.at = IF Len(bars) < Batch \/ left = 0 THEN "done" ELSE "page"]

BarsAll(daily, count) ==
  /\ call.at = "idle" /\ connected
  /\ call' = [Idle EXCEPT !.daily = daily, !.want = count, !.remaining = count,
                !.top0 = top, !.at = IF count = 0 THEN "done" ELSE "page"]
  /\ UNCHANGED <<serverVars, top, empty>>

Ask ==
  /\ call.at = "page" /\ last \in up
  /\ LET bars == IF last \in empty THEN <<>> ELSE Answer(call.offset, Batch)
     IN \/ /\ bars # <<>>
           /\ Receive(bars)
           /\ UNCHANGED serverVars
        \/ /\ bars = <<>> /\ BlameServer
           /\ SwitchServer
           /\ call' = [call EXCEPT !.attempt = @ + 1]
        \/ /\ bars = <<>> /\ ~BlameServer
           /\ call' = [call EXCEPT !.at = "done"]
           /\ UNCHANGED serverVars
  /\ UNCHANGED <<top, empty>>

\* The request fails; its retries reconnect (once connected is lowered) or give up, and
\* then the whole call returns the error.
AskFails ==
  /\ call.at = "page"
  /\ \/ ~connected /\ Reconnect /\ connected' /\ UNCHANGED call
     \/ call' = [call EXCEPT !.at = "failed"] /\ UNCHANGED serverVars
  /\ UNCHANGED <<top, empty>>

Finish ==
  /\ call.at \in {"done", "failed"}
  /\ call' = Idle
  /\ UNCHANGED <<serverVars, top, empty>>

\* External: the market moves on by a bar.
NewBar ==
  /\ top < MaxTop /\ top' = top + 1
  /\ \/ call.at = "idle" /\ UNCHANGED call
     \/ call.at # "idle" /\ top < call.top0 + MaxNew /\ call' = [call EXCEPT !.calm = FALSE]
  /\ UNCHANGED <<serverVars, empty>>

\* The user's calls wait until no paging call is in progress.
Manage ==
  /\ call = Idle
  /\ \/ \E s \in Servers : Connect(s) \/ UnblockServer(s) \/ AddServer(s)
     \/ \E s \in Blockable : BlockServer(s)
     \/ \E l \in Lists : SetServers(l)
     \/ ConnectToAny \/ Disconnect \/ ClearBlocked
  /\ UNCHANGED <<top, empty, call>>

Outage ==
  /\ \E s \in Servers : Toggle(s)
  /\ call' = IF call.at = "idle" THEN call ELSE [call EXCEPT !.calm = FALSE]
  /\ UNCHANGED <<top, empty>>

Heartbeat == Beat /\ UNCHANGED <<top, empty, call>>

Next ==
  \/ \E d \in BOOLEAN, n \in Counts : BarsAll(d, n)
  \/ Ask \/ AskFails \/ Finish \/ NewBar \/ Manage \/ Outage \/ Heartbeat

Spec == Init /\ [][Next]_vars
-----------------------------------------------------------------------------
(* Properties *)

Minimum(a, b) == IF a < b THEN a ELSE b

Ascending(acc) == \A i \in 1..(Len(acc) - 1) : acc[i] <= acc[i + 1]

\* No bar between two returned ones is missing, and the newest bar of the time of the call
\* is there, although the market moves on, servers are changed and pages are asked for
\* again meanwhile.
NoneMissing ==
  LET got == ToSet(call.acc)
  IN got # {} => /\ \E b \in got : b >= call.top0
                 /\ \A i, j \in got : i..j \subseteq got

\* The pages of a call fit together: none is missing, and the synchronous client returns
\* them in ascending order (get_security_bars_all prepends older pages).
PagesFit ==
  /\ NoneMissing
  /\ kind = "sync" => Ascending(call.acc)

GoodServerThere ==
  /\ Cardinality(empty) <= 1
  /\ (ToSet(Primary) \ (blocked \cup empty)) \cap up # {}

\* A single server that answers K-line requests with nothing does not keep a daily
\* request from its data, while another one of PRIMARY_SERVERS is there (comment of
\* get_security_bars: one faulty server does not affect the data).
OneEmptyServerIsSurvived ==
  /\ call.at = "done" /\ kind = "sync" /\ call.daily /\ call.calm
  /\ GoodServerThere
  => Len(call.acc) = Minimum(call.want, call.top0)

\* So do both clients (comment in get_security_bars_all: what is prepended keeps the
\* whole in ascending order).
AllAscending == Ascending(call.acc)

\* A server on the blacklist is never chosen by the client itself (API_REFERENCE:
\* skipped automatically when connecting).
BlockedNeverChosen ==
  [][last' # last => last' \notin blocked \/ \E s \in Servers : call = Idle /\ Connect(s)]_vars
-----------------------------------------------------------------------------
(* What the properties rest on *)

\* What has been received is what the offset counts, and no page is asked for behind a
\* short one.
Progress ==
  /\ call.at = "idle" => call = Idle
  /\ call.at # "idle" =>
       /\ Len(call.acc) = call.offset /\ call.offset + call.remaining = call.want
       /\ top \in call.top0..(call.top0 + MaxNew) /\ (call.calm => top = call.top0)
  /\ call.at = "page" =>
       /\ call.remaining > 0 /\ call.offset <= top
       /\ call.offset = 0 \/ call.offset >= Page

\* Between two pages: the received ones reach from the oldest bar of the last page, which
\* the market had t bars at, to a bar at least as new as the call.
Reaches ==
  call.at = "page" /\ call.offset > 0 =>
    \E t, h \in call.top0..top :
      /\ call.offset <= t
      /\ ToSet(call.acc) = (t - call.offset + 1)..h
      /\ kind = "sync" => call.acc[1] = t - call.offset + 1

\* Once the server has been changed for its empty answer, the present one has bars, or
\* there are none left to ask for.
RetriesElsewhere ==
  /\ call.at = "page" /\ kind = "sync" /\ call.daily /\ call.calm /\ call.attempt > 0
  /\ GoodServerThere
  => last \in up \ empty \/ call.offset = top

PagingInv == TypeOK /\ Progress
FitInv == Reaches /\ NoneMissing
OrderInv == kind = "sync" => Ascending(call.acc)
SurvivalInv == RetriesElsewhere /\ OneEmptyServerIsSurvived
=============================================================================
