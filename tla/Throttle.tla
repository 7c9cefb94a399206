-------------------------------- MODULE Throttle ------------------------------
(* What a request passes on its way out: the cache of get_security_list and            *)
(* get_security_count, and the rate limiter (net/utils.rs, net/client.rs,              *)
(* net/async_client.rs).  The limiter holds its mutex while it sleeps; nothing is      *)
(* held between the limiter, the request and the insertion of its answer.  Time is in  *)
(* ticks, and only spans of it are kept.                                               *)
EXTENDS Naturals, FiniteSets

CONSTANTS
  Threads,
  Servers,
  None,
  Second,      \* ticks per second
  MaxRate,     \* MAX_RATE_LIMIT
  Rates,       \* rates the user sets
  DefaultBase, \* interval of a new limiter
  DefaultRate, \* base_rps of a new asynchronous client
  TTLs         \* cache lifetimes, in ticks

ASSUME ThrottleAssumption ==
  /\ Second \in Nat \ {0} /\ MaxRate \in 1..Second /\ Rates \subseteq Nat
  /\ DefaultBase \in 1..Second /\ DefaultRate \in 1..Second
  /\ TTLs \subseteq Nat
  /\ None \notin Threads \cup Servers

VARIABLES
  kind,      \* which client
  enabled,
  base,      \* base_interval; base_rps of the asynchronous client
  interval,  \* min_interval
  phase,
  since,     \* ticks since last_request, up to a second
  owner,     \* holder of the limiter's mutex
  pc, sleep, \* of each thread; what is left of its sleep
  server,    \* the server requests go to
  entry,     \* the cached answer: the server it is of and what is left of its life
  ttl,
  answer     \* what a thread's call was given: the server it is of

vars == <<kind, enabled, base, interval, phase, since, owner, pc, sleep, server, entry, ttl, answer>>
limiterVars == <<enabled, base, interval, phase>>

Mult == [trading |-> 1, prepost |-> 2, closed |-> 4]
Phases == DOMAIN Mult

TypeOK ==
  /\ kind \in {"sync", "async"}
  /\ enabled \in BOOLEAN
  /\ base \in 0..Second /\ interval \in 0..Second
  /\ phase \in Phases
  /\ since \in 0..Second
  /\ owner \in Threads \cup {None}
  /\ pc \in [Threads -> {"idle", "limit", "queue", "sleep", "ask", "insert", "returned", "clear"}]
  /\ sleep \in [Threads -> 0..Second]
  /\ server \in Servers
  /\ entry \in [server : Servers \cup {None}, left : Nat]
  /\ entry.server = None => entry.left = 0
  /\ ttl \in TTLs
  /\ answer \in [Threads -> Servers \cup {None}]

Init ==
  /\ kind \in {"sync", "async"}
  /\ enabled = TRUE
  /\ base = IF kind = "sync" THEN DefaultBase ELSE DefaultRate
  /\ interval = DefaultBase
  /\ phase = "trading"
  /\ since = Second
  /\ owner = None
  /\ pc = [t \in Threads |-> "idle"]
  /\ sleep = [t \in Threads |-> 0]
  /\ server \in Servers
  /\ entry = [server |-> None, left |-> 0]
  /\ ttl \in TTLs
  /\ answer = [t \in Threads |-> None]

-----------------------------------------------------------------------------
(* The limiter *)

AtLeast1(n) == IF n = 0 THEN 1 ELSE n
AtMost(n, bound) == IF n < bound THEN n ELSE bound
Go(t, where) == pc' = [pc EXCEPT ![t] = where]

\* wait: a disabled limiter is passed without the mutex.
Enter(t) ==
  /\ pc[t] = "limit"
  /\ Go(t, IF enabled THEN "queue" ELSE "ask")
  /\ UNCHANGED <<kind, limiterVars, since, owner, sleep, server, entry, ttl, answer>>

MutLock(t) ==
  /\ pc[t] = "queue"
  /\ Go(t, "sleep") /\ owner' = t
  /\ sleep' = [sleep EXCEPT ![t] = IF since < interval THEN interval - since ELSE 0]
  /\ UNCHANGED <<kind, limiterVars, since, server, entry, ttl, answer>>
Lock(t) ==
  /\ pc[t] = "queue" /\ owner = None
  /\ Go(t, "sleep") /\ owner' = t
  /\ sleep' = [sleep EXCEPT ![t] = IF since < interval THEN interval - since ELSE 0]
  /\ UNCHANGED <<kind, limiterVars, since, server, entry, ttl, answer>>

Stamp(t) ==
  /\ pc[t] = "sleep" /\ sleep[t] = 0
  /\ since' = 0 /\ owner' = None
  /\ Go(t, "ask")
  /\ UNCHANGED <<kind, limiterVars, sleep, server, entry, ttl, answer>>

\* Both setters of the synchronous limiter take the mutex; those of the asynchronous one
\* need the client for themselves.
Free == owner = None /\ (kind = "async" => \A t \in Threads : pc[t] = "idle")

MutSetRps(rate) ==
  /\ Free /\ kind = "sync"
  /\ enabled' = (rate # 0)
  /\ IF rate = 0 THEN UNCHANGED <<base, interval>>
     ELSE base' = Second \div AtMost(rate, MaxRate) /\ interval' = base'
  /\ UNCHANGED <<kind, phase, since, owner, pc, sleep, server, entry, ttl, answer>>

SetRps(rate) ==
  /\ Free /\ kind = "sync"
  /\ enabled' = (rate # 0)
  /\ IF rate = 0 THEN UNCHANGED <<base, interval>>
     ELSE base' = Second \div AtMost(rate, MaxRate) /\ interval' = AtLeast1(base' \div Mult[phase])
  /\ UNCHANGED <<kind, phase, since, owner, pc, sleep, server, entry, ttl, answer>>

MutSetPhase(p) ==
  /\ Free /\ kind = "sync"
  /\ phase' = p
  /\ interval' = AtLeast1(base * Mult[p])
  /\ UNCHANGED <<kind, enabled, base, since, owner, pc, sleep, server, entry, ttl, answer>>

SetPhase(p) ==
  /\ Free /\ kind = "sync"
  /\ phase' = p
  /\ interval' = AtLeast1(base \div Mult[p])
  /\ UNCHANGED <<kind, enabled, base, since, owner, pc, sleep, server, entry, ttl, answer>>

SetEnabled(b) ==
  /\ kind = "sync" /\ enabled' = b
  /\ UNCHANGED <<kind, base, interval, phase, since, owner, pc, sleep, server, entry, ttl, answer>>

\* AsyncRateLimiter::set_rps.
AsyncInterval(rate) == IF rate = 0 THEN 0 ELSE Second \div AtMost(rate, MaxRate)

\* set_rate_limit; set_phase multiplies the rate and sets it for the limiter only.
AsyncSetRps(rate) ==
  /\ Free /\ kind = "async"
  /\ base' = AtMost(rate, Second) /\ interval' = AsyncInterval(rate)
  /\ UNCHANGED <<kind, enabled, phase, since, owner, pc, sleep, server, entry, ttl, answer>>

AsyncSetPhase(p) ==
  /\ Free /\ kind = "async"
  /\ phase' = p
  /\ interval' = AsyncInterval(base * Mult[p])
  /\ UNCHANGED <<kind, enabled, base, since, owner, pc, sleep, server, entry, ttl, answer>>

-----------------------------------------------------------------------------
(* The cache *)

MutValid == entry.server # None
Valid == entry.server # None /\ entry.left > 0

\* get_security_count, get_security_list from the beginning on.
Call(t) ==
  /\ pc[t] = "idle"
  /\ IF Valid THEN Go(t, "returned") /\ answer' = [answer EXCEPT ![t] = entry.server]
     ELSE Go(t, "limit") /\ UNCHANGED answer
  /\ UNCHANGED <<kind, limiterVars, since, owner, sleep, server, entry, ttl>>

\* The asynchronous connect holds the connections until the caches are cleared.
Answered(t) ==
  /\ pc[t] = "ask"
  /\ kind = "async" => \A u \in Threads : pc[u] # "clear"
  /\ Go(t, "insert")
  /\ answer' = [answer EXCEPT ![t] = server]
  /\ UNCHANGED <<kind, limiterVars, since, owner, sleep, server, entry, ttl>>

\* After its retries, none of which passes the limiter again.
Fails(t) ==
  /\ pc[t] = "ask"
  /\ Go(t, "idle")
  /\ UNCHANGED <<kind, limiterVars, since, owner, sleep, server, entry, ttl, answer>>

Insert(t) ==
  /\ pc[t] = "insert"
  /\ entry' = [server |-> answer[t], left |-> ttl]
  /\ Go(t, "returned")
  /\ UNCHANGED <<kind, limiterVars, since, owner, sleep, server, ttl, answer>>

Return(t) ==
  /\ pc[t] = "returned"
  /\ Go(t, "idle")
  /\ answer' = [answer EXCEPT ![t] = None]
  /\ UNCHANGED <<kind, limiterVars, since, owner, sleep, server, entry, ttl>>

\* connect: requests go to the new server before the caches are cleared.
Connect(t, s) ==
  /\ pc[t] = "idle"
  /\ server' = s
  /\ Go(t, "clear")
  /\ UNCHANGED <<kind, limiterVars, since, owner, sleep, entry, ttl, answer>>

ClearCaches(t) ==
  /\ pc[t] = "clear"
  /\ entry' = [server |-> None, left |-> 0]
  /\ Go(t, "idle")
  /\ UNCHANGED <<kind, limiterVars, since, owner, sleep, server, ttl, answer>>

\* The heartbeat's failover, and a connect that fails half-way, do not clear them.
Failover(s) ==
  /\ server' = s /\ s # server
  /\ UNCHANGED <<kind, limiterVars, since, owner, pc, sleep, entry, ttl, answer>>

SetCacheTtl(n) ==
  /\ kind = "sync" /\ ttl' = n
  /\ UNCHANGED <<kind, limiterVars, since, owner, pc, sleep, server, entry, answer>>

-----------------------------------------------------------------------------

Tick ==
  /\ since' = AtMost(since + 1, Second)
  /\ sleep' = [t \in Threads |-> IF sleep[t] = 0 THEN 0 ELSE sleep[t] - 1]
  /\ entry' = [entry EXCEPT !.left = IF @ = 0 THEN 0 ELSE @ - 1]
  /\ UNCHANGED <<kind, limiterVars, owner, pc, server, ttl, answer>>

Next ==
  \/ \E t \in Threads :
       \/ Call(t) \/ Enter(t) \/ Lock(t) \/ Stamp(t) \/ Answered(t) \/ Fails(t)
       \/ Insert(t) \/ Return(t) \/ ClearCaches(t)
       \/ \E s \in Servers : Connect(t, s)
  \/ \E r \in Rates : SetRps(r) \/ AsyncSetRps(r)
  \/ \E p \in Phases : SetPhase(p) \/ AsyncSetPhase(p)
  \/ \E b \in BOOLEAN : SetEnabled(b)
  \/ \E n \in TTLs : SetCacheTtl(n)
  \/ \E s \in Servers : Failover(s)
  \/ Tick

Spec == Init /\ [][Next]_vars

\* Time passes, and threads go on once they are past the limiter.
FairSpec ==
  /\ Spec /\ WF_vars(Tick)
  /\ \A t \in Threads : WF_vars(Answered(t) \/ Fails(t) \/ Insert(t) \/ Return(t) \/ ClearCaches(t))
-----------------------------------------------------------------------------
(* Properties *)

\* Requests that the limiter lets through are at least the interval in force apart, however
\* many threads wait for it and whatever is set meanwhile.
Spaced == [][\A t \in Threads : pc[t] = "sleep" /\ pc'[t] = "ask" => since >= interval]_vars

\* The interval is that of the user's rate in the present phase, in whichever order the
\* two were set, and with the limiter off in between.
IntervalInForce ==
  kind = "sync" => interval = AtLeast1(base \div Mult[phase])

\* Once the client stays with a server, answers end up being that server's: what threads
\* insert late or a failover leaves in the cache does not outlive its time.
SettlesOnServer ==
  \A s \in Servers : <>[](server = s) => <>[](\A t \in Threads : pc[t] = "returned" => answer[t] = s)

\* A phase set for the asynchronous client stays in force when the rate is set (its comment:
\* a multiplier, like that of the synchronous client, which does not override the user's rate).
AsyncPhaseKept ==
  kind = "async" => interval = AsyncInterval(base * Mult[phase])

\* A call that begins after connect has returned is answered by the new server.
AnswersOfServer == [][\A t \in Threads : pc[t] = "idle" /\ pc'[t] = "returned" /\ (\A u \in Threads : pc[u] # "clear")
                        => answer'[t] = server]_vars
=============================================================================
