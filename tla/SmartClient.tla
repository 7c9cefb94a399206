------------------------------ MODULE SmartClient ------------------------------
(***************************************************************************)
(* TdxSmartClient, src/src/net/smart_client.rs: a client that remembers    *)
(* the server that last worked, bans servers that do not, checks a server  *)
(* when it first answers with nothing, and moves to another one.           *)
(*                                                                         *)
(* The cache is behind one mutex and every section that changes it ends    *)
(* with save, so the file holds what memory holds and a restart finds it,  *)
(* or finds a torn file and begins with an empty cache.  A section is one  *)
(* step; dials, requests and the reading of current_server are steps of    *)
(* their own.  A ban counts for 24 h; instead of a clock, any ban may      *)
(* expire at any time, and an expired entry is no entry.  Latencies and    *)
(* success counts decide nothing and are left out.                         *)
(*                                                                         *)
(* The inner TdxHqClient (HqClient) is reduced to the server it stands at  *)
(* and its connected flag, which its heartbeat and its retries also move.  *)
(***************************************************************************)
EXTENDS Naturals, FiniteSets

CONSTANTS
  Users,      \* concurrent callers
  Servers,    \* ALL_KNOWN_SERVERS, which include the primary ones
  Primary,    \* PRIMARY_SERVERS
  None,
  Streak,     \* BLACKLIST_FAIL_STREAK
  MaxRetry    \* max_retry

ASSUME SmartAssumption ==
  /\ IsFiniteSet(Servers) /\ Servers # {} /\ Primary \subseteq Servers /\ None \notin Servers
  /\ Streak \in Nat \ {0} /\ MaxRetry \in Nat \ {0}

VARIABLES
  last,      \* last_success
  ban,       \* blacklist: the reason each server's entry gives
  streak,    \* consecutive_fail, counted up to Streak
  current,   \* current_server
  checked,   \* health_checked
  inner,     \* the inner client's last_server
  live,      \* the inner client's connected
  call,      \* each user's call: where it is, and its locals
  up         \* servers that accept connections

vars == <<last, ban, streak, current, checked, inner, live, call, up>>
cache == <<last, ban, streak>>
place == <<current, checked>>
hq == <<inner, live>>

\* kline_empty and parse_error entries are treated alike.
Reasons == {"none", "connect_fail_streak", "protocol"}

Asking == {"bars", "quotes"}
Places == {"idle", "cached", "dial", "landed", "note", "miss", "heal", "survey", "scan",
           "ask", "check", "verify", "vouch", "ban", "blame", "hangup"}

\* server is the one dialled or held responsible, then what follows record_failure,
\* via the server whose answer or silence is being judged, tried whether anyone
\* was dialled since the candidates were surveyed.
NoCall == [job |-> "none", at |-> "idle", server |-> None, then |-> "idle", togo |-> {},
           more |-> FALSE, ignore |-> FALSE, left |-> 0, via |-> None, tried |-> FALSE]

TypeOK ==
  /\ last \in Servers \cup {None}
  /\ ban \in [Servers -> Reasons]
  /\ streak \in [Servers -> 0..Streak]
  /\ current \in Servers \cup {None}
  /\ checked \in BOOLEAN /\ live \in BOOLEAN
  /\ inner \in Servers \cup {None}
  /\ up \subseteq Servers
  /\ call \in [Users -> [job : {"none", "any", "probe"} \cup Asking, at : Places,
                         server : Servers \cup {None}, then : Places, togo : SUBSET Servers,
                         more : BOOLEAN, ignore : BOOLEAN, left : 0..MaxRetry,
                         via : Servers \cup {None}, tried : BOOLEAN]]

\* TdxSmartClient::new without a cache file.
Init ==
  /\ last = None
  /\ ban = [s \in Servers |-> "none"]
  /\ streak = [s \in Servers |-> 0]
  /\ current = None /\ checked = FALSE
  /\ inner = None /\ live = FALSE
  /\ call = [u \in Users |-> NoCall]
  /\ up = Servers
-----------------------------------------------------------------------------
(* ServerCache *)

Blacklisted(s) == ban[s] # "none"
AllBlacklisted(S) == \A s \in S : Blacklisted(s)

\* An entry that is there stays as it is, whatever the new reason.
AddToBlacklist(s, reason) ==
  ban' = IF Blacklisted(s) THEN ban ELSE [ban EXCEPT ![s] = reason]

\* The ban of a streak outlives the success that ends the streak.
MutRecordSuccess(s) ==
  /\ last' = s
  /\ streak' = [streak EXCEPT ![s] = 0]
  /\ UNCHANGED ban

\* Only the ban of a streak is lifted.
RecordSuccess(s) ==
  /\ last' = s
  /\ streak' = [streak EXCEPT ![s] = 0]
  /\ ban' = IF ban[s] = "connect_fail_streak" THEN [ban EXCEPT ![s] = "none"] ELSE ban

\* The count goes on after the server is banned; it is kept up to Streak, which is all that
\* is asked of it.
RecordFailure(s) ==
  /\ streak' = [streak EXCEPT ![s] = IF @ < Streak THEN @ + 1 ELSE @]
  /\ IF streak'[s] >= Streak THEN AddToBlacklist(s, "connect_fail_streak") ELSE UNCHANGED ban
  /\ UNCHANGED last

EmptyCache ==
  /\ last' = None
  /\ ban' = [s \in Servers |-> "none"]
  /\ streak' = [s \in Servers |-> 0]

\* 24 h have passed since the ban.
Expire(s) ==
  /\ Blacklisted(s)
  /\ ban' = [ban EXCEPT ![s] = "none"]
  /\ UNCHANGED <<last, streak, place, hq, call, up>>

\* The process ends, wherever its calls are; the next one loads the cache file,
\* or begins without when it was interrupted in the middle of a write.
Restart ==
  /\ \/ UNCHANGED cache
     \/ EmptyCache
  /\ current' = None /\ checked' = FALSE
  /\ inner' = None /\ live' = FALSE
  /\ call' = [u \in Users |-> NoCall]
  /\ UNCHANGED up
-----------------------------------------------------------------------------
(* The inner client *)

Goto(u, at) == call' = [call EXCEPT ![u].at = at]
Done(u) == call' = [call EXCEPT ![u] = NoCall]

\* The servers that may answer a request: where the inner client stands, or, when
\* it is not connected, any that a retry reconnects to.  A daily K-line request
\* also moves from server to server as long as answers are empty.
Answering(job) == {s \in up : s = inner \/ ~live \/ job = "bars"}

\* A request is answered by s, where the inner client stands from then on.
AnsweredBy(s) ==
  /\ inner' = s
  /\ live' \in {live, TRUE}
  /\ s # inner => live'

\* The inner client's heartbeat finds its server dead: it moves to another one,
\* or lowers connected when there is none.  TdxSmartClient is not told.
InnerFailsOver ==
  /\ live
  /\ \/ \E s \in up \ {inner} : inner' = s /\ UNCHANGED live
     \/ live' = FALSE /\ UNCHANGED inner
  /\ UNCHANGED <<cache, place, call, up>>

\* Servers come and go.
Toggle ==
  /\ up' \in SUBSET Servers
  /\ UNCHANGED <<cache, place, hq, call>>
-----------------------------------------------------------------------------
(* The calls *)

Begin(u, c) ==
  /\ call[u].at = "idle"
  /\ call' = [call EXCEPT ![u] = c]
  /\ UNCHANGED <<cache, place, hq, up>>

ConnectToAny(u) == Begin(u, [NoCall EXCEPT !.job = "any", !.at = "cached"])

\* get_security_bars and get_security_quotes
Get(u, job) == Begin(u, [NoCall EXCEPT !.job = job, !.at = "ask", !.left = MaxRetry])

ProbeAndCache(u) == Begin(u, [NoCall EXCEPT !.job = "probe", !.at = "scan", !.togo = Primary])

ClearCache(u) ==
  /\ call[u].at = "idle"
  /\ EmptyCache
  /\ UNCHANGED <<place, hq, call, up>>

\* The binding's disconnect reaches through to the inner client.
Disconnect(u) ==
  /\ call[u].at = "idle"
  /\ live' = FALSE
  /\ UNCHANGED <<cache, place, inner, call, up>>
-----------------------------------------------------------------------------
(* connect_to_any, connect_and_record, try_next_server, probe_and_cache *)

\* The server that last worked comes first, banned or not.
Cached(u) ==
  /\ call[u].at = "cached"
  /\ call' = [call EXCEPT ![u].at = IF last = None THEN "survey" ELSE "dial",
                          ![u].server = last, ![u].then = "heal"]
  /\ UNCHANGED <<cache, place, hq, up>>

\* inner.connect: a dial that fails leaves the inner client where it was.
Dial(u) ==
  LET s == call[u].server
  IN /\ call[u].at = "dial"
     /\ \/ /\ s \in up
           /\ inner' = s /\ live' = TRUE
           /\ call' = [call EXCEPT ![u].at = IF call[u].job = "probe" THEN "note" ELSE "landed",
                                   ![u].tried = TRUE]
        \/ /\ s \notin up
           /\ call' = [call EXCEPT ![u].at = "miss", ![u].tried = TRUE]
           /\ UNCHANGED hq
     /\ UNCHANGED <<cache, place, up>>

Landed(u) ==
  /\ call[u].at = "landed"
  /\ current' = call[u].server /\ checked' = FALSE
  /\ Goto(u, "note")
  /\ UNCHANGED <<cache, hq, up>>

\* The next attempt of get_security_bars, or the error.
NextAttempt(c) ==
  IF c.left > 1 THEN [NoCall EXCEPT !.job = c.job, !.at = "ask", !.left = c.left - 1] ELSE NoCall

\* record_success after a dial; probe_and_cache hangs up and goes on.
Note(u) ==
  /\ call[u].at = "note"
  /\ RecordSuccess(call[u].server)
  /\ call' = [call EXCEPT ![u] = CASE @.job = "any" -> NoCall
                                   [] @.job = "probe" -> [@ EXCEPT !.at = "hangup"]
                                   [] OTHER -> NextAttempt(@)]
  /\ UNCHANGED <<place, hq, up>>

\* record_failure, after a dial, a request or a check.
Miss(u) ==
  /\ call[u].at = "miss"
  /\ RecordFailure(call[u].server)
  /\ Goto(u, call[u].then)
  /\ UNCHANGED <<place, hq, up>>

\* The server that last worked stays the first choice although it failed.
MutHeal(u) ==
  /\ call[u].at = "heal"
  /\ Goto(u, "survey")
  /\ UNCHANGED <<cache, place, hq, up>>

\* clear_last_success
Heal(u) ==
  /\ call[u].at = "heal"
  /\ last' = None
  /\ Goto(u, "survey")
  /\ UNCHANGED <<ban, streak, place, hq, up>>

\* The bans are followed although everyone is banned.
MutSurvey(u) ==
  LET any == call[u].job = "any"
  IN /\ call[u].at = "survey"
     /\ call' = [call EXCEPT ![u].at = "scan", ![u].then = "scan", ![u].tried = FALSE,
                             ![u].togo = IF any THEN Primary ELSE Primary \ {current},
                             ![u].more = any]
     /\ UNCHANGED <<cache, place, hq, up>>

\* The candidates, and whether their bans are ignored because all are banned.
\* A failover leaves out the current server and knows the primary ones only.
Survey(u) ==
  LET any == call[u].job = "any"
      candidates == IF any THEN Servers ELSE Primary \ {current}
  IN /\ call[u].at = "survey"
     /\ call' = [call EXCEPT ![u].at = "scan", ![u].then = "scan", ![u].tried = FALSE,
                             ![u].togo = IF any THEN Primary ELSE candidates,
                             ![u].more = any, ![u].ignore = AllBlacklisted(candidates)]
     /\ UNCHANGED <<cache, place, hq, up>>

\* The next server of the list: passed over when banned, else dialled.  After the
\* primary servers connect_to_any goes on with all that are known.
Scan(u) ==
  /\ call[u].at = "scan"
  /\ \/ \E s \in call[u].togo :
          LET skip == Blacklisted(s) /\ ~call[u].ignore /\ call[u].job # "probe"
          IN call' = [call EXCEPT ![u].togo = @ \ {s},
                                  ![u].server = IF skip THEN @ ELSE s,
                                  ![u].then = "scan",
                                  ![u].at = IF skip THEN "scan" ELSE "dial"]
     \/ /\ call[u].togo = {}
        /\ IF call[u].more
           THEN call' = [call EXCEPT ![u].togo = Servers, ![u].more = FALSE]
           ELSE Done(u)
  /\ UNCHANGED <<cache, place, hq, up>>

\* inner.disconnect, after a probe's dial or a failed check.
Hangup(u) ==
  /\ call[u].at = "hangup"
  /\ live' = FALSE
  /\ Goto(u, IF call[u].job = "probe" THEN "scan" ELSE "survey")
  /\ UNCHANGED <<cache, place, inner, up>>
-----------------------------------------------------------------------------
(* get_security_bars, get_security_quotes, lazy_health_check *)

Ask(u) ==
  /\ call[u].at = "ask"
  /\ \/ \E s \in Answering(call[u].job) :
          /\ AnsweredBy(s)
          /\ \/ Done(u)
             \/ call' = [call EXCEPT ![u].at = "check", ![u].via = s]
     \/ /\ call' = [call EXCEPT ![u].at = "blame", ![u].via = inner]
        /\ UNCHANGED hq
  /\ UNCHANGED <<cache, place, up>>

\* record_current_failure reads current_server.
Blame(u) ==
  /\ call[u].at = "blame"
  /\ call' = [call EXCEPT ![u].at = IF current = None THEN "survey" ELSE "miss",
                          ![u].server = current, ![u].then = "survey"]
  /\ UNCHANGED <<cache, place, hq, up>>

\* A server that was checked may have nothing to answer; without a current server
\* the check fails.
Check(u) ==
  /\ call[u].at = "check"
  /\ call' = [call EXCEPT ![u] =
       CASE checked -> NextAttempt(@)
         [] ~checked /\ current = None -> [@ EXCEPT !.at = "survey"]
         [] OTHER -> [@ EXCEPT !.at = "verify", !.server = current]]
  /\ UNCHANGED <<cache, place, hq, up>>

\* K-lines of a stock that has some are asked for: they come, or the answer is
\* empty or does not parse, or none comes.
Verify(u) ==
  /\ call[u].at = "verify"
  /\ \/ \E s \in Answering("quotes"), at \in {"vouch", "ban"} :
          AnsweredBy(s) /\ call' = [call EXCEPT ![u].at = at, ![u].via = s]
     \/ /\ call' = [call EXCEPT ![u].at = "miss", ![u].then = "hangup", ![u].via = inner]
        /\ UNCHANGED hq
  /\ UNCHANGED <<cache, place, up>>

Vouch(u) ==
  /\ call[u].at = "vouch"
  /\ checked' = TRUE
  /\ RecordSuccess(call[u].server)
  /\ call' = [call EXCEPT ![u] = NextAttempt(@)]
  /\ UNCHANGED <<current, hq, up>>

Ban(u) ==
  /\ call[u].at = "ban"
  /\ AddToBlacklist(call[u].server, "protocol")
  /\ call' = [call EXCEPT ![u].at = "miss", ![u].then = "hangup"]
  /\ UNCHANGED <<last, streak, place, hq, up>>
-----------------------------------------------------------------------------
Call(u) ==
  \/ ConnectToAny(u) \/ ProbeAndCache(u) \/ ClearCache(u) \/ Disconnect(u)
  \/ \E job \in Asking : Get(u, job)

Step(u) ==
  \/ Cached(u) \/ Dial(u) \/ Landed(u) \/ Note(u) \/ Miss(u) \/ Heal(u) \/ Survey(u) \/ Scan(u)
  \/ Hangup(u) \/ Ask(u) \/ Blame(u) \/ Check(u) \/ Verify(u) \/ Vouch(u) \/ Ban(u)

Next ==
  \/ \E u \in Users : Call(u) \/ Step(u)
  \/ \E s \in Servers : Expire(s)
  \/ Restart \/ InnerFailsOver \/ Toggle

Spec == Init /\ [][Next]_vars

\* Callers' threads run; nobody need call, expire, come back or fail over.
FairSpec == Spec /\ \A u \in Users : WF_vars(Step(u))
-----------------------------------------------------------------------------
(* Properties *)

\* A ban for failures is earned by that many failures in a row: whatever
\* successes, checks, probes, expiries and restarts come in between, none is left
\* over from a streak that has ended.
StreakBansEarned == \A s \in Servers : ban[s] = "connect_fail_streak" => streak[s] = Streak

\* A connect_to_any or a failover that gives up has dialled someone, if it had
\* anyone to dial: bans alone never refuse service (comment of all_blacklisted),
\* also when bans expire or are added during the scan (with one caller).
GaveUp(c) == c.job \in Asking \cup {"any"} /\ c.at = "scan" /\ c.togo = {} /\ ~c.more
NoRefusalUntried ==
  \A u \in Users : GaveUp(call[u]) /\ (call[u].job = "any" \/ Primary \ {current} # {}) => call[u].tried

\* A connect_to_any that finds nobody leaves no server that failed as the first
\* choice of the next one (with one caller).
SelfHeals == \A u \in Users : GaveUp(call[u]) /\ call[u].job = "any" => last = None

\* When one server is up for good and the caller keeps calling connect_to_any,
\* the client gets there again and again although that server is banned and no
\* ban expires (restarts and clear_cache, which begin anew, left aside): the dead ones earn their bans until all are ignored.
Reconnects ==
  \A s \in Servers :
    /\ <>[](up = {s})
    /\ <>[][\A t \in Servers : ~Expire(t)]_vars
    /\ <>[][~Restart /\ \A u \in Users : ~ClearCache(u)]_vars
    /\ \E u \in Users : []<><<ConnectToAny(u)>>_vars
    => []<>(live /\ inner = s)

\* A failure is charged to, and a protocol ban put on, the server that failed
\* (comment of record_current_failure: the server connected to at present).  The
\* inner client moves by itself, and current_server does not follow.
BlamesTheRightServer ==
  \A u \in Users :
    \/ call[u].at = "ban"
    \/ call[u].at = "miss" /\ call[u].then \in {"survey", "hangup"}
    => call[u].via \in {None, call[u].server}

\* A server found with a protocol anomaly gets the ban that only expiry lifts
\* (module comment: a protocol entry can only wait for its expiry).  If it is banned for
\* its failures already the anomaly is not recorded, and its next success lifts that ban.
AnomalyIsRecorded ==
  [][\A u \in Users : Ban(u) => ban'[call[u].server] = "protocol"]_vars
-----------------------------------------------------------------------------
(* What the properties of one caller rest on *)

\* A scan that has dialled nobody yet still has somebody to dial: when it heeds the
\* bans, one who is not banned, since only a dial of its own bans anyone.
Ahead(c) == c.togo \cup (IF c.more THEN Servers ELSE {})
SomeoneAhead ==
  \A u \in Users : LET c == call[u] IN
    /\ c.at = "scan" /\ c.job \in Asking \cup {"any"} /\ ~c.tried =>
         IF c.ignore THEN Ahead(c) # {} \/ (c.job # "any" /\ Primary \subseteq {current})
         ELSE \E s \in Ahead(c) : ~Blacklisted(s)
    /\ c.at = "miss" /\ c.then = "scan" => c.tried

\* connect_to_any forgets the server that last worked, if it fails, before it surveys
\* the others.
ForgetsFirst ==
  \A u \in Users : LET c == call[u] IN
    c.job = "any" =>
      /\ c.at \in {"cached", "dial", "landed", "note", "miss", "heal", "survey", "scan"}
      /\ c.at \in {"dial", "miss"} => c.then \in {"heal", "scan"}
      /\ c.at \in {"survey", "scan"} \/ (c.at \in {"dial", "miss"} /\ c.then = "scan") => last = None
=============================================================================
