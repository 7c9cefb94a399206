--------------------------- MODULE SmartClient_proofs --------------------------
(* Proofs about SmartClient, for any callers, servers and streaks: types, and that      *)
(* every ban for failures is earned; with one caller, that bans never refuse service,   *)
(* and that a connect which finds nobody forgets the first choice.                      *)
EXTENDS SmartClient, TLAPS

Calls ==
  [job : {"none", "any", "probe"} \cup Asking, at : Places,
   server : Servers \cup {None}, then : Places, togo : SUBSET Servers,
   more : BOOLEAN, ignore : BOOLEAN, left : 0..MaxRetry,
   via : Servers \cup {None}, tried : BOOLEAN]

IInv == TypeOK /\ StreakBansEarned

-----------------------------------------------------------------------------
(* The cache *)

CacheOK ==
  /\ last \in Servers \cup {None}
  /\ ban \in [Servers -> Reasons]
  /\ streak \in [Servers -> 0..Streak]

\* A ban with another reason than failures needs no streak.
LEMMA AddKeeps ==
  ASSUME CacheOK, StreakBansEarned, NEW s, AddToBlacklist(s, "protocol"), UNCHANGED <<last, streak>>
  PROVE  CacheOK' /\ StreakBansEarned'
  BY DEF CacheOK, StreakBansEarned, AddToBlacklist, Blacklisted, Reasons

\* A success lifts the ban whose streak it ends.
LEMMA SuccessKeeps ==
  ASSUME CacheOK, StreakBansEarned, NEW s \in Servers \cup {None}, RecordSuccess(s)
  PROVE  CacheOK' /\ StreakBansEarned'
  <1>1. CacheOK'
    <2>1. 0 \in 0..Streak
      BY SmartAssumption
    <2>2. streak' \in [Servers -> 0..Streak]
      BY <2>1 DEF CacheOK, RecordSuccess
    <2>3. ban' \in [Servers -> Reasons]
      BY DEF CacheOK, RecordSuccess, Reasons
    <2>4. QED
      BY <2>2, <2>3 DEF CacheOK, RecordSuccess
  <1>2. ASSUME NEW t \in Servers, ban'[t] = "connect_fail_streak"
        PROVE  streak'[t] = Streak
    <2>1. CASE t = s
      BY <1>2, <2>1 DEF CacheOK, RecordSuccess
    <2>2. CASE t # s
      <3>1. ban'[t] = ban[t] /\ streak'[t] = streak[t]
        BY <2>2 DEF CacheOK, RecordSuccess
      <3>2. QED
        BY <1>2, <3>1 DEF StreakBansEarned
    <2>3. QED
      BY <2>1, <2>2
  <1>3. QED
    BY <1>1, <1>2 DEF StreakBansEarned

\* A failure bans at the end of a streak, which then stays as long.
LEMMA FailureKeeps ==
  ASSUME CacheOK, StreakBansEarned, NEW s \in Servers \cup {None}, RecordFailure(s)
  PROVE  CacheOK' /\ StreakBansEarned'
  <1>1. Streak \in Nat \ {0} /\ None \notin Servers
    BY SmartAssumption
  <1>2. streak' \in [Servers -> 0..Streak]
    <2>1. \A n \in 0..Streak : (IF n < Streak THEN n + 1 ELSE n) \in 0..Streak
      BY <1>1
    <2>2. streak' = [streak EXCEPT ![s] = IF streak[s] < Streak THEN streak[s] + 1 ELSE streak[s]]
      BY DEF RecordFailure
    <2>3. QED
      BY <2>1, <2>2 DEF CacheOK
  <1>3. ban' \in [Servers -> Reasons]
    BY DEF CacheOK, RecordFailure, AddToBlacklist, Reasons
  <1>4. ASSUME NEW t \in Servers, ban'[t] = "connect_fail_streak"
        PROVE  streak'[t] = Streak
    <2>1. CASE t = s
      <3>1. streak'[t] = IF streak[t] < Streak THEN streak[t] + 1 ELSE streak[t]
        BY <2>1 DEF CacheOK, RecordFailure
      <3>2. CASE ban[t] = "connect_fail_streak"
        BY <1>1, <3>1, <3>2 DEF StreakBansEarned
      <3>3. CASE ban[t] # "connect_fail_streak"
        <4>1. streak'[t] >= Streak
          BY <1>4, <2>1, <3>3 DEF RecordFailure
        <4>2. QED
          BY <1>1, <1>2, <4>1
      <3>4. QED
        BY <3>2, <3>3
    <2>2. CASE t # s
      <3>1. ban'[t] = ban[t]
        BY <2>2 DEF CacheOK, RecordFailure, AddToBlacklist
      <3>2. streak'[t] = streak[t]
        BY <2>2 DEF CacheOK, RecordFailure
      <3>3. QED
        BY <1>4, <3>1, <3>2 DEF StreakBansEarned
    <2>3. QED
      BY <2>1, <2>2
  <1>5. QED
    BY <1>2, <1>3, <1>4 DEF CacheOK, StreakBansEarned, RecordFailure

\* An empty cache has no bans.
LEMMA EmptyKeeps ==
  ASSUME EmptyCache
  PROVE  CacheOK' /\ StreakBansEarned'
  BY SmartAssumption DEF EmptyCache, CacheOK, StreakBansEarned, Reasons

-----------------------------------------------------------------------------
(* The calls *)

\* A call at its end, or before its next attempt.
LEMMA AttemptType ==
  ASSUME NEW c \in Calls
  PROVE  NoCall \in Calls /\ NextAttempt(c) \in Calls
  <1>1. NoCall \in Calls
    BY SmartAssumption DEF NoCall, Calls, Places
  <1>2. CASE c.left > 1
    <2>1. c.left - 1 \in 0..MaxRetry
      BY <1>2, SmartAssumption DEF Calls
    <2>2. QED
      BY <1>1, <1>2, <2>1 DEF NextAttempt, NoCall, Calls, Places
  <1>3. QED
    BY <1>1, <1>2 DEF NextAttempt

\* Types without those of the cache.
RestOK ==
  /\ current \in Servers \cup {None}
  /\ checked \in BOOLEAN /\ live \in BOOLEAN
  /\ inner \in Servers \cup {None}
  /\ up \subseteq Servers
  /\ call \in [Users -> Calls]

LEMMA TypeParts == TypeOK <=> CacheOK /\ RestOK
  BY DEF TypeOK, CacheOK, RestOK, Calls

\* Every step of a call keeps the types of what is not in the cache.
LEMMA StepType ==
  ASSUME RestOK, last \in Servers \cup {None}, NEW u \in Users, Step(u)
  PROVE  RestOK'
  <1> USE DEF RestOK, Places
  <1>1. call[u] \in Calls /\ NoCall \in Calls /\ NextAttempt(call[u]) \in Calls
    BY AttemptType
  <1>2. CASE Cached(u)
    BY <1>1, <1>2 DEF Cached, Calls, hq, place
  <1>3. CASE Dial(u)
    <2>1. [call[u] EXCEPT !.at = "note", !.tried = TRUE] \in Calls
          /\ [call[u] EXCEPT !.at = "landed", !.tried = TRUE] \in Calls
          /\ [call[u] EXCEPT !.at = "miss", !.tried = TRUE] \in Calls
      BY <1>1 DEF Calls
    <2>2. \E c \in Calls : call' = [call EXCEPT ![u] = c]
      BY <1>3, <2>1 DEF Dial
    <2>3. call' \in [Users -> Calls]
      BY <2>2
    <2>4. current' = current /\ checked' = checked /\ up' = up
      BY <1>3 DEF Dial, place
    <2>5. inner' \in Servers \cup {None} /\ live' \in BOOLEAN
      BY <1>3 DEF Dial, hq
    <2>6. QED
      BY <2>3, <2>4, <2>5
  <1>4. CASE Landed(u)
    BY <1>1, <1>4 DEF Landed, Goto, Calls, hq
  <1>5. CASE Note(u)
    <2>1. [call[u] EXCEPT !.at = "hangup"] \in Calls
      BY <1>1 DEF Calls
    <2>2. QED
      BY <1>1, <1>5, <2>1 DEF Note, hq, place
  <1>6. CASE Miss(u) \/ Heal(u)
    BY <1>1, <1>6 DEF Miss, Heal, Goto, Calls, hq, place
  <1>7. CASE Survey(u)
    <2>1. ASSUME NEW togo \in SUBSET Servers, NEW more \in BOOLEAN, NEW ignore \in BOOLEAN
          PROVE  [call[u] EXCEPT !.at = "scan", !.then = "scan", !.tried = FALSE, !.togo = togo,
                                 !.more = more, !.ignore = ignore] \in Calls
      BY <1>1 DEF Calls
    <2>2. Primary \subseteq Servers
      BY SmartAssumption
    <2>3. \E c \in Calls : call' = [call EXCEPT ![u] = c]
      <3> DEFINE any == call[u].job = "any"
                 candidates == IF any THEN Servers ELSE Primary \ {current}
                 togo == IF any THEN Primary ELSE candidates
      <3>1. togo \in SUBSET Servers /\ any \in BOOLEAN /\ AllBlacklisted(candidates) \in BOOLEAN
        BY <2>2 DEF AllBlacklisted
      <3>2. call' = [call EXCEPT ![u] = [call[u] EXCEPT !.at = "scan", !.then = "scan", !.tried = FALSE,
                       !.togo = togo, !.more = any, !.ignore = AllBlacklisted(candidates)]]
        BY <1>7 DEF Survey
      <3> HIDE DEF any, togo, candidates
      <3>3. QED
        BY <2>1, <3>1, <3>2
    <2>4. call' \in [Users -> Calls]
      BY <2>3
    <2>5. UNCHANGED <<place, hq, up>>
      BY <1>7 DEF Survey
    <2>6. QED
      BY <2>4, <2>5 DEF hq, place
  <1>8. CASE Scan(u)
    <2>1. ASSUME NEW s \in Servers, NEW t \in Servers \cup {None}, NEW at \in {"scan", "dial"}
          PROVE  [call[u] EXCEPT !.togo = call[u].togo \ {s}, !.server = t, !.then = "scan", !.at = at] \in Calls
      BY <1>1 DEF Calls
    <2>2. [call[u] EXCEPT !.togo = Servers, !.more = FALSE] \in Calls
      BY <1>1 DEF Calls
    <2>3. ASSUME NEW s \in call[u].togo, NEW skip \in BOOLEAN,
                 call' = [call EXCEPT ![u].togo = @ \ {s},
                                      ![u].server = IF skip THEN @ ELSE s,
                                      ![u].then = "scan",
                                      ![u].at = IF skip THEN "scan" ELSE "dial"]
          PROVE  call' \in [Users -> Calls]
      <3>1. s \in Servers /\ call[u].server \in Servers \cup {None}
        BY <1>1 DEF Calls
      <3>2. CASE skip
        <4>1. call' = [call EXCEPT ![u] = [call[u] EXCEPT !.togo = call[u].togo \ {s}, !.server = call[u].server,
                                                          !.then = "scan", !.at = "scan"]]
          BY <2>3, <3>2
        <4>2. QED
          BY <2>1, <3>1, <4>1
      <3>3. CASE ~skip
        <4>1. call' = [call EXCEPT ![u] = [call[u] EXCEPT !.togo = call[u].togo \ {s}, !.server = s,
                                                          !.then = "scan", !.at = "dial"]]
          BY <2>3, <3>3
        <4>2. QED
          BY <2>1, <3>1, <4>1
      <3>4. QED
        BY <3>2, <3>3
    <2>4. ASSUME call' = [call EXCEPT ![u].togo = Servers, ![u].more = FALSE]
          PROVE  call' \in [Users -> Calls]
      BY <2>2, <2>4
    <2>5. ASSUME Done(u)
          PROVE  call' \in [Users -> Calls]
      BY <1>1, <2>5 DEF Done
    <2>6. call' \in [Users -> Calls]
      <3>1. CASE call[u].togo = {}
        BY <1>8, <2>4, <2>5, <3>1 DEF Scan
      <3>2. CASE call[u].togo # {}
        <4>1. PICK s \in call[u].togo :
                LET skip == Blacklisted(s) /\ ~call[u].ignore /\ call[u].job # "probe"
                IN call' = [call EXCEPT ![u].togo = @ \ {s},
                                        ![u].server = IF skip THEN @ ELSE s,
                                        ![u].then = "scan",
                                        ![u].at = IF skip THEN "scan" ELSE "dial"]
          BY <1>8, <3>2, Zenon DEF Scan
        <4>2. (Blacklisted(s) /\ ~call[u].ignore /\ call[u].job # "probe") \in BOOLEAN
          OBVIOUS
        <4>3. QED
          BY <2>3, <4>1, <4>2
      <3>3. QED
        BY <3>1, <3>2
    <2>7. QED
      BY <1>8, <2>6 DEF Scan, hq, place
  <1>9. CASE Hangup(u)
    BY <1>1, <1>9 DEF Hangup, Goto, Calls, place
  <1>10. CASE Ask(u)
    <2>1. ASSUME NEW s \in Servers \cup {None}, NEW at \in {"check", "blame"}
          PROVE  [call[u] EXCEPT !.at = at, !.via = s] \in Calls
      BY <1>1 DEF Calls
    <2>2. (inner' \in Servers /\ live' \in BOOLEAN) \/ UNCHANGED hq
      BY <1>10 DEF Ask, Answering, AnsweredBy
    <2>3. \E c \in Calls : call' = [call EXCEPT ![u] = c]
      BY <1>1, <1>10, <2>1 DEF Ask, Answering, Done
    <2>4. QED
      BY <1>10, <2>2, <2>3 DEF Ask, hq, place
  <1>11. CASE Blame(u)
    BY <1>1, <1>11 DEF Blame, Calls, hq, place
  <1>12. CASE Check(u)
    <2>1. [call[u] EXCEPT !.at = "survey"] \in Calls /\ [call[u] EXCEPT !.at = "verify", !.server = current] \in Calls
      BY <1>1 DEF Calls
    <2>2. QED
      BY <1>1, <1>12, <2>1 DEF Check, hq, place
  <1>13. CASE Verify(u)
    <2>1. ASSUME NEW s \in Servers \cup {None}, NEW at \in {"vouch", "ban"}
          PROVE  [call[u] EXCEPT !.at = at, !.via = s] \in Calls
      BY <1>1 DEF Calls
    <2>2. [call[u] EXCEPT !.at = "miss", !.then = "hangup", !.via = inner] \in Calls
      BY <1>1 DEF Calls
    <2>3. (inner' \in Servers /\ live' \in BOOLEAN) \/ UNCHANGED hq
      BY <1>13 DEF Verify, Answering, AnsweredBy
    <2>4. \E c \in Calls : call' = [call EXCEPT ![u] = c]
      BY <1>1, <1>13, <2>1, <2>2 DEF Verify, Answering
    <2>5. QED
      BY <1>13, <2>3, <2>4 DEF Verify, hq, place
  <1>14. CASE Vouch(u)
    BY <1>1, <1>14 DEF Vouch, hq
  <1>15. CASE Ban(u)
    BY <1>1, <1>15 DEF Ban, Calls, hq, place
  <1>16. QED
    BY <1>2, <1>3, <1>4, <1>5, <1>6, <1>7, <1>8, <1>9, <1>10, <1>11, <1>12, <1>13, <1>14, <1>15 DEF Step

\* A step that leaves the cache alone keeps its types and bans.
LEMMA CacheUnchanged ==
  ASSUME CacheOK, StreakBansEarned, UNCHANGED cache
  PROVE  CacheOK' /\ StreakBansEarned'
  BY DEF cache, CacheOK, StreakBansEarned

\* Every step of a call that changes the cache does so by one of its sections.
LEMMA StepCache ==
  ASSUME CacheOK, StreakBansEarned, RestOK, NEW u \in Users, Step(u)
  PROVE  CacheOK' /\ StreakBansEarned'
  <1>1. call[u].server \in Servers \cup {None}
    BY DEF RestOK, Calls
  <1>2. CASE Note(u) \/ Vouch(u)
    BY <1>1, <1>2, SuccessKeeps DEF Note, Vouch
  <1>3. CASE Miss(u)
    BY <1>1, <1>3, FailureKeeps DEF Miss
  <1>4. CASE Ban(u)
    BY <1>4, AddKeeps DEF Ban
  <1>5. CASE Heal(u)
    BY <1>5 DEF Heal, CacheOK, StreakBansEarned
  <1>6. CASE Cached(u) \/ Dial(u) \/ Landed(u) \/ Survey(u) \/ Scan(u) \/ Hangup(u) \/ Ask(u) \/ Blame(u) \/ Check(u) \/ Verify(u)
    <2>1. UNCHANGED cache
      BY <1>6 DEF Cached, Dial, Landed, Survey, Scan, Hangup, Ask, Blame, Check, Verify
    <2>2. QED
      BY <2>1, CacheUnchanged
  <1>7. QED
    BY <1>2, <1>3, <1>4, <1>5, <1>6 DEF Step

-----------------------------------------------------------------------------

\* IInv is an inductive invariant.
THEOREM Inductive == Spec => []IInv
  <1>1. ASSUME Init
        PROVE  IInv
    <2>1. 0 \in 0..Streak
      BY SmartAssumption
    <2>2. CacheOK /\ StreakBansEarned
      BY <1>1, <2>1 DEF Init, CacheOK, StreakBansEarned, Reasons
    <2>3. NoCall \in Calls
      BY SmartAssumption DEF NoCall, Calls, Places
    <2>4. RestOK
      BY <1>1, <2>3 DEF Init, RestOK
    <2>5. QED
      BY <2>2, <2>4, TypeParts DEF IInv
  <1>2. ASSUME IInv, [Next]_vars
        PROVE  IInv'
    <2>1. CacheOK /\ RestOK /\ StreakBansEarned
      BY <1>2, TypeParts DEF IInv
    <2>2. SUFFICES CacheOK' /\ RestOK' /\ StreakBansEarned'
      BY TypeParts DEF IInv, TypeOK, CacheOK, RestOK, Calls
    <2>3. NoCall \in Calls
      BY SmartAssumption DEF NoCall, Calls, Places
    <2>4. ASSUME NEW u \in Users, Step(u)
          PROVE  CacheOK' /\ RestOK' /\ StreakBansEarned'
      BY <2>1, <2>4, StepType, StepCache DEF CacheOK
    <2>5. ASSUME NEW u \in Users, Call(u)
          PROVE  CacheOK' /\ RestOK' /\ StreakBansEarned'
      <3>1. CASE ClearCache(u)
        BY <2>1, <3>1, EmptyKeeps DEF ClearCache, RestOK, hq, place
      <3>2. CASE Disconnect(u)
        BY <2>1, <3>2, CacheUnchanged DEF Disconnect, RestOK, place
      <3>3. ASSUME NEW c \in Calls, Begin(u, c)
            PROVE  CacheOK' /\ RestOK' /\ StreakBansEarned'
        BY <2>1, <3>3, CacheUnchanged DEF Begin, RestOK, hq, place
      <3>4. /\ [NoCall EXCEPT !.job = "any", !.at = "cached"] \in Calls
            /\ [NoCall EXCEPT !.job = "probe", !.at = "scan", !.togo = Primary] \in Calls
            /\ \A job \in Asking : [NoCall EXCEPT !.job = job, !.at = "ask", !.left = MaxRetry] \in Calls
        <4>1. MaxRetry \in 0..MaxRetry /\ Primary \in SUBSET Servers
          BY SmartAssumption
        <4>2. QED
          BY <2>3, <4>1 DEF Calls, Places
      <3>5. QED
        BY <2>5, <3>1, <3>2, <3>3, <3>4 DEF Call, ConnectToAny, ProbeAndCache, Get
    <2>6. ASSUME NEW s \in Servers, Expire(s)
          PROVE  CacheOK' /\ RestOK' /\ StreakBansEarned'
      BY <2>1, <2>6 DEF Expire, CacheOK, RestOK, StreakBansEarned, Reasons, hq, place
    <2>7. CASE Restart
      <3>1. CacheOK' /\ StreakBansEarned'
        BY <2>1, <2>7, CacheUnchanged, EmptyKeeps DEF Restart
      <3>2. RestOK'
        BY <2>1, <2>3, <2>7 DEF Restart, RestOK
      <3>3. QED
        BY <3>1, <3>2
    <2>8. CASE InnerFailsOver \/ Toggle
      BY <2>1, <2>8, CacheUnchanged DEF InnerFailsOver, Toggle, RestOK, hq, place
    <2>9. CASE UNCHANGED vars
      BY <2>1, <2>9 DEF vars, CacheOK, RestOK, StreakBansEarned
    <2>10. QED
      BY <1>2, <2>4, <2>5, <2>6, <2>7, <2>8, <2>9 DEF Next
  <1>3. QED
    BY <1>1, <1>2, PTL DEF Spec

\* Every variable keeps its type.
THEOREM TypeCorrect == Spec => []TypeOK
  <1>1. IInv => TypeOK
    BY DEF IInv
  <1>2. QED
    BY <1>1, Inductive, PTL

\* In every reachable state a server banned for its failures has failed that often in a
\* row, whatever callers, expiries and restarts come in between.
THEOREM BansAreEarned == Spec => []StreakBansEarned
  <1>1. IInv => StreakBansEarned
    BY DEF IInv
  <1>2. QED
    BY <1>1, Inductive, PTL
-----------------------------------------------------------------------------
(* With one caller: no refusal without a dial, and no failed first choice *)

\* SomeoneAhead and ForgetsFirst for one caller.
AheadOf(u) ==
  /\ call[u].at = "scan" /\ call[u].job \in Asking \cup {"any"} /\ ~call[u].tried =>
       IF call[u].ignore THEN Ahead(call[u]) # {} \/ (call[u].job # "any" /\ Primary \subseteq {current})
       ELSE \E s \in Ahead(call[u]) : ~Blacklisted(s)
  /\ call[u].at = "miss" /\ call[u].then = "scan" => call[u].tried
ForgetsOf(u) ==
  call[u].job = "any" =>
    /\ call[u].at \in {"cached", "dial", "landed", "note", "miss", "heal", "survey", "scan"}
    /\ call[u].at \in {"dial", "miss"} => call[u].then \in {"heal", "scan"}
    /\ call[u].at \in {"survey", "scan"} \/ (call[u].at \in {"dial", "miss"} /\ call[u].then = "scan") => last = None

LEMMA OneCaller ==
  ASSUME NEW u, Users = {u}
  PROVE  /\ SomeoneAhead <=> AheadOf(u)
         /\ ForgetsFirst <=> ForgetsOf(u)
  BY DEF SomeoneAhead, AheadOf, ForgetsFirst, ForgetsOf

\* A call that is neither scanning nor charging a failure owes nothing.
LEMMA ElsewhereAhead ==
  ASSUME NEW u \in Users, call'[u].at \notin {"scan", "miss"}
  PROVE  AheadOf(u)'
  BY DEF AheadOf

\* What a step of a scan does to its call.
LEMMA ScanCases ==
  ASSUME NEW u \in Users, Scan(u)
  PROVE  \/ /\ call[u].togo = {} /\ call[u].more
            /\ call' = [call EXCEPT ![u].togo = Servers, ![u].more = FALSE]
         \/ call' = [call EXCEPT ![u] = NoCall]
         \/ \E s \in call[u].togo :
              /\ Blacklisted(s) /\ ~call[u].ignore
              /\ call' = [call EXCEPT ![u].togo = @ \ {s}, ![u].server = @, ![u].then = "scan", ![u].at = "scan"]
         \/ \E s \in call[u].togo :
              call' = [call EXCEPT ![u].togo = @ \ {s}, ![u].server = s, ![u].then = "scan", ![u].at = "dial"]
  <1>1. CASE call[u].togo = {}
    <2>1. CASE call[u].more
      BY <1>1, <2>1 DEF Scan
    <2>2. CASE ~call[u].more
      BY <1>1, <2>2 DEF Scan, Done
    <2>3. QED
      BY <2>1, <2>2
  <1>2. CASE call[u].togo # {}
    <2>1. PICK s \in call[u].togo :
            LET skip == Blacklisted(s) /\ ~call[u].ignore /\ call[u].job # "probe"
            IN call' = [call EXCEPT ![u].togo = @ \ {s},
                                    ![u].server = IF skip THEN @ ELSE s,
                                    ![u].then = "scan",
                                    ![u].at = IF skip THEN "scan" ELSE "dial"]
      BY <1>2, Zenon DEF Scan
    <2> DEFINE skip == Blacklisted(s) /\ ~call[u].ignore /\ call[u].job # "probe"
    <2>2. CASE skip
      <3>1. call' = [call EXCEPT ![u].togo = @ \ {s}, ![u].server = @, ![u].then = "scan", ![u].at = "scan"]
        BY <2>1, <2>2
      <3>2. QED
        BY <2>2, <3>1, Zenon
    <2>3. CASE ~skip
      <3>1. call' = [call EXCEPT ![u].togo = @ \ {s}, ![u].server = s, ![u].then = "scan", ![u].at = "dial"]
        BY <2>1, <2>3
      <3>2. QED
        BY <3>1, Zenon
    <2>4. QED
      BY <2>2, <2>3
  <1>3. QED
    BY <1>1, <1>2

\* Where a scan's call is afterwards.
LEMMA ScanGoes ==
  ASSUME NEW u \in Users, TypeOK, Scan(u)
  PROVE  /\ call'[u].job \in {call[u].job, "none"}
         /\ call'[u].job = "none" \/ call'[u].at = "scan" \/ (call'[u].at = "dial" /\ call'[u].then = "scan")
  <1>1. call \in [Users -> Calls] /\ call[u] \in Calls /\ call[u].at = "scan"
    BY TypeParts DEF RestOK, Scan
  <1>2. CASE call' = [call EXCEPT ![u].togo = Servers, ![u].more = FALSE]
    BY <1>1, <1>2 DEF Calls
  <1>3. CASE call' = [call EXCEPT ![u] = NoCall]
    BY <1>1, <1>3 DEF NoCall
  <1>4. ASSUME NEW s, NEW t, NEW at \in {"scan", "dial"},
               call' = [call EXCEPT ![u].togo = @ \ {s}, ![u].server = t, ![u].then = "scan", ![u].at = at]
        PROVE  /\ call'[u].job = call[u].job /\ call'[u].at = at /\ call'[u].then = "scan"
    BY <1>1, <1>4 DEF Calls
  <1>5. CASE \E s \in call[u].togo :
               call' = [call EXCEPT ![u].togo = @ \ {s}, ![u].server = @, ![u].then = "scan", ![u].at = "scan"]
    BY <1>4, <1>5
  <1>6. CASE \E s \in call[u].togo :
               call' = [call EXCEPT ![u].togo = @ \ {s}, ![u].server = s, ![u].then = "scan", ![u].at = "dial"]
    BY <1>4, <1>6
  <1>7. QED
    BY <1>2, <1>3, <1>5, <1>6, ScanCases, Zenon

\* Steps of a call keep somebody ahead of it.
LEMMA StepAhead ==
  ASSUME NEW u \in Users, TypeOK, AheadOf(u), Step(u)
  PROVE  AheadOf(u)'
  <1>1. call \in [Users -> Calls] /\ call[u] \in Calls
    BY TypeParts DEF RestOK
  <1>2. CASE Cached(u)
    BY <1>1, <1>2, ElsewhereAhead DEF Cached, Calls
  <1>3. CASE Dial(u)
    <2>1. call'[u].tried
      BY <1>1, <1>3 DEF Dial, Calls
    <2>2. QED
      BY <2>1 DEF AheadOf
  <1>4. CASE Landed(u) \/ Heal(u)
    BY <1>1, <1>4, ElsewhereAhead DEF Landed, Heal, Goto, Calls
  <1>5. CASE Note(u)
    <2>1. call'[u].at \in {"idle", "ask", "hangup"}
      BY <1>1, <1>5 DEF Note, NextAttempt, NoCall, Calls
    <2>2. QED
      BY <2>1, ElsewhereAhead
  <1>6. CASE Miss(u)
    <2>1. /\ call[u].at = "miss" /\ call'[u].at = call[u].then /\ call'[u].then = call[u].then
          /\ call'[u].tried = call[u].tried
      BY <1>1, <1>6 DEF Miss, Goto, Calls
    <2>2. CASE call[u].then = "scan"
      BY <2>1, <2>2 DEF AheadOf
    <2>3. CASE call[u].then # "scan"
      BY <2>1, <2>3 DEF AheadOf
    <2>4. QED
      BY <2>2, <2>3
  <1>7. CASE Survey(u)
    <2>1. Primary \subseteq Servers /\ Servers # {}
      BY SmartAssumption
    <2>2. /\ call'[u].at = "scan" /\ call'[u].job = call[u].job /\ current' = current /\ ban' = ban
          /\ call'[u].ignore = AllBlacklisted(IF call[u].job = "any" THEN Servers ELSE Primary \ {current})
          /\ call'[u].togo = IF call[u].job = "any" THEN Primary ELSE Primary \ {current}
          /\ call'[u].more = (call[u].job = "any")
      BY <1>1, <1>7 DEF Survey, Calls, place, cache
    <2>3. Ahead(call'[u]) = IF call[u].job = "any" THEN Servers ELSE Primary \ {current}
      BY <2>1, <2>2 DEF Ahead
    <2>4. CASE call'[u].ignore
      <3>1. call[u].job # "any" => Ahead(call'[u]) # {} \/ Primary \subseteq {current}
        BY <2>3
      <3>2. call[u].job = "any" => Ahead(call'[u]) # {}
        BY <2>1, <2>3
      <3>3. QED
        BY <2>2, <2>4, <3>1, <3>2 DEF AheadOf, Ahead
    <2>5. CASE ~call'[u].ignore
      <3>1. PICK s \in Ahead(call'[u]) : ~Blacklisted(s)
        BY <2>2, <2>3, <2>5 DEF AllBlacklisted
      <3>2. ~Blacklisted(s)'
        BY <2>2, <3>1 DEF Blacklisted
      <3>3. QED
        BY <2>2, <2>5, <3>1, <3>2 DEF AheadOf, Ahead
    <2>6. QED
      BY <2>4, <2>5
  <1>8. CASE Scan(u)
    <2>1. current' = current /\ ban' = ban /\ call[u].at = "scan"
      BY <1>8 DEF Scan, place, cache
    <2>2. ASSUME call[u].togo = {}, call[u].more,
                 call' = [call EXCEPT ![u].togo = Servers, ![u].more = FALSE]
          PROVE  AheadOf(u)'
      <3>1. /\ Ahead(call'[u]) = Ahead(call[u]) /\ call'[u].job = call[u].job /\ call'[u].at = call[u].at
            /\ call'[u].tried = call[u].tried /\ call'[u].ignore = call[u].ignore
        BY <1>1, <2>2 DEF Calls, Ahead
      <3>2. QED
        BY <2>1, <3>1 DEF AheadOf, Ahead, Blacklisted
    <2>3. ASSUME NEW s \in call[u].togo, Blacklisted(s), ~call[u].ignore,
                 call' = [call EXCEPT ![u].togo = @ \ {s}, ![u].server = @, ![u].then = "scan", ![u].at = "scan"]
          PROVE  AheadOf(u)'
      <3>1. /\ call'[u].job = call[u].job /\ call'[u].at = "scan" /\ call'[u].tried = call[u].tried
            /\ ~call'[u].ignore /\ call'[u].more = call[u].more /\ call'[u].togo = call[u].togo \ {s}
        BY <1>1, <2>3 DEF Calls
      <3>2. ASSUME NEW t \in Ahead(call[u]), ~Blacklisted(t)
            PROVE  t \in Ahead(call'[u]) /\ ~Blacklisted(t)'
        BY <2>1, <2>3, <3>1, <3>2 DEF Ahead, Blacklisted
      <3>3. QED
        BY <2>1, <2>3, <3>1, <3>2 DEF AheadOf, Ahead
    <2>4. CASE call' = [call EXCEPT ![u] = NoCall]
      <3>1. call'[u].at = "idle"
        BY <1>1, <2>4 DEF NoCall
      <3>2. QED
        BY <3>1, ElsewhereAhead
    <2>5. ASSUME NEW s \in call[u].togo,
                 call' = [call EXCEPT ![u].togo = @ \ {s}, ![u].server = s, ![u].then = "scan", ![u].at = "dial"]
          PROVE  AheadOf(u)'
      <3>1. call'[u].at = "dial"
        BY <1>1, <2>5 DEF Calls
      <3>2. QED
        BY <3>1, ElsewhereAhead
    <2>6. QED
      BY <1>8, <2>2, <2>3, <2>4, <2>5, ScanCases, Zenon
  <1>9. CASE Hangup(u)
    <2>1. call'[u].job = call[u].job /\ call'[u].at = IF call[u].job = "probe" THEN "scan" ELSE "survey"
      BY <1>1, <1>9 DEF Hangup, Goto, Calls
    <2>2. QED
      BY <2>1 DEF AheadOf, Asking
  <1>10. CASE Ask(u)
    <2>1. call'[u].at \in {"idle", "check", "blame"}
      BY <1>1, <1>10 DEF Ask, Done, NoCall, Calls
    <2>2. QED
      BY <2>1, ElsewhereAhead
  <1>11. CASE Blame(u)
    <2>1. call'[u].at \in {"survey", "miss"} /\ call'[u].then = "survey"
      BY <1>1, <1>11 DEF Blame, Calls
    <2>2. QED
      BY <2>1 DEF AheadOf
  <1>12. CASE Check(u)
    <2>1. call'[u].at \in {"idle", "ask", "survey", "verify"}
      BY <1>1, <1>12 DEF Check, NextAttempt, NoCall, Calls
    <2>2. QED
      BY <2>1, ElsewhereAhead
  <1>13. CASE Verify(u)
    <2>1. call'[u].at \in {"vouch", "ban"} \/ (call'[u].at = "miss" /\ call'[u].then = "hangup")
      BY <1>1, <1>13 DEF Verify, Calls
    <2>2. QED
      BY <2>1 DEF AheadOf
  <1>14. CASE Vouch(u)
    <2>1. call'[u].at \in {"idle", "ask"}
      BY <1>1, <1>14 DEF Vouch, NextAttempt, NoCall, Calls
    <2>2. QED
      BY <2>1, ElsewhereAhead
  <1>15. CASE Ban(u)
    <2>1. call'[u].at = "miss" /\ call'[u].then = "hangup"
      BY <1>1, <1>15 DEF Ban, Calls
    <2>2. QED
      BY <2>1 DEF AheadOf
  <1>16. QED
    BY <1>2, <1>3, <1>4, <1>5, <1>6, <1>7, <1>8, <1>9, <1>10, <1>11, <1>12, <1>13, <1>14, <1>15 DEF Step

\* Steps of connect_to_any forget the server that last worked before they survey.
LEMMA StepForgets ==
  ASSUME NEW u \in Users, TypeOK, ForgetsOf(u), Step(u)
  PROVE  ForgetsOf(u)'
  <1>1. call \in [Users -> Calls] /\ call[u] \in Calls
    BY TypeParts DEF RestOK
  <1>2. CASE call[u].job # "any"
    <2>1. call'[u].job \in {call[u].job, "none"}
      <3>1. CASE Cached(u) \/ Dial(u) \/ Landed(u) \/ Miss(u) \/ Heal(u) \/ Survey(u) \/ Hangup(u) \/ Blame(u) \/ Ban(u) \/ Verify(u)
        BY <1>1, <3>1 DEF Cached, Dial, Landed, Miss, Heal, Survey, Hangup, Blame, Ban, Verify, Goto, Calls
      <3>2. CASE Note(u) \/ Check(u) \/ Vouch(u)
        <4>1. NextAttempt(call[u]).job \in {call[u].job, "none"}
          BY <1>1 DEF NextAttempt, NoCall, Calls
        <4>2. CASE Note(u)
          BY <1>1, <3>2, <4>1, <4>2 DEF Note, NoCall, Calls
        <4>3. CASE Check(u)
          BY <1>1, <3>2, <4>1, <4>3 DEF Check, NoCall, Calls
        <4>4. CASE Vouch(u)
          BY <1>1, <3>2, <4>1, <4>4 DEF Vouch
        <4>5. QED
          BY <3>2, <4>2, <4>3, <4>4
      <3>3. CASE Ask(u)
        BY <1>1, <3>3 DEF Ask, Done, NoCall, Calls
      <3>4. CASE Scan(u)
        BY <3>4, ScanGoes
      <3>5. QED
        BY <3>1, <3>2, <3>3, <3>4 DEF Step
    <2>2. QED
      BY <1>2, <2>1 DEF ForgetsOf
  <1>3. CASE call[u].job = "any"
    <2>1. /\ call[u].at \in {"cached", "dial", "landed", "note", "miss", "heal", "survey", "scan"}
          /\ call[u].at \in {"dial", "miss"} => call[u].then \in {"heal", "scan"}
          /\ call[u].at \in {"survey", "scan"} \/ (call[u].at \in {"dial", "miss"} /\ call[u].then = "scan") => last = None
      BY <1>3 DEF ForgetsOf
    <2>2. CASE Cached(u)
      <3>1. call'[u].then = "heal" /\ last' = last /\ call'[u].at = IF last = None THEN "survey" ELSE "dial"
        BY <1>1, <2>2 DEF Cached, Calls, cache
      <3>2. QED
        BY <3>1 DEF ForgetsOf
    <2>3. CASE Dial(u)
      <3>1. call'[u].then = call[u].then /\ last' = last /\ call'[u].at \in {"note", "landed", "miss"} /\ call[u].at = "dial"
        BY <1>1, <2>3 DEF Dial, Calls, cache
      <3>2. QED
        BY <2>1, <3>1 DEF ForgetsOf
    <2>4. CASE Landed(u)
      <3>1. call'[u].at = "note"
        BY <1>1, <2>4 DEF Landed, Goto, Calls
      <3>2. QED
        BY <3>1 DEF ForgetsOf
    <2>5. CASE Note(u)
      <3>1. call'[u].job = "none"
        BY <1>1, <1>3, <2>5 DEF Note, NoCall
      <3>2. QED
        BY <3>1 DEF ForgetsOf
    <2>6. CASE Miss(u)
      <3>1. call'[u].then = call[u].then /\ last' = last /\ call'[u].at = call[u].then /\ call[u].at = "miss"
        BY <1>1, <2>6 DEF Miss, RecordFailure, Goto, Calls
      <3>2. QED
        BY <2>1, <3>1 DEF ForgetsOf
    <2>7. CASE Heal(u)
      <3>1. call'[u].at = "survey" /\ last' = None
        BY <1>1, <2>7 DEF Heal, Goto, Calls
      <3>2. QED
        BY <3>1 DEF ForgetsOf
    <2>8. CASE Survey(u)
      <3>1. call'[u].at = "scan" /\ last' = last /\ call[u].at = "survey"
        BY <1>1, <2>8 DEF Survey, Calls, cache
      <3>2. QED
        BY <2>1, <3>1 DEF ForgetsOf
    <2>9. CASE Scan(u)
      <3>1. call[u].at = "scan" /\ last' = last
        BY <2>9 DEF Scan, cache
      <3>2. \/ call'[u].job = "none"
            \/ call'[u].at = "scan"
            \/ call'[u].at = "dial" /\ call'[u].then = "scan"
        BY <2>9, ScanGoes
      <3>3. QED
        BY <2>1, <3>1, <3>2 DEF ForgetsOf
    <2>10. CASE Hangup(u) \/ Ask(u) \/ Blame(u) \/ Check(u) \/ Verify(u) \/ Vouch(u) \/ Ban(u)
      BY <2>1, <2>10 DEF Hangup, Ask, Blame, Check, Verify, Vouch, Ban
    <2>11. QED
      BY <2>2, <2>3, <2>4, <2>5, <2>6, <2>7, <2>8, <2>9, <2>10 DEF Step
  <1>4. QED
    BY <1>2, <1>3

\* With one caller both are invariants.
LEMMA OneCallerInductive ==
  ASSUME NEW u, Users = {u}
  PROVE  Spec => [](AheadOf(u) /\ ForgetsOf(u))
  <1> DEFINE Both == AheadOf(u) /\ ForgetsOf(u)
  <1>1. Init => Both
    BY DEF Init, AheadOf, ForgetsOf, NoCall
  <1>2. ASSUME IInv, Both, [Next]_vars PROVE Both'
    <2>1. TypeOK /\ call \in [Users -> Calls] /\ call[u] \in Calls
      BY <1>2, TypeParts DEF IInv, RestOK
    <2>2. ASSUME Step(u) PROVE Both'
      BY <1>2, <2>1, <2>2, StepAhead, StepForgets
    <2>3. ASSUME Call(u) PROVE Both'
      <3>1. CASE ConnectToAny(u)
        <4>1. call'[u].job = "any" /\ call'[u].at = "cached"
          BY <2>1, <3>1 DEF ConnectToAny, Begin, NoCall
        <4>2. QED
          BY <4>1 DEF AheadOf, ForgetsOf
      <3>2. CASE ProbeAndCache(u)
        <4>1. call'[u].job = "probe" /\ call'[u].at = "scan"
          BY <2>1, <3>2 DEF ProbeAndCache, Begin, NoCall
        <4>2. QED
          BY <4>1 DEF AheadOf, ForgetsOf, Asking
      <3>3. ASSUME NEW job \in Asking, Get(u, job) PROVE Both'
        <4>1. call'[u].job = job /\ call'[u].at = "ask"
          BY <2>1, <3>3 DEF Get, Begin, NoCall
        <4>2. QED
          BY <4>1 DEF AheadOf, ForgetsOf, Asking
      <3>4. CASE ClearCache(u) \/ Disconnect(u)
        <4>1. call[u].at = "idle" /\ call' = call
          BY <3>4 DEF ClearCache, Disconnect
        <4>2. call[u].job # "any"
          BY <1>2, <4>1 DEF ForgetsOf
        <4>3. QED
          BY <4>1, <4>2 DEF AheadOf, ForgetsOf
      <3>5. QED
        BY <2>3, <3>1, <3>2, <3>3, <3>4 DEF Call
    <2>4. ASSUME NEW s \in Servers, Expire(s) PROVE Both'
      <3>1. call' = call /\ last' = last /\ current' = current
        BY <2>4 DEF Expire, place
      <3>2. \A t \in Servers : ~Blacklisted(t) => ~Blacklisted(t)'
        BY <2>1, <2>4 DEF Expire, Blacklisted, TypeOK
      <3>3. Ahead(call[u]) \subseteq Servers
        BY <2>1 DEF Ahead, Calls
      <3>4. AheadOf(u)'
        BY <1>2, <3>1, <3>2, <3>3 DEF AheadOf, Ahead
      <3>5. ForgetsOf(u)'
        BY <1>2, <3>1 DEF ForgetsOf
      <3>6. QED
        BY <3>4, <3>5
    <2>5. CASE Restart
      <3>1. call'[u] = NoCall
        BY <2>5 DEF Restart
      <3>2. QED
        BY <3>1 DEF AheadOf, ForgetsOf, NoCall
    <2>6. CASE InnerFailsOver \/ Toggle \/ UNCHANGED vars
      <3>1. call' = call /\ last' = last /\ current' = current /\ ban' = ban
        BY <2>6 DEF InnerFailsOver, Toggle, vars, cache, place
      <3>2. QED
        BY <1>2, <3>1 DEF AheadOf, ForgetsOf, Ahead, Blacklisted
    <2>7. QED
      BY <1>2, <2>2, <2>3, <2>4, <2>5, <2>6 DEF Next
  <1>3. QED
    BY <1>1, <1>2, Inductive, PTL DEF Spec

\* With one caller, a connect_to_any or failover that gives up has dialled somebody,
\* if there was anybody to dial: bans alone never refuse service.
THEOREM BansNeverRefuse ==
  ASSUME NEW u, Users = {u}
  PROVE  Spec => []NoRefusalUntried
  <1>1. ASSUME AheadOf(u) PROVE NoRefusalUntried
    <2>1. SUFFICES ASSUME GaveUp(call[u]), call[u].job = "any" \/ Primary \ {current} # {}, ~call[u].tried
                   PROVE  FALSE
      BY DEF NoRefusalUntried
    <2>2. Ahead(call[u]) = {}
      BY <2>1 DEF GaveUp, Ahead
    <2>3. QED
      BY <1>1, <2>1, <2>2 DEF AheadOf, GaveUp
  <1>2. Spec => [](AheadOf(u) /\ ForgetsOf(u))
    BY OneCallerInductive
  <1>3. QED
    BY <1>1, <1>2, PTL

\* With one caller, a connect_to_any that finds nobody leaves no first choice.
THEOREM FirstChoiceHeals ==
  ASSUME NEW u, Users = {u}
  PROVE  Spec => []SelfHeals
  <1>1. ForgetsOf(u) => SelfHeals
    BY DEF ForgetsOf, SelfHeals, GaveUp
  <1>2. Spec => [](AheadOf(u) /\ ForgetsOf(u))
    BY OneCallerInductive
  <1>3. QED
    BY <1>1, <1>2, PTL
=============================================================================
