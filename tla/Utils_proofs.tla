------------------------------ MODULE Utils_proofs -----------------------------
(* Proofs about net/utils.rs and the pure parts of the clients.  Throttle: types, the  *)
(* interval in force and the distance between requests, for all threads, servers,      *)
(* rates and lifetimes.  Algorithms: what its inputs give, for inputs of any length.   *)
EXTENDS Throttle, Algorithms, SequencesExt, SequenceTheorems, FiniteSetTheorems, WellFoundedInduction, TLAPS

-----------------------------------------------------------------------------
(* Throttle: the inductive invariant *)

\* The holder of the mutex is the only sleeper, and it sleeps until the interval is over.
SleepsLongEnough ==
  \A t \in Threads : pc[t] = "sleep" => owner = t /\ since + sleep[t] >= interval

\* What is about to be put into the cache is an answer.
InsertsAnswers ==
  \A t \in Threads : pc[t] = "insert" => answer[t] # None

IInv == TypeOK /\ IntervalInForce /\ SleepsLongEnough /\ InsertsAnswers

-----------------------------------------------------------------------------
(* Intervals *)

\* A quotient of naturals is not above the dividend.
LEMMA Quotient ==
  ASSUME NEW n \in Nat, NEW m \in Nat \ {0}
  PROVE  n \div m \in 0..n
  OBVIOUS

\* The multiplier of a phase is a number.
LEMMA Multiplier ==
  ASSUME NEW p \in Phases
  PROVE  Mult[p] \in {1, 2, 4}
  BY DEF Phases, Mult

\* The synchronous limiter's interval is between a tick and a second.
LEMMA SyncInterval ==
  ASSUME NEW b \in 0..Second, NEW p \in Phases
  PROVE  AtLeast1(b \div Mult[p]) \in 1..Second
  BY ThrottleAssumption, Multiplier, Quotient DEF AtLeast1

\* So is the interval the user's rate alone stands for.
LEMMA RateInterval ==
  ASSUME NEW r \in Nat \ {0}
  PROVE  Second \div AtMost(r, MaxRate) \in 0..Second
  <1>1. AtMost(r, MaxRate) \in Nat \ {0}
    BY ThrottleAssumption DEF AtMost
  <1>2. QED
    BY <1>1, Quotient, ThrottleAssumption

\* The asynchronous limiter's interval is at most a second.
LEMMA AsyncIntervalType ==
  ASSUME NEW r \in Nat
  PROVE  AsyncInterval(r) \in 0..Second
  BY RateInterval, ThrottleAssumption DEF AsyncInterval

-----------------------------------------------------------------------------
(* Types *)

\* Every step keeps the types.
LEMMA TypeStep ==
  ASSUME TypeOK, InsertsAnswers, [Next]_vars
  PROVE  TypeOK'
  <1> USE DEF TypeOK, limiterVars
  <1>1. ASSUME NEW t \in Threads, Enter(t)
        PROVE  TypeOK'
    BY <1>1 DEF Enter, Go
  <1>2. ASSUME NEW t \in Threads, Lock(t)
        PROVE  TypeOK'
    <2>1. (IF since < interval THEN interval - since ELSE 0) \in 0..Second
      BY ThrottleAssumption
    <2>2. sleep' \in [Threads -> 0..Second]
      BY <1>2, <2>1 DEF Lock
    <2>3. QED
      BY <1>2, <2>2 DEF Lock, Go
  <1>3. ASSUME NEW t \in Threads, Stamp(t)
        PROVE  TypeOK'
    BY <1>3, ThrottleAssumption DEF Stamp, Go
  <1>4. ASSUME NEW t \in Threads, Call(t)
        PROVE  TypeOK'
    BY <1>4 DEF Call, Go, Valid
  <1>5. ASSUME NEW t \in Threads, Answered(t) \/ Fails(t) \/ Return(t)
        PROVE  TypeOK'
    BY <1>5 DEF Answered, Fails, Return, Go
  <1>6. ASSUME NEW t \in Threads, Insert(t)
        PROVE  TypeOK'
    BY <1>6, ThrottleAssumption DEF Insert, Go, InsertsAnswers
  <1>7. ASSUME NEW t \in Threads, ClearCaches(t)
        PROVE  TypeOK'
    BY <1>7 DEF ClearCaches, Go
  <1>8. ASSUME NEW t \in Threads, NEW s \in Servers, Connect(t, s)
        PROVE  TypeOK'
    BY <1>8 DEF Connect, Go
  <1>9. ASSUME NEW r \in Rates, SetRps(r)
        PROVE  TypeOK'
    <2>1. r \in Nat
      BY ThrottleAssumption
    <2>2. CASE r = 0
      BY <1>9, <2>2 DEF SetRps
    <2>3. CASE r # 0
      <3>1. base' \in 0..Second
        BY <1>9, <2>1, <2>3, RateInterval DEF SetRps
      <3>2. interval' \in 0..Second
        BY <1>9, <2>3, <3>1, SyncInterval DEF SetRps
      <3>3. QED
        BY <1>9, <3>1, <3>2 DEF SetRps
    <2>4. QED
      BY <2>2, <2>3
  <1>10. ASSUME NEW p \in Phases, SetPhase(p)
         PROVE  TypeOK'
    BY <1>10, SyncInterval DEF SetPhase
  <1>11. ASSUME NEW b \in BOOLEAN, SetEnabled(b)
         PROVE  TypeOK'
    BY <1>11 DEF SetEnabled
  <1>12. ASSUME NEW r \in Rates, AsyncSetRps(r)
         PROVE  TypeOK'
    BY <1>12, AsyncIntervalType, ThrottleAssumption DEF AsyncSetRps, AtMost
  <1>13. ASSUME NEW p \in Phases, AsyncSetPhase(p)
         PROVE  TypeOK'
    <2>1. base * Mult[p] \in Nat
      BY Multiplier
    <2>2. QED
      BY <1>13, <2>1, AsyncIntervalType DEF AsyncSetPhase
  <1>14. ASSUME NEW n \in TTLs, SetCacheTtl(n)
         PROVE  TypeOK'
    BY <1>14 DEF SetCacheTtl
  <1>15. ASSUME NEW s \in Servers, Failover(s)
         PROVE  TypeOK'
    BY <1>15 DEF Failover
  <1>16. CASE Tick
    <2>1. AtMost(since + 1, Second) \in 0..Second
      BY ThrottleAssumption DEF AtMost
    <2>2. \A t \in Threads : (IF sleep[t] = 0 THEN 0 ELSE sleep[t] - 1) \in 0..Second
      BY ThrottleAssumption
    <2>3. (IF entry.left = 0 THEN 0 ELSE entry.left - 1) \in Nat
      OBVIOUS
    <2>4. QED
      BY <1>16, <2>1, <2>2, <2>3 DEF Tick
  <1>17. CASE UNCHANGED vars
    BY <1>17 DEF vars
  <1>18. QED
    BY <1>1, <1>2, <1>3, <1>4, <1>5, <1>6, <1>7, <1>8, <1>9, <1>10, <1>11, <1>12, <1>13, <1>14, <1>15,
       <1>16, <1>17 DEF Next

-----------------------------------------------------------------------------
(* The parts of the invariant *)

\* The interval stays that of rate and phase.
LEMMA IntervalStep ==
  ASSUME TypeOK, IntervalInForce, [Next]_vars
  PROVE  IntervalInForce'
  <1> USE DEF IntervalInForce, limiterVars
  <1>1. ASSUME NEW r \in Rates, SetRps(r)
        PROVE  IntervalInForce'
    BY <1>1 DEF SetRps
  <1>2. ASSUME NEW p \in Phases, SetPhase(p)
        PROVE  IntervalInForce'
    BY <1>2 DEF SetPhase
  <1>3. ASSUME NEW x, AsyncSetRps(x) \/ AsyncSetPhase(x)
        PROVE  IntervalInForce'
    BY <1>3 DEF AsyncSetRps, AsyncSetPhase
  <1>4. ASSUME UNCHANGED <<kind, base, interval, phase>>
        PROVE  IntervalInForce'
    BY <1>4
  <1>5. ASSUME NEW t \in Threads, \/ Call(t) \/ Enter(t) \/ Lock(t) \/ Stamp(t) \/ Answered(t) \/ Fails(t)
                                  \/ Insert(t) \/ Return(t) \/ ClearCaches(t)
        PROVE  UNCHANGED <<kind, base, interval, phase>>
    BY <1>5 DEF Call, Enter, Lock, Stamp, Answered, Fails, Insert, Return, ClearCaches
  <1>6. ASSUME NEW t \in Threads, NEW s \in Servers, Connect(t, s)
        PROVE  UNCHANGED <<kind, base, interval, phase>>
    BY <1>6 DEF Connect
  <1>7. ASSUME NEW x, SetEnabled(x) \/ SetCacheTtl(x) \/ Failover(x) \/ Tick
        PROVE  UNCHANGED <<kind, base, interval, phase>>
    BY <1>7 DEF SetEnabled, SetCacheTtl, Failover, Tick
  <1>8. CASE UNCHANGED vars
    BY <1>8 DEF vars
  <1>9. QED
    BY <1>1, <1>2, <1>3, <1>4, <1>5, <1>6, <1>7, <1>8 DEF Next

\* A thread wakes when the interval is over, whatever happens while it sleeps: the interval
\* is not changed meanwhile, since setters need the mutex, and time only brings it nearer.
LEMMA SleepStep ==
  ASSUME TypeOK, SleepsLongEnough, [Next]_vars
  PROVE  SleepsLongEnough'
  <1> USE DEF TypeOK, SleepsLongEnough, limiterVars
  <1>1. ASSUME NEW t \in Threads, Lock(t)
        PROVE  SleepsLongEnough'
    BY <1>1, ThrottleAssumption DEF Lock, Go
  <1>2. ASSUME NEW t \in Threads, Stamp(t)
        PROVE  SleepsLongEnough'
    BY <1>2, ThrottleAssumption DEF Stamp, Go
  <1>3. ASSUME NEW t \in Threads, \/ Call(t) \/ Enter(t) \/ Answered(t) \/ Fails(t)
                                  \/ Insert(t) \/ Return(t) \/ ClearCaches(t)
        PROVE  SleepsLongEnough'
    <2>1. UNCHANGED <<since, sleep, interval, owner>>
      BY <1>3 DEF Call, Enter, Answered, Fails, Insert, Return, ClearCaches
    <2>2. \A u \in Threads : pc'[u] = "sleep" => pc[u] = "sleep"
      BY <1>3 DEF Call, Enter, Answered, Fails, Insert, Return, ClearCaches, Go
    <2>3. QED
      BY <2>1, <2>2
  <1>4. ASSUME NEW t \in Threads, NEW s \in Servers, Connect(t, s)
        PROVE  SleepsLongEnough'
    BY <1>4 DEF Connect, Go
  <1>5. ASSUME NEW x, SetRps(x) \/ SetPhase(x) \/ AsyncSetRps(x) \/ AsyncSetPhase(x)
        PROVE  SleepsLongEnough'
    <2>1. owner = None /\ UNCHANGED pc
      BY <1>5 DEF SetRps, SetPhase, AsyncSetRps, AsyncSetPhase, Free
    <2>2. QED
      BY <2>1, ThrottleAssumption
  <1>6. ASSUME NEW x, SetEnabled(x) \/ SetCacheTtl(x) \/ Failover(x)
        PROVE  SleepsLongEnough'
    BY <1>6 DEF SetEnabled, SetCacheTtl, Failover
  <1>7. CASE Tick
    <2>1. since' = AtMost(since + 1, Second) /\ since' \in 0..Second
      BY <1>7, ThrottleAssumption DEF Tick, AtMost
    <2>2. ASSUME NEW t \in Threads, pc'[t] = "sleep"
          PROVE  owner' = t /\ since' + sleep'[t] >= interval'
      <3>1. owner' = t /\ since + sleep[t] >= interval /\ interval' = interval
        BY <1>7, <2>2 DEF Tick
      <3>2. sleep'[t] = IF sleep[t] = 0 THEN 0 ELSE sleep[t] - 1
        BY <1>7 DEF Tick
      <3>3. sleep[t] \in 0..Second /\ interval \in 0..Second /\ since \in 0..Second
        OBVIOUS
      <3>4. QED
        BY <2>1, <3>1, <3>2, <3>3, ThrottleAssumption DEF AtMost
    <2>3. QED
      BY <2>2
  <1>8. CASE UNCHANGED vars
    BY <1>8 DEF vars
  <1>9. QED
    BY <1>1, <1>2, <1>3, <1>4, <1>5, <1>6, <1>7, <1>8 DEF Next

\* An answer stays with its thread until it is in the cache.
LEMMA InsertStep ==
  ASSUME TypeOK, InsertsAnswers, [Next]_vars
  PROVE  InsertsAnswers'
  <1> USE DEF TypeOK, InsertsAnswers, limiterVars
  <1>1. ASSUME NEW t \in Threads, \/ Call(t) \/ Enter(t) \/ Lock(t) \/ Stamp(t) \/ Fails(t)
                                  \/ Insert(t) \/ Return(t) \/ ClearCaches(t)
        PROVE  InsertsAnswers'
    BY <1>1 DEF Call, Enter, Lock, Stamp, Fails, Insert, Return, ClearCaches, Go
  <1>2. ASSUME NEW t \in Threads, Answered(t)
        PROVE  InsertsAnswers'
    BY <1>2, ThrottleAssumption DEF Answered, Go
  <1>3. ASSUME NEW t \in Threads, NEW s \in Servers, Connect(t, s)
        PROVE  InsertsAnswers'
    BY <1>3 DEF Connect, Go
  <1>4. ASSUME NEW x, \/ SetRps(x) \/ SetPhase(x) \/ AsyncSetRps(x) \/ AsyncSetPhase(x)
                     \/ SetEnabled(x) \/ SetCacheTtl(x) \/ Failover(x) \/ Tick
        PROVE  InsertsAnswers'
    <2>1. UNCHANGED <<pc, answer>>
      BY <1>4 DEF SetRps, SetPhase, AsyncSetRps, AsyncSetPhase, SetEnabled, SetCacheTtl, Failover, Tick
    <2>2. QED
      BY <2>1
  <1>5. CASE UNCHANGED vars
    BY <1>5 DEF vars
  <1>6. QED
    BY <1>1, <1>2, <1>3, <1>4, <1>5 DEF Next

-----------------------------------------------------------------------------
(* Theorems *)

\* The invariant holds in every reachable state.
THEOREM Inductive == Spec => []IInv
  <1>1. Init => IInv
    <2>1. DefaultBase \div 1 = DefaultBase
      BY ThrottleAssumption
    <2>2. Init => TypeOK /\ SleepsLongEnough /\ InsertsAnswers
      BY ThrottleAssumption DEF Init, TypeOK, SleepsLongEnough, InsertsAnswers, Phases, Mult
    <2>3. Init => IntervalInForce
      BY <2>1, ThrottleAssumption DEF Init, IntervalInForce, AtLeast1, Mult
    <2>4. QED
      BY <2>2, <2>3 DEF IInv
  <1>2. IInv /\ [Next]_vars => IInv'
    BY TypeStep, IntervalStep, SleepStep, InsertStep DEF IInv
  <1>3. QED
    BY <1>1, <1>2, PTL DEF Spec

\* Rates, spans of time, threads and cached answers keep their types; in particular no
\* interval is above a second, and what is not cached has no life left.
THEOREM TypeCorrect == Spec => []TypeOK
  BY Inductive, PTL DEF IInv

\* In whichever order the rate and the phase of the synchronous client were set, the
\* interval is the one they stand for.
THEOREM IntervalAlwaysInForce == Spec => []IntervalInForce
  BY Inductive, PTL DEF IInv

\* A thread leaves the limiter only when the interval has passed since the thread before.
THEOREM AlwaysSpaced == Spec => Spaced
  <1>1. IInv /\ [Next]_vars =>
          [\A t \in Threads : pc[t] = "sleep" /\ pc'[t] = "ask" => since >= interval]_vars
    <2> SUFFICES ASSUME IInv, Next, NEW t \in Threads, pc[t] = "sleep", pc'[t] = "ask"
                 PROVE  since >= interval
      OBVIOUS
    <2> USE DEF IInv, TypeOK
    <2>1. PICK u \in Threads : Stamp(u)
      <3>1. ASSUME NEW u \in Threads, \/ Call(u) \/ Enter(u) \/ Lock(u) \/ Answered(u) \/ Fails(u)
                                      \/ Insert(u) \/ Return(u) \/ ClearCaches(u)
            PROVE  FALSE
        BY <3>1 DEF Call, Enter, Lock, Answered, Fails, Insert, Return, ClearCaches, Go
      <3>2. ASSUME NEW u \in Threads, NEW s \in Servers, Connect(u, s)
            PROVE  FALSE
        BY <3>2 DEF Connect, Go
      <3>3. ASSUME NEW x, \/ SetRps(x) \/ SetPhase(x) \/ AsyncSetRps(x) \/ AsyncSetPhase(x)
                         \/ SetEnabled(x) \/ SetCacheTtl(x) \/ Failover(x) \/ Tick
            PROVE  FALSE
        <4>1. UNCHANGED pc
          BY <3>3 DEF SetRps, SetPhase, AsyncSetRps, AsyncSetPhase, SetEnabled, SetCacheTtl, Failover, Tick
        <4>2. QED
          BY <4>1
      <3>4. QED
        BY <3>1, <3>2, <3>3 DEF Next
    <2>2. sleep[t] = 0
      BY <2>1 DEF Stamp, Go
    <2>3. since + sleep[t] >= interval
      BY DEF SleepsLongEnough
    <2>4. QED
      BY <2>2, <2>3
  <1>2. QED
    BY <1>1, Inductive, PTL DEF Spec, Spaced

-----------------------------------------------------------------------------
(* Sequences and sets *)

\* The operator is the same in every module.
LEMMA OneFlatten ==
  ASSUME NEW ss
  PROVE  Fr!FlattenSeq(ss) = FlattenSeq(ss) /\ Fund!FlattenSeq(ss) = FlattenSeq(ss) /\ Adj!FlattenSeq(ss) = FlattenSeq(ss)
  BY DEF FlattenSeq, Fr!FlattenSeq, Fund!FlattenSeq, Adj!FlattenSeq

LEMMA OneCardinality ==
  ASSUME NEW T
  PROVE  Cal!Cardinality(T) = Cardinality(T) /\ Adj!Cardinality(T) = Cardinality(T) /\ Fund!Cardinality(T) = Cardinality(T)
  BY DEF Cardinality, Cal!Cardinality, Adj!Cardinality, Fund!Cardinality

\* Every set of natural numbers but the empty one has a least element.
LEMMA LeastNat ==
  ASSUME NEW T, T \subseteq Nat, T # {}
  PROVE  \E x \in T : \A y \in T : x <= y
<1> DEFINE Less == {ss \in Nat \X Nat : ss[1] < ss[2]}
<1>1. IsWellFoundedOn(Less, Nat)
  BY NatLessThanWellFounded DEF OpToRel
<1>2. \E x \in T : \A y \in T : ~(<<y, x>> \in Less)
  <2> HIDE DEF Less
  <2> QED BY <1>1, WFMin
<1>3. PICK x \in T : \A y \in T : ~(<<y, x>> \in Less)
  BY <1>2
<1>4. ASSUME NEW y \in T PROVE x <= y
  <2>1. x \in Nat /\ y \in Nat
    BY <1>3
  <2>2. y < x => <<y, x>> \in Less
    BY <2>1
  <2>3. QED
    BY <1>3, <2>1, <2>2
<1>5. QED
  BY <1>3, <1>4

\* A function that adds up the sequences one by one ends with all of them.
LEMMA FlattenIs ==
  ASSUME NEW S, NEW ss \in Seq(Seq(S)), NEW f \in [0..Len(ss) -> Seq(S)],
         f[0] = <<>>, \A i \in 1..Len(ss) : f[i] = f[i - 1] \o ss[i]
  PROVE  FlattenSeq(ss) = f[Len(ss)]
<1> DEFINE n == Len(ss)
<1>1. n \in Nat /\ \A i \in 1..n : ss[i] \in Seq(S)
  BY LenProperties, ElementOfSeq
<1>2. CASE n = 0
  <2>1. ss = <<>>
    BY <1>2, EmptySeq
  <2>2. QED
    BY <1>2, <2>1 DEF FlattenSeq
<1>3. CASE n # 0
  <2> DEFINE Adds(g) == g = [i \in 1..n |-> IF i = 1 THEN ss[i] ELSE g[i - 1] \o ss[i]]
             h == CHOOSE g : Adds(g)
             T == {i \in 1..n : h[i] # f[i]}
  <2>1. f[1] = ss[1]
    <3>1. 1 \in 1..n /\ 1 - 1 = 0
      BY <1>1, <1>3
    <3>2. f[1] = f[1 - 1] \o ss[1] /\ ss[1] \in Seq(S)
      BY <1>1, <3>1
    <3>3. QED
      BY <3>1, <3>2, ConcatEmptySeq
  <2>2. Adds([i \in 1..n |-> f[i]])
    <3> DEFINE g0 == [i \in 1..n |-> f[i]]
    <3>1. ASSUME NEW i \in 1..n
          PROVE  f[i] = IF i = 1 THEN ss[i] ELSE g0[i - 1] \o ss[i]
      <4>1. CASE i = 1
        BY <2>1, <4>1
      <4>2. CASE i # 1
        <5>1. i - 1 \in 1..n
          BY <1>1, <4>2
        <5>2. g0[i - 1] = f[i - 1]
          BY <5>1
        <5>3. QED
          BY <4>2, <5>2
      <4>3. QED
        BY <4>1, <4>2
    <3>2. QED
      BY <3>1
  <2>3. Adds(h)
    <3> HIDE DEF Adds
    <3> QED BY <2>2
  <2>4. h[1] = ss[1] /\ \A i \in 2..n : h[i] = h[i - 1] \o ss[i]
    <3> HIDE DEF h
    <3>1. h = [i \in 1..n |-> IF i = 1 THEN ss[i] ELSE h[i - 1] \o ss[i]]
      BY <2>3
    <3>2. 1 \in 1..n /\ \A i \in 2..n : i \in 1..n /\ i # 1
      BY <1>1, <1>3
    <3> HIDE DEF n
    <3>3. ASSUME NEW i \in 1..n PROVE h[i] = IF i = 1 THEN ss[i] ELSE h[i - 1] \o ss[i]
      BY <3>1
    <3>4. QED
      BY <3>2, <3>3
  <2>5. FlattenSeq(ss) = h[n]
    BY <1>3 DEF FlattenSeq
  <2> HIDE DEF h
  <2>6. T = {}
    <3> SUFFICES ASSUME T # {} PROVE FALSE
      OBVIOUS
    <3>1. PICK x \in T : \A y \in T : x <= y
      <4>1. T \subseteq Nat
        BY <1>1
      <4> HIDE DEF T
      <4> QED BY <4>1, LeastNat
    <3>2. x \in 1..n /\ h[x] # f[x] /\ \A y \in 1..n : h[y] # f[y] => x <= y
      BY <3>1
    <3>3. x # 1
      BY <3>2, <2>1, <2>4
    <3>4. x - 1 \in 1..n /\ x \in 2..n
      BY <3>2, <3>3, <1>1
    <3>5. h[x - 1] = f[x - 1]
      BY <3>2, <3>4, SMTT(30)
    <3>6. QED
      BY <3>2, <3>4, <3>5, <2>4
  <2>7. \A i \in 1..n : h[i] = f[i]
    BY <2>6
  <2> HIDE DEF T, Adds
  <2>8. n \in 1..n
    BY <1>1, <1>3
  <2>9. QED
    BY <2>5, <2>7, <2>8
<1>4. QED
  BY <1>2, <1>3

\* There is such a function for all sequences.
LEMMA FlattenSteps ==
  ASSUME NEW S, NEW ss \in Seq(Seq(S))
  PROVE  \E f \in [0..Len(ss) -> Seq(S)] :
           f[0] = <<>> /\ (\A i \in 1..Len(ss) : f[i] = f[i - 1] \o ss[i]) /\ FlattenSeq(ss) = f[Len(ss)]
<1> DEFINE n == Len(ss)
           Steps(k) == \E f \in [0..k -> Seq(S)] : f[0] = <<>> /\ \A i \in 1..k : f[i] = f[i - 1] \o ss[i]
           T == {k \in 0..n : ~Steps(k)}
<1>1. n \in Nat /\ \A i \in 1..n : ss[i] \in Seq(S)
  BY LenProperties, ElementOfSeq
<1>2. Steps(0)
  <2>1. <<>> \in Seq(S)
    BY EmptySeq
  <2>2. QED
    <3> DEFINE f == [i \in 0..0 |-> <<>>]
    <3>1. f \in [0..0 -> Seq(S)] /\ f[0] = <<>>
      BY <2>1
    <3>2. \A i \in 1..0 : FALSE
      OBVIOUS
    <3> HIDE DEF f
    <3>3. QED
      BY <3>1, <3>2
<1>3. T = {}
  <2> SUFFICES ASSUME T # {} PROVE FALSE
    OBVIOUS
  <2> HIDE DEF Steps
  <2>1. PICK x \in T : \A y \in T : x <= y
    <3>1. T \subseteq Nat
      BY <1>1
    <3> HIDE DEF T
    <3> QED BY <3>1, LeastNat
  <2>2. x \in 0..n /\ ~Steps(x) /\ \A y \in 0..n : ~Steps(y) => x <= y
    BY <2>1
  <2>3. x # 0
    BY <2>2, <1>2
  <2>4. x - 1 \in 0..n /\ x \in 1..n
    BY <2>2, <2>3, <1>1
  <2>5. Steps(x - 1)
    BY <2>2, <2>4
  <2>6. PICK f \in [0..(x - 1) -> Seq(S)] : f[0] = <<>> /\ \A i \in 1..(x - 1) : f[i] = f[i - 1] \o ss[i]
    BY <2>5 DEF Steps
  <2> DEFINE g == [i \in 0..x |-> IF i < x THEN f[i] ELSE f[x - 1] \o ss[x]]
  <2>7. f[x - 1] \in Seq(S) /\ ss[x] \in Seq(S)
    BY <2>4, <2>6, <1>1
  <2>8. f[x - 1] \o ss[x] \in Seq(S)
    BY <2>7, ConcatProperties
  <2>9. g \in [0..x -> Seq(S)]
    <3>1. ASSUME NEW i \in 0..x PROVE (IF i < x THEN f[i] ELSE f[x - 1] \o ss[x]) \in Seq(S)
      BY <2>4, <2>6, <2>8
    <3>2. QED
      BY <3>1
  <2>10. g[0] = <<>>
    BY <2>4, <2>6, SMTT(30)
  <2>11. ASSUME NEW i \in 1..x PROVE g[i] = g[i - 1] \o ss[i]
    <3>1. i - 1 \in 0..x /\ i \in 0..x /\ i - 1 < x
      BY <2>4
    <3>2. g[i - 1] = f[i - 1]
      BY <3>1
    <3>3. CASE i = x
      <4>1. x \in 0..x /\ ~(x < x)
        BY <2>4
      <4>2. g[x] = f[x - 1] \o ss[x]
        BY <4>1
      <4>3. QED
        BY <4>2, <3>2, <3>3
    <3>4. CASE i # x
      <4>1. i \in 1..(x - 1) /\ g[i] = f[i]
        BY <3>1, <3>4, <2>4
      <4>2. QED
        BY <4>1, <3>2, <2>6
    <3>5. QED
      BY <3>3, <3>4
  <2>12. Steps(x)
    <3> HIDE DEF g
    <3> QED BY <2>9, <2>10, <2>11 DEF Steps
  <2>13. QED
    BY <2>2, <2>12
<1>4. Steps(n)
  <2> HIDE DEF Steps
  <2> QED BY <1>1, <1>3
<1>5. QED
  BY <1>4, FlattenIs

\* What two sequences put together come apart into.
LEMMA ComesApart ==
  ASSUME NEW S, NEW s \in Seq(S), NEW t \in Seq(S)
  PROVE  /\ SubSeq(s \o t, 1, Len(s)) = s
         /\ SubSeq(s \o t, Len(s) + 1, Len(s \o t)) = t
<1> DEFINE u == s \o t
           a == SubSeq(u, 1, Len(s))
           b == SubSeq(u, Len(s) + 1, Len(u))
<1>1. Len(s) \in Nat /\ Len(t) \in Nat
  BY LenProperties
<1>2. /\ u \in Seq(S) /\ Len(u) = Len(s) + Len(t)
      /\ \A i \in 1..(Len(s) + Len(t)) : u[i] = IF i <= Len(s) THEN s[i] ELSE t[i - Len(s)]
  BY ConcatProperties
<1>3. \A i \in 1..Len(u) : u[i] \in S
  BY <1>2, ElementOfSeq
<1> HIDE DEF u
<1>4. a = s
  <2>1. \A i \in 1..Len(s) : u[i] \in S
    BY <1>1, <1>2, <1>3
  <2>2. /\ a \in Seq(S) /\ Len(a) = (IF 1 <= Len(s) THEN Len(s) - 1 + 1 ELSE 0)
        /\ \A i \in 1..(Len(s) - 1 + 1) : a[i] = u[1 + i - 1]
    BY <1>1, <2>1, SubSeqProperties
  <2> HIDE DEF a
  <2>3. Len(a) = Len(s)
    BY <1>1, <2>2
  <2>4. \A i \in 1..Len(s) : a[i] = s[i]
    BY <1>1, <1>2, <2>2
  <2>5. QED
    BY <2>2, <2>3, <2>4, SeqEqual
<1>5. b = t
  <2>1. \A i \in (Len(s) + 1)..Len(u) : u[i] \in S
    BY <1>1, <1>2, <1>3
  <2>2. /\ b \in Seq(S) /\ Len(b) = (IF Len(s) + 1 <= Len(u) THEN Len(u) - (Len(s) + 1) + 1 ELSE 0)
        /\ \A i \in 1..(Len(u) - (Len(s) + 1) + 1) : b[i] = u[Len(s) + 1 + i - 1]
    BY <1>1, <1>2, <2>1, SubSeqProperties
  <2> HIDE DEF b
  <2>3. Len(b) = Len(t)
    BY <1>1, <1>2, <2>2
  <2>4. ASSUME NEW i \in 1..Len(t) PROVE b[i] = t[i]
    <3>1. b[i] = u[Len(s) + i]
      BY <1>1, <1>2, <2>2
    <3>2. Len(s) + i \in 1..(Len(s) + Len(t)) /\ ~(Len(s) + i <= Len(s)) /\ Len(s) + i - Len(s) = i
      BY <1>1
    <3>3. u[Len(s) + i] = t[Len(s) + i - Len(s)]
      BY <1>2, <3>2
    <3>4. QED
      BY <3>1, <3>2, <3>3
  <2>5. QED
    BY <2>2, <2>3, <2>4, SeqEqual
<1>6. QED
  BY <1>4, <1>5 DEF u

-----------------------------------------------------------------------------
(* Responses *)

\* What the bytes of a stream may be.
Bytes == Int \X (Int \cup Seq(Int) \cup (Nat \X Nat))

\* The parts of a response are sequences of bytes.
LEMMA PlainType ==
  ASSUME NEW content \in Seq(Int)
  PROVE  Fr!Plain(content) \in Seq(Bytes) /\ Len(Fr!Plain(content)) = Len(content)
<1>1. content \in [1..Len(content) -> Int] /\ Len(content) \in Nat /\ DOMAIN content = 1..Len(content)
  BY LenProperties
<1>2. \A i \in 1..Len(content) : <<0, content[i]>> \in Bytes
  BY <1>1 DEF Bytes
<1>3. Fr!Plain(content) = [i \in 1..Len(content) |-> <<0, content[i]>>]
  BY <1>1 DEF Fr!Plain
<1>4. Fr!Plain(content) \in [1..Len(content) -> Bytes]
  BY <1>2, <1>3
<1>5. QED
  BY <1>1, <1>4, SeqDef, LenProperties

LEMMA DeflatedType ==
  ASSUME NEW content \in Seq(Int), NEW size \in Nat
  PROVE  /\ Fr!Deflated(content, size) \in Seq(Bytes) /\ Len(Fr!Deflated(content, size)) = size
         /\ \A i \in 1..size : Fr!Deflated(content, size)[i] = <<i, content>>
<1>1. \A i \in 1..size : <<i, content>> \in Bytes
  BY DEF Bytes
<1>2. Fr!Deflated(content, size) = [i \in 1..size |-> <<i, content>>]
  BY DEF Fr!Deflated
<1>3. Fr!Deflated(content, size) \in [1..size -> Bytes]
  BY <1>1, <1>2
<1>4. QED
  BY <1>2, <1>3

LEMMA HeaderType ==
  ASSUME NEW zip \in Nat, NEW unzip \in Nat
  PROVE  /\ Fr!Header(zip, unzip) \in Seq(Bytes) /\ Len(Fr!Header(zip, unzip)) = HeaderLen
         /\ Fr!Header(zip, unzip)[1] = <<-1, <<zip, unzip>>>>
<1>1. \A i \in 1..HeaderLen : <<-i, <<zip, unzip>>>> \in Bytes
  BY ParametersAssumption DEF Bytes
<1>2. Fr!Header(zip, unzip) = [i \in 1..HeaderLen |-> <<-i, <<zip, unzip>>>>]
  BY DEF Fr!Header
<1>3. Fr!Header(zip, unzip) \in [1..HeaderLen -> Bytes]
  BY <1>1, <1>2
<1>4. QED
  BY <1>2, <1>3, ParametersAssumption

\* recv takes what it is asked for off the stream.
LEMMA RecvTakes ==
  ASSUME NEW s \in Seq(Bytes), NEW t \in Seq(Bytes)
  PROVE  Fr!Recv(s \o t, Len(s)) = [ok |-> TRUE, bytes |-> s, rest |-> t]
<1>1. Len(s) \in Nat /\ Len(t) \in Nat /\ Len(s \o t) = Len(s) + Len(t)
  BY LenProperties, ConcatProperties
<1>2. ~(Len(s \o t) < Len(s))
  BY <1>1
<1>3. QED
  BY <1>2, ComesApart DEF Fr!Recv, Fr!Left

\* A response is read to its body, and what follows it stays.
LEMMA ResponseRead ==
  ASSUME NEW body \in Seq(Bytes), NEW unzip \in Nat, NEW rest \in Seq(Bytes)
  PROVE  Fr!ReadResponse(Fr!Frame(body, unzip) \o rest) =
           [ok |-> TRUE, header |-> [zip |-> Len(body), unzip |-> unzip], body |-> body, rest |-> rest]
<1> DEFINE head == Fr!Header(Len(body), unzip)
           stream == Fr!Frame(body, unzip) \o rest
<1>1. Len(body) \in Nat
  BY LenProperties
<1>2. head \in Seq(Bytes) /\ Len(head) = HeaderLen /\ head[1] = <<-1, <<Len(body), unzip>>>>
  BY <1>1, HeaderType
<1>3. body \o rest \in Seq(Bytes)
  BY ConcatProperties
<1>4. stream = head \o (body \o rest)
  <2>1. stream = (head \o body) \o rest
    BY DEF Fr!Frame
  <2> HIDE DEF head, stream
  <2>2. head \in Seq(Bytes)
    BY <1>2
  <2>3. (head \o body) \o rest = head \o (body \o rest)
    BY <2>2, ConcatAssociative
  <2>4. QED
    BY <2>1, <2>3
<1>5. Fr!Recv(stream, HeaderLen) = [ok |-> TRUE, bytes |-> head, rest |-> body \o rest]
  BY <1>2, <1>3, <1>4, RecvTakes
<1>6. Fr!ParseHeader(head) = [zip |-> Len(body), unzip |-> unzip]
  BY <1>2 DEF Fr!ParseHeader
<1>7. Fr!Recv(body \o rest, Len(body)) = [ok |-> TRUE, bytes |-> body, rest |-> rest]
  BY RecvTakes
<1> HIDE DEF head, stream
<1>8. Fr!ReadResponse(stream) =
        [ok |-> TRUE, header |-> [zip |-> Len(body), unzip |-> unzip], body |-> body, rest |-> rest]
  <2> DEFINE first == Fr!Recv(stream, HeaderLen)
             header == Fr!ParseHeader(first.bytes)
             second == Fr!Recv(first.rest, header.zip)
  <2>1. first.ok = TRUE /\ first.bytes = head /\ first.rest = body \o rest
    BY <1>5
  <2>2. header = [zip |-> Len(body), unzip |-> unzip]
    BY <2>1, <1>6
  <2>3. second.ok = TRUE /\ second.bytes = body /\ second.rest = rest
    BY <2>1, <2>2, <1>7
  <2>4. Fr!ReadResponse(stream) =
          IF first.ok /\ second.ok THEN [ok |-> TRUE, header |-> header, body |-> second.bytes, rest |-> second.rest]
          ELSE [ok |-> FALSE, header |-> [zip |-> 0, unzip |-> 0], body |-> <<>>, rest |-> <<>>]
    BY DEF Fr!ReadResponse
  <2> HIDE DEF first, second, header
  <2>5. QED
    BY <2>1, <2>2, <2>3, <2>4
<1>9. QED
  BY <1>8 DEF stream

\* Of a response cut off, nothing is read.
LEMMA CutRefused ==
  ASSUME NEW body \in Seq(Bytes), NEW unzip \in Nat, NEW n \in Nat \ {0}
  PROVE  /\ ~Fr!ReadResponse(Fr!Cut(n, Fr!Frame(body, unzip))).ok
         /\ Fr!Cut(n, Fr!Frame(body, unzip)) \in Seq(Bytes)
<1> DEFINE head == Fr!Header(Len(body), unzip)
           whole == head \o body
           stream == SubSeq(whole, 1, Len(whole) - n)
<1>1. Len(body) \in Nat
  BY LenProperties
<1>2. head \in Seq(Bytes) /\ Len(head) = HeaderLen /\ head[1] = <<-1, <<Len(body), unzip>>>>
  BY <1>1, HeaderType
<1>3. /\ whole \in Seq(Bytes) /\ Len(whole) = HeaderLen + Len(body)
      /\ \A i \in 1..(HeaderLen + Len(body)) : whole[i] = IF i <= HeaderLen THEN head[i] ELSE body[i - HeaderLen]
  <2> HIDE DEF head
  <2> QED BY <1>2, ConcatProperties
<1>4. \A i \in 1..Len(whole) : whole[i] \in Bytes
  BY <1>3, ElementOfSeq
<1>5. stream = Fr!Cut(n, Fr!Frame(body, unzip))
  BY DEF Fr!Cut, Fr!Frame
<1> HIDE DEF whole, head
<1>6. \A i \in 1..(Len(whole) - n) : whole[i] \in Bytes
  BY <1>1, <1>3, <1>4, ParametersAssumption
<1>7. /\ stream \in Seq(Bytes)
      /\ Len(stream) = (IF 1 <= Len(whole) - n THEN Len(whole) - n - 1 + 1 ELSE 0)
      /\ \A i \in 1..(Len(whole) - n - 1 + 1) : stream[i] = whole[1 + i - 1]
  <2>1. Len(whole) - n \in Int
    BY <1>1, <1>3, ParametersAssumption
  <2>2. QED
    BY <1>6, <2>1, SubSeqProperties
<1> HIDE DEF stream
<1>8. Len(stream) < HeaderLen + Len(body) /\ Len(stream) \in Nat
  BY <1>1, <1>3, <1>7, ParametersAssumption
<1>9. CASE Len(stream) < HeaderLen
  <2>1. Fr!Recv(stream, HeaderLen).ok = FALSE
    BY <1>9 DEF Fr!Recv
  <2>2. Fr!ReadResponse(stream).ok = FALSE
    BY <2>1 DEF Fr!ReadResponse
  <2>3. QED
    BY <2>2, <1>5, <1>7
<1>10. CASE Len(stream) >= HeaderLen
  <2> DEFINE bytes == SubSeq(stream, 1, HeaderLen)
             rest == SubSeq(stream, HeaderLen + 1, Len(stream))
  <2>1. Fr!Recv(stream, HeaderLen) = [ok |-> TRUE, bytes |-> bytes, rest |-> rest]
    <3>1. ~(Len(stream) < HeaderLen)
      BY <1>8, <1>10, ParametersAssumption
    <3>2. QED
      BY <3>1 DEF Fr!Recv, Fr!Left
  <2>2. \A i \in 1..Len(stream) : stream[i] \in Bytes
    BY <1>7, ElementOfSeq
  <2>3. bytes[1] = stream[1]
    <3>1. \A i \in 1..HeaderLen : stream[i] \in Bytes
      BY <2>2, <1>8, <1>10, ParametersAssumption
    <3>2. \A i \in 1..(HeaderLen - 1 + 1) : bytes[i] = stream[1 + i - 1]
      BY <3>1, SubSeqProperties, ParametersAssumption
    <3>3. QED
      BY <3>2, ParametersAssumption
  <2>4. stream[1] = whole[1]
    BY <1>7, <1>8, <1>10, ParametersAssumption
  <2>5. whole[1] = <<-1, <<Len(body), unzip>>>>
    BY <1>1, <1>2, <1>3, ParametersAssumption
  <2>6. Len(rest) = Len(stream) - HeaderLen
    <3>1. \A i \in (HeaderLen + 1)..Len(stream) : stream[i] \in Bytes
      BY <2>2, <1>8, ParametersAssumption
    <3>2. Len(rest) = IF HeaderLen + 1 <= Len(stream) THEN Len(stream) - (HeaderLen + 1) + 1 ELSE 0
      BY <3>1, <1>8, SubSeqProperties, ParametersAssumption
    <3>3. QED
      BY <3>2, <1>8, <1>10, ParametersAssumption
  <2> HIDE DEF bytes, rest
  <2>7. Fr!ParseHeader(bytes).zip = Len(body)
    BY <2>3, <2>4, <2>5 DEF Fr!ParseHeader
  <2>8. Fr!Recv(rest, Len(body)).ok = FALSE
    <3>1. Len(rest) < Len(body)
      BY <2>6, <1>1, <1>8, ParametersAssumption
    <3>2. QED
      BY <3>1 DEF Fr!Recv
  <2>9. Fr!ReadResponse(stream).ok = FALSE
    BY <2>1, <2>7, <2>8 DEF Fr!ReadResponse
  <2>10. QED
    BY <2>9, <1>5, <1>7
<1>11. QED
  BY <1>8, <1>9, <1>10, ParametersAssumption

\* Deflated content inflates to itself; its bytes in another order do not inflate.
LEMMA InflateDeflated ==
  ASSUME NEW content \in Seq(Int), NEW size \in Nat \ {0}
  PROVE  /\ Fr!Inflate(Fr!Deflated(content, size)) = Fr!Got(Fr!Plain(content))
         /\ Fr!Deflated(content, size) # <<>>
<1> DEFINE body == Fr!Deflated(content, size)
<1>1. body \in Seq(Bytes) /\ Len(body) = size /\ \A i \in 1..size : body[i] = <<i, content>>
  BY DeflatedType
<1>2. DOMAIN body = 1..size
  BY <1>1, LenProperties
<1> HIDE DEF body
<1>3. body # <<>>
  BY <1>1, LenProperties, EmptySeq
<1>4. body[1] = <<1, content>>
  BY <1>1
<1>5. \A i \in DOMAIN body : body[i] = <<i, body[1][2]>>
  BY <1>1, <1>2, <1>4
<1>6. body[1][2] = content
  BY <1>4
<1>7. Fr!Inflate(body) = Fr!Got(Fr!Plain(content))
  BY <1>3, <1>5, <1>6 DEF Fr!Inflate
<1>8. QED
  BY <1>3, <1>7 DEF body

LEMMA InflateReversed ==
  ASSUME NEW content \in Seq(Int), NEW size \in Nat \ {0}
  PROVE  /\ Fr!Reverse(Fr!Deflated(content, size)) \in Seq(Bytes)
         /\ Len(Fr!Reverse(Fr!Deflated(content, size))) = size
         /\ size = 1 => Fr!Inflate(Fr!Reverse(Fr!Deflated(content, size))) = Fr!Got(Fr!Plain(content))
         /\ size > 1 => Fr!Inflate(Fr!Reverse(Fr!Deflated(content, size))) = Fr!Refused
<1> DEFINE body == Fr!Deflated(content, size)
           turned == Fr!Reverse(body)
<1>1. body \in Seq(Bytes) /\ Len(body) = size /\ \A i \in 1..size : body[i] = <<i, content>>
  BY DeflatedType
<1> HIDE DEF body
<1>2. turned = [i \in 1..size |-> body[(size - i) + 1]]
  BY <1>1 DEF Fr!Reverse
<1>3. \A i \in 1..size : (size - i) + 1 \in 1..size
  OBVIOUS
<1>4. \A i \in 1..size : body[(size - i) + 1] \in Bytes
  BY <1>1, <1>3, ElementOfSeq
<1>5. turned \in [1..size -> Bytes]
  BY <1>2, <1>4
<1>6. turned \in Seq(Bytes) /\ Len(turned) = size /\ DOMAIN turned = 1..size
  BY <1>5
<1>7. turned[1] = <<size, content>>
  <2>1. turned[1] = body[(size - 1) + 1] /\ (size - 1) + 1 = size /\ size \in 1..size
    BY <1>2
  <2>2. QED
    BY <1>1, <2>1
<1> HIDE DEF turned
<1>8. CASE size = 1
  <2>1. turned[1] = <<1, content>>
    BY <1>7, <1>8
  <2>2. turned # <<>> /\ \A i \in DOMAIN turned : turned[i] = <<i, turned[1][2]>>
    BY <1>6, <1>8, <2>1, EmptySeq
  <2>3. Fr!Inflate(turned) = Fr!Got(Fr!Plain(content))
    BY <2>1, <2>2 DEF Fr!Inflate
  <2>4. QED
    BY <2>3, <1>6, <1>8 DEF turned, body
<1>9. CASE size > 1
  <2>1. 1 \in DOMAIN turned /\ turned[1] # <<1, turned[1][2]>>
    BY <1>6, <1>7, <1>9
  <2>2. Fr!Inflate(turned) = Fr!Refused
    BY <2>1 DEF Fr!Inflate
  <2>3. QED
    BY <2>2, <1>6, <1>9 DEF turned, body
<1>10. QED
  BY <1>8, <1>9

\* What a call reads of a response: its content, or an error, and what follows stays.
LEMMA ContentRead ==
  ASSUME NEW body \in Seq(Bytes), NEW unzip \in Nat, NEW rest \in Seq(Bytes), NEW checked \in BOOLEAN
  PROVE  LET out == IF body = <<>> THEN Fr!Refused
                    ELSE IF Len(body) = unzip THEN Fr!Got(body)
                    ELSE Fr!DecompressChecked(body, IF checked THEN unzip ELSE 0)
         IN Fr!ReadContent(Fr!Frame(body, unzip) \o rest, checked) = [ok |-> out.ok, content |-> out.content, rest |-> rest]
<1> DEFINE r == [ok |-> TRUE, header |-> [zip |-> Len(body), unzip |-> unzip], body |-> body, rest |-> rest]
           stream == Fr!Frame(body, unzip) \o rest
           out == IF body = <<>> THEN Fr!Refused
                  ELSE IF Len(body) = unzip THEN Fr!Got(body)
                  ELSE Fr!DecompressChecked(body, IF checked THEN unzip ELSE 0)
<1>1. Fr!ReadResponse(stream) = r
  BY ResponseRead
<1> HIDE DEF stream
<1>2. r.ok = TRUE /\ r.header.zip = Len(body) /\ r.header.unzip = unzip /\ r.body = body /\ r.rest = rest
  OBVIOUS
<1> HIDE DEF r
<1>3. Fr!Content(r, checked) = out
  <2>1. CASE body = <<>>
    BY <1>2, <2>1 DEF Fr!Content
  <2>2. CASE body # <<>> /\ Len(body) = unzip
    BY <1>2, <2>2 DEF Fr!Content
  <2>3. CASE body # <<>> /\ Len(body) # unzip
    BY <1>2, <2>3 DEF Fr!Content, Fr!Decompress
  <2>4. QED
    BY <2>1, <2>2, <2>3
<1> HIDE DEF out
<1>4. Fr!ReadContent(stream, checked) = [ok |-> out.ok, content |-> out.content, rest |-> rest]
  BY <1>1, <1>2, <1>3 DEF Fr!ReadContent
<1>5. QED
  BY <1>4 DEF stream, out

\* Of a response cut off, nothing is returned.
LEMMA CutUnread ==
  ASSUME NEW body \in Seq(Bytes), NEW unzip \in Nat, NEW n \in Nat \ {0}, NEW checked \in BOOLEAN
  PROVE  ~Fr!ReadContent(Fr!Cut(n, Fr!Frame(body, unzip)), checked).ok
<1> DEFINE stream == Fr!Cut(n, Fr!Frame(body, unzip))
           r == Fr!ReadResponse(stream)
<1>1. ~r.ok
  BY CutRefused
<1> HIDE DEF r
<1>2. Fr!Content(r, checked) = Fr!Refused
  BY <1>1 DEF Fr!Content
<1>3. Fr!ReadContent(stream, checked).ok = FALSE
  BY <1>2 DEF Fr!ReadContent, Fr!Refused, r
<1>4. QED
  BY <1>3

\* A response and what follows it are a stream.
LEMMA FrameType ==
  ASSUME NEW body \in Seq(Bytes), NEW unzip \in Nat, NEW rest \in Seq(Bytes)
  PROVE  Fr!Frame(body, unzip) \in Seq(Bytes) /\ Fr!Frame(body, unzip) \o rest \in Seq(Bytes)
<1>1. Len(body) \in Nat
  BY LenProperties
<1>2. Fr!Header(Len(body), unzip) \in Seq(Bytes)
  BY <1>1, HeaderType
<1>3. Fr!Frame(body, unzip) \in Seq(Bytes)
  BY <1>2, ConcatProperties DEF Fr!Frame
<1>4. QED
  BY <1>3, ConcatProperties

\* A handshake takes its three answers and nothing more.
LEMMA HandshakeTakes ==
  ASSUME NEW bytes \in Seq(Bytes)
  PROVE  Fr!Handshake(Fr!Welcome \o bytes) = [ok |-> TRUE, rest |-> bytes]
<1> DEFINE one == Fr!Plain(<<1>>)
           two == Fr!Deflated(<<1, 2, 3>>, 2)
           first == Fr!Frame(one, 1)
           second == Fr!Frame(two, 3)
           third == Fr!Frame(<<>>, 0)
           last == third \o bytes
           after == second \o last
           stream == Fr!Welcome \o bytes
<1>1. one \in Seq(Bytes) /\ Len(one) = 1
  <2>1. <<1>> \in Seq(Int) /\ Len(<<1>>) = 1
    OBVIOUS
  <2>2. QED
    BY <2>1, PlainType
<1>2. two \in Seq(Bytes) /\ Len(two) = 2
  <2>1. <<1, 2, 3>> \in Seq(Int)
    OBVIOUS
  <2>2. QED
    BY <2>1, DeflatedType
<1>3. <<>> \in Seq(Bytes) /\ Len(<<>>) = 0
  BY EmptySeq
<1>4. Fr!Decompress(two).ok = TRUE
  <2> DEFINE three == <<1, 2, 3>>
             out == Fr!Inflate(two)
             limit == IF 0 > 0 /\ 0 + Margin < AbsLimit THEN 0 + Margin ELSE AbsLimit
  <2>1. three \in Seq(Int) /\ Len(three) = 3
    OBVIOUS
  <2>2. two = Fr!Deflated(three, 2) /\ 2 \in Nat \ {0}
    OBVIOUS
  <2> HIDE DEF three, two
  <2>3. out = [ok |-> TRUE, content |-> Fr!Plain(three)]
    BY <2>1, <2>2, InflateDeflated DEF Fr!Got
  <2>4. Len(Fr!Plain(three)) = 3
    BY <2>1, PlainType
  <2>5. limit = AbsLimit /\ ~(3 > AbsLimit)
    BY ParametersAssumption
  <2>6. Fr!DecompressChecked(two, 0) = IF out.ok /\ Len(out.content) > limit THEN Fr!Refused ELSE out
    BY DEF Fr!DecompressChecked
  <2> HIDE DEF out, limit
  <2>7. Fr!DecompressChecked(two, 0) = out
    BY <2>3, <2>4, <2>5, <2>6
  <2>8. QED
    BY <2>3, <2>7 DEF Fr!Decompress
<1> HIDE DEF one, two
<1>5. first \in Seq(Bytes) /\ second \in Seq(Bytes) /\ third \in Seq(Bytes)
  BY <1>1, <1>2, <1>3, FrameType
<1>6. last \in Seq(Bytes) /\ after \in Seq(Bytes)
  <2> HIDE DEF second, third
  <2>1. last \in Seq(Bytes)
    BY <1>5, ConcatProperties
  <2> HIDE DEF last
  <2>2. QED
    BY <1>5, <2>1, ConcatProperties
<1>7. stream = first \o after
  <2>1. stream = ((first \o second) \o third) \o bytes
    BY DEF Fr!Welcome, one, two
  <2> HIDE DEF first, second, third, stream
  <2>2. first \o second \in Seq(Bytes)
    BY <1>5, ConcatProperties
  <2>3. ((first \o second) \o third) \o bytes = (first \o second) \o (third \o bytes)
    BY <1>5, <2>2, ConcatAssociative, SMTT(30)
  <2>4. (first \o second) \o last = first \o (second \o last)
    <3> HIDE DEF last
    <3> QED BY <1>5, <1>6, ConcatAssociative, SMTT(30)
  <2>5. QED
    BY <2>1, <2>3, <2>4
<1> DEFINE r1 == Fr!ReadResponse(stream)
           r2 == Fr!ReadResponse(after)
           r3 == Fr!ReadResponse(last)
<1> HIDE DEF after
<1>8. /\ Fr!ReadResponse(first \o after) =
           [ok |-> TRUE, header |-> [zip |-> Len(one), unzip |-> 1], body |-> one, rest |-> after]
  BY <1>1, <1>6, ResponseRead
<1> HIDE DEF first, stream
<1>9. r1.ok = TRUE /\ r1.header.zip = 1 /\ r1.header.unzip = 1 /\ r1.rest = after
  BY <1>1, <1>7, <1>8
<1> HIDE DEF last
<1>10. Fr!ReadResponse(second \o last) =
         [ok |-> TRUE, header |-> [zip |-> Len(two), unzip |-> 3], body |-> two, rest |-> last]
  BY <1>2, <1>6, ResponseRead
<1> HIDE DEF second
<1>11. r2.ok = TRUE /\ r2.body = two /\ r2.rest = last
  BY <1>10 DEF after
<1>12. Fr!ReadResponse(third \o bytes) =
         [ok |-> TRUE, header |-> [zip |-> Len(<<>>), unzip |-> 0], body |-> <<>>, rest |-> bytes]
  BY <1>3, ResponseRead
<1> HIDE DEF third
<1>13. r3.ok = TRUE /\ r3.header.zip = 0 /\ r3.header.unzip = 0 /\ r3.rest = bytes
  BY <1>3, <1>12 DEF last
<1> HIDE DEF r1, r2, r3
<1>14. Fr!Answered(r1) = TRUE /\ Fr!Answered(r2) = TRUE /\ Fr!Answered(r3) = TRUE
  <2>1. Fr!Answered(r1)
    BY <1>9 DEF Fr!Answered
  <2>2. Fr!Answered(r2)
    BY <1>4, <1>11 DEF Fr!Answered
  <2>3. Fr!Answered(r3)
    BY <1>13 DEF Fr!Answered
  <2>4. QED
    BY <2>1, <2>2, <2>3 DEF Fr!Answered
<1>15. Fr!Handshake(stream) =
         [ok |-> Fr!Answered(r1) /\ Fr!Answered(r2) /\ Fr!Answered(r3), rest |-> r3.rest]
  BY <1>9, <1>11 DEF Fr!Handshake, r1, r2, r3
<1>16. QED
  BY <1>13, <1>14, <1>15 DEF stream

\* Every client reads the response that follows the handshake.
Checked(client) == client \in {"sync", "f10", "finance"}

LEMMA ReadsAsOne ==
  ASSUME NEW client \in Fr!Readers, NEW bytes \in Seq(Bytes)
  PROVE  Fr!Reading(client, bytes) = Fr!ReadContent(bytes, Checked(client))
<1>1. Fr!Handshake(Fr!Welcome \o bytes).ok = TRUE /\ Fr!Handshake(Fr!Welcome \o bytes).rest = bytes
  BY HandshakeTakes
<1>2. client \in {"sync", "async", "direct", "f10", "finance"}
  BY DEF Fr!Readers
<1>3. CASE client = "sync"
  BY <1>1, <1>3 DEF Fr!Reading, Fr!SyncRead, Checked
<1>4. CASE client = "async"
  <2>1. Checked(client) = FALSE
    BY <1>4 DEF Checked
  <2>2. Fr!Reading(client, bytes) = Fr!ReadContent(bytes, FALSE)
    BY <1>1, <1>4 DEF Fr!Reading, Fr!AsyncRead
  <2>3. QED
    BY <2>1, <2>2
<1>5. CASE client = "direct"
  <2>1. Checked(client) = FALSE
    BY <1>5 DEF Checked
  <2>2. Fr!Reading(client, bytes) = Fr!ReadContent(bytes, FALSE)
    BY <1>1, <1>5 DEF Fr!Reading, Fr!DirectRead, Fr!OneCall
  <2>3. QED
    BY <2>1, <2>2
<1>6. CASE client = "f10"
  BY <1>1, <1>6 DEF Fr!Reading, Fr!F10Read, Fr!OneCall, Checked
<1>7. CASE client = "finance"
  BY <1>1, <1>7 DEF Fr!Reading, Fr!FinanceRead, Fr!OneCall, Checked
<1>8. QED
  BY <1>2, <1>3, <1>4, <1>5, <1>6, <1>7

\* Deflated content is refused above the limit only.
LEMMA Decompressed ==
  ASSUME NEW body, NEW content \in Seq(Int), NEW unzip \in {0, Len(content)},
         Fr!Inflate(body) = Fr!Got(Fr!Plain(content))
  PROVE  Fr!DecompressChecked(body, unzip) =
           IF Len(content) <= AbsLimit THEN Fr!Got(Fr!Plain(content)) ELSE Fr!Refused
<1> DEFINE limit == IF unzip > 0 /\ unzip + Margin < AbsLimit THEN unzip + Margin ELSE AbsLimit
           out == Fr!Inflate(body)
<1>1. Len(content) \in Nat /\ unzip \in Nat
  BY LenProperties
<1>2. Len(content) > limit <=> ~(Len(content) <= AbsLimit)
  BY <1>1, ParametersAssumption
<1>3. out = Fr!Got(Fr!Plain(content)) /\ out.ok = TRUE /\ Len(out.content) = Len(content)
  BY PlainType DEF Fr!Got
<1>4. Fr!DecompressChecked(body, unzip) = IF out.ok /\ Len(out.content) > limit THEN Fr!Refused ELSE out
  BY DEF Fr!DecompressChecked
<1> HIDE DEF limit, out
<1>5. QED
  BY <1>2, <1>3, <1>4

\* Responses are read whole or not at all.
LEMMA FramesAreRead ==
  ASSUME NEW client \in Fr!Readers, NEW content \in Seq(Int), NEW size \in Nat, NEW declared \in Nat,
         NEW corrupt \in BOOLEAN, NEW cut \in Nat, NEW next \in Seq(Int)
  PROVE  Fr!FramesRead(client, content, size, declared, corrupt, cut, next)
<1> DEFINE body == IF size = 0 THEN Fr!Plain(content)
                   ELSE IF corrupt THEN Fr!Reverse(Fr!Deflated(content, size)) ELSE Fr!Deflated(content, size)
           following == Fr!Frame(Fr!Plain(next), Len(next))
           frame == Fr!Frame(body, declared)
           whole == Fr!Reading(client, frame \o following)
           checked == Checked(client)
           out == IF body = <<>> THEN Fr!Refused
                  ELSE IF Len(body) = declared THEN Fr!Got(body)
                  ELSE Fr!DecompressChecked(body, IF checked THEN declared ELSE 0)
           good == IF size = 0 THEN content # <<>> ELSE ~(corrupt /\ size > 1) /\ Len(content) <= AbsLimit
<1> SUFFICES ASSUME (size = 0 /\ declared = Len(content)) \/ (size > 0 /\ declared \in {0, Len(content)} \ {size})
             PROVE  /\ whole.ok <=> good
                    /\ whole.ok => whole.content = Fr!Plain(content)
                    /\ whole.rest = following
                    /\ cut > 0 => ~Fr!Reading(client, Fr!Cut(cut, frame)).ok
  BY DEF Fr!FramesRead
<1>1. Len(next) \in Nat /\ Len(content) \in Nat /\ Fr!Plain(next) \in Seq(Bytes)
  BY LenProperties, PlainType
<1>2. <<>> \in Seq(Bytes) /\ following \in Seq(Bytes)
  BY <1>1, FrameType, EmptySeq
<1>3. body \in Seq(Bytes) /\ Len(body) = (IF size = 0 THEN Len(content) ELSE size)
  <2>1. CASE size = 0
    BY <2>1, PlainType
  <2>2. CASE size # 0 /\ corrupt
    BY <2>2, InflateReversed
  <2>3. CASE size # 0 /\ ~corrupt
    BY <2>3, DeflatedType
  <2>4. QED
    BY <2>1, <2>2, <2>3
<1>4. checked \in BOOLEAN
  BY DEF Checked
<1>5. size # 0 => Fr!Inflate(body) = IF corrupt /\ size > 1 THEN Fr!Refused ELSE Fr!Got(Fr!Plain(content))
  <2>1. CASE size # 0 /\ corrupt
    BY <2>1, InflateReversed
  <2>2. CASE size # 0 /\ ~corrupt
    BY <2>2, InflateDeflated
  <2>3. QED
    BY <2>1, <2>2
<1>6. size = 0 => body = Fr!Plain(content)
  OBVIOUS
<1> HIDE DEF body
<1>7. frame \in Seq(Bytes) /\ frame \o following \in Seq(Bytes)
  BY <1>2, <1>3, FrameType
<1>8. Fr!ReadContent(frame \o following, checked) = [ok |-> out.ok, content |-> out.content, rest |-> following]
  <2> HIDE DEF following, checked
  <2> QED BY <1>2, <1>3, <1>4, ContentRead
<1>9. whole = [ok |-> out.ok, content |-> out.content, rest |-> following]
  <2> HIDE DEF frame, following, out
  <2> QED BY <1>7, <1>8, ReadsAsOne
<1>10. cut > 0 => ~Fr!Reading(client, Fr!Cut(cut, frame)).ok
  <2> SUFFICES ASSUME cut > 0 PROVE ~Fr!Reading(client, Fr!Cut(cut, frame)).ok
    OBVIOUS
  <2>1. Fr!Cut(cut, frame) \in Seq(Bytes)
    BY <1>3, CutRefused
  <2>2. ~Fr!ReadContent(Fr!Cut(cut, frame), checked).ok
    <3> HIDE DEF checked
    <3> QED BY <1>3, <1>4, CutUnread
  <2> HIDE DEF frame
  <2>3. QED
    BY <2>1, <2>2, ReadsAsOne
<1>11. (out.ok <=> good) /\ (out.ok => out.content = Fr!Plain(content))
  <2>1. CASE size = 0 /\ content = <<>>
    <3>1. body = <<>>
      BY <1>3, <2>1, EmptySeq
    <3>2. QED
      BY <2>1, <3>1 DEF Fr!Refused
  <2>2. CASE size = 0 /\ content # <<>>
    <3>1. body # <<>> /\ Len(body) = declared
      BY <1>3, <2>2, EmptySeq
    <3>2. out = Fr!Got(Fr!Plain(content))
      BY <1>6, <2>2, <3>1
    <3>3. QED
      BY <2>2, <3>2 DEF Fr!Got
  <2>3. CASE size # 0
    <3> DEFINE unzip == IF checked THEN declared ELSE 0
    <3>1. body # <<>> /\ Len(body) # declared
      BY <1>3, <2>3, EmptySeq
    <3>2. out = Fr!DecompressChecked(body, unzip)
      BY <3>1
    <3>3. unzip \in {0, Len(content)}
      BY <2>3
    <3>4. CASE corrupt /\ size > 1
      <4>1. Fr!Inflate(body).ok = FALSE
        BY <1>5, <2>3, <3>4 DEF Fr!Refused
      <4>2. Fr!Inflate(body) = Fr!Refused
        BY <1>5, <2>3, <3>4
      <4> HIDE DEF unzip, out
      <4>3. Fr!DecompressChecked(body, unzip) = Fr!Refused
        BY <4>1, <4>2 DEF Fr!DecompressChecked
      <4>4. out.ok = FALSE
        BY <3>2, <4>3 DEF Fr!Refused
      <4>5. ~good
        BY <2>3, <3>4
      <4>6. QED
        BY <4>4, <4>5
    <3>5. CASE ~(corrupt /\ size > 1)
      <4>1. Fr!Inflate(body) = Fr!Got(Fr!Plain(content))
        BY <1>5, <2>3, <3>5
      <4> HIDE DEF unzip, out
      <4>2. out = IF Len(content) <= AbsLimit THEN Fr!Got(Fr!Plain(content)) ELSE Fr!Refused
        BY <3>2, <3>3, <4>1, Decompressed
      <4>3. good <=> Len(content) <= AbsLimit
        BY <2>3, <3>5
      <4> HIDE DEF good
      <4>4. QED
        BY <4>2, <4>3 DEF Fr!Got, Fr!Refused
    <3>6. QED
      BY <3>4, <3>5
  <2>4. QED
    BY <2>1, <2>2, <2>3
<1> HIDE DEF out, good, following, frame, whole
<1>12. (whole.ok = out.ok) /\ whole.content = out.content /\ whole.rest = following
  BY <1>9
<1>13. QED
  BY <1>10, <1>11, <1>12

-----------------------------------------------------------------------------
(* Block files *)

\* What a stretch of a sequence holds, and two adjoining ones.
LEMMA Stretch ==
  ASSUME NEW S, NEW s \in Seq(S), NEW a \in Nat, NEW b \in Nat, a <= b, b <= Len(s)
  PROVE  /\ SubSeq(s, a + 1, b) \in Seq(S) /\ Len(SubSeq(s, a + 1, b)) = b - a
         /\ \A i \in 1..(b - a) : SubSeq(s, a + 1, b)[i] = s[a + i]
<1> DEFINE t == SubSeq(s, a + 1, b)
<1>1. Len(s) \in Nat /\ \A i \in 1..Len(s) : s[i] \in S
  BY LenProperties, ElementOfSeq
<1>2. \A i \in (a + 1)..b : s[i] \in S
  BY <1>1
<1>3. /\ t \in Seq(S) /\ Len(t) = IF a + 1 <= b THEN b - (a + 1) + 1 ELSE 0
      /\ \A i \in 1..(b - (a + 1) + 1) : t[i] = s[a + 1 + i - 1]
  BY <1>2, SubSeqProperties
<1> HIDE DEF t
<1>4. Len(t) = b - a
  BY <1>3
<1>5. \A i \in 1..(b - a) : t[i] = s[a + i]
  <2> SUFFICES ASSUME NEW i \in 1..(b - a) PROVE t[i] = s[a + i]
    OBVIOUS
  <2>1. i \in 1..(b - (a + 1) + 1) /\ a + 1 + i - 1 = a + i
    OBVIOUS
  <2>2. QED
    BY <1>3, <2>1
<1>6. QED
  BY <1>3, <1>4, <1>5 DEF t

LEMMA WholeStretch ==
  ASSUME NEW S, NEW s \in Seq(S)
  PROVE  SubSeq(s, 1, Len(s)) = s
<1>1. Len(s) \in Nat /\ 0 + 1 = 1 /\ 0 <= Len(s) /\ Len(s) - 0 = Len(s) /\ \A i \in Nat : 0 + i = i
  BY LenProperties
<1>2. /\ SubSeq(s, 0 + 1, Len(s)) \in Seq(S) /\ Len(SubSeq(s, 0 + 1, Len(s))) = Len(s) - 0
      /\ \A i \in 1..(Len(s) - 0) : SubSeq(s, 0 + 1, Len(s))[i] = s[0 + i]
  BY <1>1, Stretch
<1>3. QED
  BY <1>1, <1>2, SeqEqual

LEMMA StretchesJoin ==
  ASSUME NEW S, NEW s \in Seq(S), NEW a \in Nat, NEW b \in Nat, a <= b, b <= Len(s)
  PROVE  SubSeq(s, 1, a) \o SubSeq(s, a + 1, b) = SubSeq(s, 1, b)
<1> DEFINE one == SubSeq(s, 1, a)
           two == SubSeq(s, a + 1, b)
           both == SubSeq(s, 1, b)
<1>1. Len(s) \in Nat
  BY LenProperties
<1>2. two \in Seq(S) /\ Len(two) = b - a /\ \A i \in 1..(b - a) : two[i] = s[a + i]
  BY Stretch
<1>3. 0 + 1 = 1 /\ 0 <= a /\ a <= Len(s) /\ 0 <= b /\ a - 0 = a /\ b - 0 = b /\ \A i \in Nat : 0 + i = i
  BY <1>1
<1>4. one \in Seq(S) /\ Len(one) = a /\ \A i \in 1..a : one[i] = s[i]
  <2>1. /\ SubSeq(s, 0 + 1, a) \in Seq(S) /\ Len(SubSeq(s, 0 + 1, a)) = a - 0
        /\ \A i \in 1..(a - 0) : SubSeq(s, 0 + 1, a)[i] = s[0 + i]
    BY <1>3, Stretch
  <2>2. QED
    BY <1>3, <2>1
<1>5. both \in Seq(S) /\ Len(both) = b /\ \A i \in 1..b : both[i] = s[i]
  <2>1. /\ SubSeq(s, 0 + 1, b) \in Seq(S) /\ Len(SubSeq(s, 0 + 1, b)) = b - 0
        /\ \A i \in 1..(b - 0) : SubSeq(s, 0 + 1, b)[i] = s[0 + i]
    BY <1>3, Stretch
  <2>2. QED
    BY <1>3, <2>1
<1> HIDE DEF one, two, both
<1>6. /\ one \o two \in Seq(S) /\ Len(one \o two) = Len(one) + Len(two)
      /\ \A i \in 1..(Len(one) + Len(two)) : (one \o two)[i] = IF i <= Len(one) THEN one[i] ELSE two[i - Len(one)]
  BY <1>2, <1>4, ConcatProperties
<1>7. Len(one) + Len(two) = b
  BY <1>2, <1>4
<1>8. ASSUME NEW i \in 1..b PROVE (one \o two)[i] = both[i]
  <2>1. CASE i <= a
    BY <1>4, <1>5, <1>6, <1>7, <2>1, SMTT(30)
  <2>2. CASE ~(i <= a)
    <3>1. i - a \in 1..(b - a) /\ a + (i - a) = i
      BY <2>2
    <3>2. (one \o two)[i] = two[i - a] /\ two[i - a] = s[a + (i - a)]
      BY <1>2, <1>4, <1>6, <1>7, <2>2, <3>1
    <3>3. QED
      BY <1>5, <3>1, <3>2
  <2>3. QED
    BY <2>1, <2>2
<1>9. QED
  BY <1>5, <1>6, <1>7, <1>8, SeqEqual DEF one, two, both

\* Products by ascending factors.
LEMMA NextProduct ==
  ASSUME NEW i \in Int, NEW c \in Int
  PROVE  i * c = (i - 1) * c + c
  OBVIOUS

LEMMA ProductsAscend ==
  ASSUME NEW i \in Nat, NEW j \in Nat, NEW c \in Nat, i <= j
  PROVE  i * c <= j * c
  OBVIOUS

\* The parts of at most c a sequence is cut into.
LEMMA PartsCover ==
  ASSUME NEW len \in Nat, NEW c \in Nat \ {0}
  PROVE  LET n == (len + c - 1) \div c
         IN /\ n \in Nat
            /\ n = 0 => len = 0
            /\ \A i \in 1..n : /\ (i - 1) * c \in Nat /\ (i - 1) * c <= len
                               /\ i * c = (i - 1) * c + c
                               /\ i < n => i * c <= len
            /\ 0 * c = 0
            /\ n * c \in Nat /\ len <= n * c
<1> DEFINE n == (len + c - 1) \div c
<1>1. n \in Nat /\ n * c <= len + c - 1 /\ len + c - 1 < n * c + c
  OBVIOUS
<1> HIDE DEF n
<1>2. n * c \in Nat /\ len <= n * c
  <2>1. n * c \in Nat
    BY <1>1
  <2>2. (len + c - 1) - n * c < c
    BY <1>1, <2>1
  <2>3. QED
    BY <2>1, <2>2
<1>3. n = 0 => len = 0
  BY <1>1
<1>4. ASSUME NEW i \in 1..n
      PROVE  /\ (i - 1) * c \in Nat /\ (i - 1) * c <= len
             /\ i * c = (i - 1) * c + c
             /\ i < n => i * c <= len
  <2>1. i \in Nat /\ i - 1 \in Nat /\ n - 1 \in Nat /\ i - 1 <= n - 1
    BY <1>1
  <2>2. (i - 1) * c \in Nat /\ (n - 1) * c \in Nat /\ (i - 1) * c <= (n - 1) * c
    BY <2>1
  <2>3. n * c = (n - 1) * c + c /\ i * c = (i - 1) * c + c
    <3>1. n \in Int /\ i \in Int /\ c \in Int
      BY <1>1, <2>1
    <3>2. QED
      BY <3>1, NextProduct
  <2>4. (n - 1) * c <= len
    BY <1>1, <2>2, <2>3
  <2>5. (i - 1) * c <= len
    BY <2>2, <2>4
  <2>6. i < n => i * c <= (n - 1) * c
    <3> SUFFICES ASSUME i < n PROVE i * c <= (n - 1) * c
      OBVIOUS
    <3>1. i <= n - 1
      BY <2>1, <1>1
    <3>2. QED
      BY <2>1, <3>1, ProductsAscend
  <2>7. i < n => i * c <= len
    <3>1. i * c \in Nat
      BY <2>1
    <3>2. QED
      BY <2>2, <2>4, <2>6, <3>1
  <2>8. QED
    BY <2>2, <2>3, <2>5, <2>7
<1>5. 0 * c = 0
  OBVIOUS
<1>6. QED
  BY <1>1, <1>2, <1>3, <1>4, <1>5 DEF n

\* A block file asked for chunk by chunk is put together as it was.
LEMMA FilesAreWhole ==
  ASSUME NEW file \in Seq(Int)
  PROVE  Fr!FilesPutTogether(file)
<1> DEFINE len == Len(file)
           n == (len + Chunk - 1) \div Chunk
           pos(i) == IF i < n THEN i * Chunk ELSE len
           size(i) == IF i < n THEN Chunk ELSE len - (n - 1) * Chunk
           part(i) == SubSeq(file, (i - 1) * Chunk + 1, (i - 1) * Chunk + size(i))
           got(i) == SubSeq(part(i), 1, IF Chunk < size(i) THEN Chunk ELSE size(i))
           ss == [i \in 1..n |-> got(i)]
           f == [i \in 0..n |-> SubSeq(file, 1, pos(i))]
<1>1. len \in Nat
  BY LenProperties
<1>2. /\ n \in Nat
      /\ n = 0 => len = 0
      /\ \A i \in 1..n : /\ (i - 1) * Chunk \in Nat /\ (i - 1) * Chunk <= len
                         /\ i < n => i * Chunk = (i - 1) * Chunk + Chunk /\ i * Chunk <= len
      /\ 0 * Chunk = 0
      /\ n * Chunk \in Nat /\ len <= n * Chunk
  <2>1. Chunk \in Nat \ {0}
    BY ParametersAssumption
  <2> HIDE DEF len
  <2>2. QED
    BY <1>1, <2>1, PartsCover
<1>3. len - (n - 1) * Chunk <= Chunk
  <2>1. Chunk \in Nat /\ Chunk > 0
    BY ParametersAssumption
  <2> HIDE DEF len, n
  <2>2. n * Chunk = (n - 1) * Chunk + Chunk
    <3>1. n \in Int /\ Chunk \in Int
      BY <1>2, <2>1
    <3>2. QED
      BY <3>1, NextProduct
  <2>3. (n - 1) * Chunk \in Int
    BY <1>2, <2>1
  <2>4. QED
    BY <1>1, <1>2, <2>1, <2>2, <2>3
<1> HIDE DEF len, n
<1>4. ASSUME NEW i \in 1..n
      PROVE  /\ pos(i - 1) = (i - 1) * Chunk /\ pos(i - 1) \in Nat /\ size(i) \in Nat
             /\ pos(i) \in Nat /\ pos(i) = pos(i - 1) + size(i) /\ pos(i) <= len
             /\ got(i) = SubSeq(file, pos(i - 1) + 1, pos(i))
  <2>1. i - 1 < n /\ (i - 1) * Chunk \in Nat /\ (i - 1) * Chunk <= len /\ Chunk \in Nat
    BY <1>2, ParametersAssumption
  <2>2. pos(i - 1) = (i - 1) * Chunk
    BY <2>1
  <2>3. size(i) \in Nat /\ pos(i) = (i - 1) * Chunk + size(i) /\ pos(i) <= len
    <3>1. CASE i < n
      <4>1. i * Chunk = (i - 1) * Chunk + Chunk /\ i * Chunk <= len
        BY <1>2, <3>1
      <4>2. pos(i) = i * Chunk /\ size(i) = Chunk
        BY <3>1
      <4>3. QED
        BY <2>1, <4>1, <4>2
    <3>2. CASE ~(i < n)
      <4>1. i = n
        BY <1>2, <3>2
      <4>2. pos(i) = len /\ size(i) = len - (i - 1) * Chunk
        BY <3>2, <4>1
      <4> DEFINE at == (i - 1) * Chunk
      <4>3. at \in Nat /\ at <= len
        BY <2>1
      <4> HIDE DEF at
      <4>4. len - at \in Nat /\ at + (len - at) = len
        BY <1>1, <4>3
      <4>5. QED
        BY <1>1, <4>2, <4>4 DEF at
    <3>3. QED
      BY <3>1, <3>2
  <2>4. ~(Chunk < size(i))
    <3>1. CASE i < n
      BY <2>1, <3>1
    <3>2. CASE ~(i < n)
      <4>1. size(i) = len - (n - 1) * Chunk
        BY <3>2
      <4>2. size(i) <= Chunk
        BY <1>3, <4>1
      <4> HIDE DEF size
      <4>3. QED
        BY <2>1, <2>3, <4>2
    <3>3. QED
      BY <3>1, <3>2
  <2> DEFINE at == (i - 1) * Chunk
  <2>5. part(i) \in Seq(Int) /\ Len(part(i)) = size(i) /\ part(i) = SubSeq(file, at + 1, pos(i))
    <3>1. at \in Nat /\ pos(i) \in Nat /\ at <= pos(i) /\ pos(i) <= Len(file) /\ pos(i) - at = size(i)
      <4> HIDE DEF at, pos, size
      <4>1. at \in Nat
        BY <2>1 DEF at
      <4>2. pos(i) = at + size(i)
        BY <2>3 DEF at
      <4>3. QED
        BY <1>1, <2>3, <4>1, <4>2 DEF len
    <3>2. part(i) = SubSeq(file, at + 1, pos(i))
      BY <2>3
    <3> HIDE DEF at, pos, part, size
    <3>3. SubSeq(file, at + 1, pos(i)) \in Seq(Int) /\ Len(SubSeq(file, at + 1, pos(i))) = pos(i) - at
      BY <3>1, Stretch
    <3>4. QED
      BY <3>1, <3>2, <3>3
  <2>6. SubSeq(part(i), 1, size(i)) = part(i)
    <3> HIDE DEF part, size
    <3>1. SubSeq(part(i), 1, Len(part(i))) = part(i)
      BY <2>5, WholeStretch
    <3>2. QED
      BY <2>5, <3>1
  <2>7. got(i) = part(i)
    BY <2>4, <2>6
  <2>8. pos(i - 1) = at /\ at \in Nat /\ pos(i) = at + size(i)
    BY <2>1, <2>2, <2>3
  <2>9. got(i) = SubSeq(file, pos(i - 1) + 1, pos(i))
    <3> HIDE DEF pos, size, got, part, at
    <3> QED BY <2>5, <2>7, <2>8
  <2>10. pos(i) \in Nat
    <3> HIDE DEF pos, size, at
    <3> QED BY <2>3, <2>8
  <2> HIDE DEF pos, size, got, part
  <2>11. QED
    BY <2>2, <2>3, <2>8, <2>9, <2>10
<1>5. pos(0) = 0 /\ pos(n) = len
  BY <1>1, <1>2
<1>6. \A i \in 0..n : pos(i) \in Nat /\ pos(i) <= len
  <2> SUFFICES ASSUME NEW i \in 0..n PROVE pos(i) \in Nat /\ pos(i) <= len
    OBVIOUS
  <2>1. CASE i = 0
    BY <1>1, <1>5, <2>1
  <2>2. CASE i # 0
    <3>1. i \in 1..n
      BY <2>2
    <3> HIDE DEF pos, got, size
    <3>2. QED
      BY <1>4, <3>1
  <2>3. QED
    BY <2>1, <2>2
<1> HIDE DEF pos, size, part, got
<1>7. f \in [0..n -> Seq(Int)] /\ f[0] = <<>> /\ f[n] = file
  <2>1. \A i \in 0..n : SubSeq(file, 1, pos(i)) \in Seq(Int)
    <3> SUFFICES ASSUME NEW i \in 0..n PROVE SubSeq(file, 1, pos(i)) \in Seq(Int)
      OBVIOUS
    <3>1. pos(i) \in Nat /\ pos(i) <= Len(file) /\ 0 <= pos(i) /\ 0 + 1 = 1
      BY <1>6 DEF len
    <3>2. SubSeq(file, 0 + 1, pos(i)) \in Seq(Int)
      BY <3>1, Stretch
    <3>3. QED
      BY <3>1, <3>2
  <2>2. SubSeq(file, 1, 0) = <<>> /\ SubSeq(file, 1, len) = file
    BY DEF len
  <2>3. QED
    BY <1>2, <1>5, <2>1, <2>2
<1>8. ss \in Seq(Seq(Int)) /\ Len(ss) = n
  <2>1. \A i \in 1..n : got(i) \in Seq(Int)
    <3> SUFFICES ASSUME NEW i \in 1..n PROVE got(i) \in Seq(Int)
      OBVIOUS
    <3>1. /\ pos(i - 1) \in Nat /\ pos(i) \in Nat /\ pos(i - 1) <= pos(i) /\ pos(i) <= Len(file)
          /\ got(i) = SubSeq(file, pos(i - 1) + 1, pos(i))
      BY <1>4 DEF len
    <3>2. SubSeq(file, pos(i - 1) + 1, pos(i)) \in Seq(Int)
      BY <3>1, Stretch
    <3>3. QED
      BY <3>1, <3>2
  <2>2. ss \in [1..n -> Seq(Int)]
    BY <2>1
  <2> HIDE DEF ss
  <2>3. QED
    BY <1>2, <2>2
<1>9. ASSUME NEW i \in 1..n PROVE f[i] = f[i - 1] \o ss[i]
  <2>1. /\ pos(i - 1) \in Nat /\ pos(i) \in Nat /\ pos(i - 1) <= pos(i) /\ pos(i) <= Len(file)
        /\ got(i) = SubSeq(file, pos(i - 1) + 1, pos(i))
    BY <1>4 DEF len
  <2>2. SubSeq(file, 1, pos(i - 1)) \o SubSeq(file, pos(i - 1) + 1, pos(i)) = SubSeq(file, 1, pos(i))
    BY <2>1, StretchesJoin
  <2>3. i \in 0..n /\ i - 1 \in 0..n
    BY <1>2
  <2>4. f[i] = SubSeq(file, 1, pos(i)) /\ f[i - 1] = SubSeq(file, 1, pos(i - 1)) /\ ss[i] = got(i)
    BY <2>3
  <2>5. QED
    BY <2>1, <2>2, <2>4
<1>10. FlattenSeq(ss) = f[n]
  <2> HIDE DEF ss, f
  <2> QED BY <1>7, <1>8, <1>9, FlattenIs
<1>11. Fr!GetBlockData(file, Chunk) = Fr!FlattenSeq(ss)
  BY DEF Fr!GetBlockData, ss, got, part, size, n, len
<1>12. QED
  BY <1>7, <1>10, <1>11, OneFlatten DEF Fr!FilesPutTogether

\* The inputs of a job, one of those assumed.
LEMMA JobsAreInputs ==
  ASSUME OneInput
  PROVE  \/ \E f \in Frames : job' = [job |-> "frame", frame |-> f]
         \/ \E file \in Downloads : job' = [job |-> "download", file |-> file]
         \/ \E m \in Moments : job' = [job |-> "clock", moment |-> m]
         \/ \E c \in FundCodes : job' = [job |-> "code", market |-> c[1], code |-> c[2]]
         \/ \E l \in Listings : job' = [job |-> "funds", listing |-> l]
         \/ \E k \in Asks : job' = [job |-> "call", client |-> k.client, op |-> k.op, a |-> k.a]
         \/ \E b \in Baskets : job' = [job |-> "quotes", basket |-> b]
         \/ \E c \in Calls : job' = [job |-> "adjust", client |-> c.client, q |-> c.q]
  BY DEF OneInput

\* Whatever the server writes, every client reads its responses whole or gets an error, with
\* nothing left behind, and block files are put together as they are (read_response_raw,
\* perform_handshake, decompress_zlib_checked, get_and_parse_block_info).
THEOREM ResponsesAreWhole == Inputs => []ResponsesComeWhole
<1>1. Begin => ResponsesComeWhole
  BY DEF Begin, ResponsesComeWhole
<1>2. ResponsesComeWhole /\ [OneInput]_job => ResponsesComeWhole'
  <2> SUFFICES ASSUME ResponsesComeWhole, [OneInput]_job PROVE ResponsesComeWhole'
    OBVIOUS
  <2>1. CASE UNCHANGED job
    BY <2>1 DEF ResponsesComeWhole
  <2>2. CASE OneInput
    <3>1. ASSUME NEW f \in Frames, job' = [job |-> "frame", frame |-> f] PROVE ResponsesComeWhole'
      <4>1. /\ f.client \in Fr!Readers /\ f.content \in Seq(Int) /\ f.size \in Nat /\ f.declared \in Nat
            /\ f.corrupt \in BOOLEAN /\ f.cut \in Nat /\ f.next \in Seq(Int)
        BY InputsAssumption
      <4>2. Fr!FramesRead(f.client, f.content, f.size, f.declared, f.corrupt, f.cut, f.next)
        BY <4>1, FramesAreRead
      <4>3. QED
        BY <3>1, <4>2 DEF ResponsesComeWhole
    <3>2. ASSUME NEW file \in Downloads, job' = [job |-> "download", file |-> file] PROVE ResponsesComeWhole'
      <4>1. Fr!FilesPutTogether(file)
        BY InputsAssumption, FilesAreWhole
      <4>2. QED
        BY <3>2, <4>1 DEF ResponsesComeWhole
    <3>3. CASE job'.job \notin {"frame", "download"}
      BY <3>3 DEF ResponsesComeWhole
    <3>4. QED
      BY <2>2, <3>1, <3>2, <3>3, JobsAreInputs
  <2>3. QED
    BY <2>1, <2>2
<1>3. QED
  BY <1>1, <1>2, PTL DEF Inputs

-----------------------------------------------------------------------------
(* The clock *)

\* Leap years are those the number of them grows in.
LEMMA LeapCounts ==
  ASSUME NEW y \in Nat
  PROVE  /\ Cal!LeapsUpto(y) \in Int /\ Cal!LeapsUpto(y - 1) \in Int
         /\ Cal!LeapsUpto(y) - Cal!LeapsUpto(y - 1) = IF Cal!Leap(y) THEN 1 ELSE 0
<1>1. /\ (y \div 4) - ((y - 1) \div 4) = IF y % 4 = 0 THEN 1 ELSE 0
      /\ y \div 4 \in Int /\ (y - 1) \div 4 \in Int
  OBVIOUS
<1>2. /\ (y \div 100) - ((y - 1) \div 100) = IF y % 100 = 0 THEN 1 ELSE 0
      /\ y \div 100 \in Int /\ (y - 1) \div 100 \in Int
  OBVIOUS
<1>3. /\ (y \div 400) - ((y - 1) \div 400) = IF y % 400 = 0 THEN 1 ELSE 0
      /\ y \div 400 \in Int /\ (y - 1) \div 400 \in Int
  OBVIOUS
<1>4. (y % 100 = 0 => y % 4 = 0) /\ (y % 400 = 0 => y % 100 = 0)
  OBVIOUS
<1> DEFINE a == y \div 4
           b == (y - 1) \div 4
           c == y \div 100
           d == (y - 1) \div 100
           e == y \div 400
           g == (y - 1) \div 400
<1>5. Cal!LeapsUpto(y) = a - c + e /\ Cal!LeapsUpto(y - 1) = b - d + g
  BY DEF Cal!LeapsUpto
<1>6. a \in Int /\ b \in Int /\ c \in Int /\ d \in Int /\ e \in Int /\ g \in Int
  BY <1>1, <1>2, <1>3
<1>7. a - b = (IF y % 4 = 0 THEN 1 ELSE 0) /\ c - d = (IF y % 100 = 0 THEN 1 ELSE 0) /\ e - g = (IF y % 400 = 0 THEN 1 ELSE 0)
  BY <1>1, <1>2, <1>3
<1> HIDE DEF a, b, c, d, e, g
<1>8. QED
  BY <1>4, <1>5, <1>6, <1>7 DEF Cal!Leap

\* The days of the years before y, by the number of leap years.
DaysOfYears(y) == 365 * (y - 1970) + Cal!LeapsUpto(y - 1) - Cal!LeapsUpto(1969)

LEMMA LeapsCounted ==
  ASSUME NEW y \in Nat, y >= 1970
  PROVE  /\ Cardinality({k \in 1970..(y - 1) : Cal!Leap(k)}) = Cal!LeapsUpto(y - 1) - Cal!LeapsUpto(1969)
         /\ IsFiniteSet({k \in 1970..(y - 1) : Cal!Leap(k)})
<1> DEFINE Leaps(n) == {k \in 1970..(n - 1) : Cal!Leap(k)}
           Counted(n) == Cardinality(Leaps(n)) = Cal!LeapsUpto(n - 1) - Cal!LeapsUpto(1969) /\ IsFiniteSet(Leaps(n))
           T == {n \in Nat : n >= 1970 /\ ~Counted(n)}
<1>1. Counted(1970)
  <2>1. Leaps(1970) = {}
    OBVIOUS
  <2>2. Cal!LeapsUpto(1969) \in Int /\ 1970 - 1 = 1969
    <3>1. 1969 \in Nat
      OBVIOUS
    <3>2. QED
      BY <3>1, LeapCounts
  <2> HIDE DEF Leaps
  <2>3. QED
    BY <2>1, <2>2, FS_EmptySet
<1>2. T = {}
  <2> SUFFICES ASSUME T # {} PROVE FALSE
    OBVIOUS
  <2>1. PICK x \in T : \A n \in T : x <= n
    <3>1. T \subseteq Nat /\ T # {}
      OBVIOUS
    <3> HIDE DEF T
    <3> QED BY ONLY <3>1, LeastNat
  <2> HIDE DEF Counted
  <2>2. x \in Nat /\ x >= 1970 /\ ~Counted(x) /\ \A n \in Nat : n >= 1970 /\ ~Counted(n) => x <= n
    BY <2>1
  <2>3. x # 1970
    BY <1>1, <2>2
  <2> DEFINE z == x - 1
  <2>4. z \in Nat /\ z >= 1970 /\ Counted(z) /\ x - 1 = z
    BY <2>2, <2>3
  <2>5. /\ Cardinality(Leaps(z)) = Cal!LeapsUpto(z - 1) - Cal!LeapsUpto(1969)
        /\ IsFiniteSet(Leaps(z))
    BY <2>4 DEF Counted
  <2>6. /\ Cal!LeapsUpto(z) \in Int /\ Cal!LeapsUpto(z - 1) \in Int /\ Cal!LeapsUpto(1969) \in Int
        /\ Cal!LeapsUpto(z) - Cal!LeapsUpto(z - 1) = IF Cal!Leap(z) THEN 1 ELSE 0
    <3>1. z \in Nat /\ 1969 \in Nat
      BY <2>4
    <3> HIDE DEF z
    <3>2. QED
      BY <3>1, LeapCounts
  <2>7. Leaps(x) = IF Cal!Leap(z) THEN Leaps(z) \cup {z} ELSE Leaps(z)
    BY <2>2, <2>3
  <2>8. z \notin Leaps(z)
    BY <2>4
  <2> HIDE DEF z, Leaps
  <2>9. CASE Cal!Leap(z)
    <3>1. Leaps(x) = Leaps(z) \cup {z}
      BY <2>7, <2>9
    <3>2. IsFiniteSet(Leaps(x)) /\ Cardinality(Leaps(x)) = Cardinality(Leaps(z)) + 1
      BY <2>5, <2>8, <3>1, FS_AddElement
    <3>3. Cardinality(Leaps(x)) = Cal!LeapsUpto(z) - Cal!LeapsUpto(1969)
      BY <2>5, <2>6, <2>9, <3>2
    <3>4. QED
      BY <2>2, <2>4, <3>2, <3>3 DEF Counted
  <2>10. CASE ~Cal!Leap(z)
    <3>1. Leaps(x) = Leaps(z)
      BY <2>7, <2>10
    <3>2. Cal!LeapsUpto(z - 1) = Cal!LeapsUpto(z)
      BY <2>6, <2>10
    <3>3. QED
      BY <2>2, <2>4, <2>5, <3>1, <3>2 DEF Counted
  <2>11. QED
    BY <2>9, <2>10
<1>3. Counted(y)
  <2> HIDE DEF Counted
  <2> QED BY <1>2
<1>4. QED
  BY <1>3

LEMMA YearsAreDays ==
  ASSUME NEW y \in Nat, y >= 1970
  PROVE  /\ Cal!YearsBefore(y) = DaysOfYears(y) /\ DaysOfYears(y) \in Int
         /\ DaysOfYears(y + 1) = DaysOfYears(y) + 365 + (IF Cal!Leap(y) THEN 1 ELSE 0)
<1>1. Cardinality({k \in 1970..(y - 1) : Cal!Leap(k)}) = Cal!LeapsUpto(y - 1) - Cal!LeapsUpto(1969)
  BY LeapsCounted
<1>2. /\ Cal!LeapsUpto(y) \in Int /\ Cal!LeapsUpto(y - 1) \in Int
      /\ Cal!LeapsUpto(y) - Cal!LeapsUpto(y - 1) = IF Cal!Leap(y) THEN 1 ELSE 0
  BY LeapCounts
<1>3. Cal!LeapsUpto(1969) \in Int
  <2>1. 1969 \in Nat
    OBVIOUS
  <2>2. QED
    BY <2>1, LeapCounts
<1>4. (y + 1) - 1 = y
  OBVIOUS
<1> DEFINE a == Cal!LeapsUpto(y - 1)
           b == Cal!LeapsUpto(1969)
           c == Cal!LeapsUpto(y)
<1>5. /\ Cal!YearsBefore(y) = 365 * (y - 1970) + (a - b) /\ DaysOfYears(y) = 365 * (y - 1970) + a - b
      /\ DaysOfYears(y + 1) = 365 * ((y + 1) - 1970) + c - b
  <2>1. Cal!YearsBefore(y) = 365 * (y - 1970) + (a - b)
    BY <1>1, OneCardinality DEF Cal!YearsBefore
  <2>2. DaysOfYears(y) = 365 * (y - 1970) + a - b
    BY DEF DaysOfYears
  <2>3. DaysOfYears(y + 1) = 365 * ((y + 1) - 1970) + Cal!LeapsUpto((y + 1) - 1) - b
    BY DEF DaysOfYears
  <2>4. QED
    BY <1>4, <2>1, <2>2, <2>3
<1> HIDE DEF a, b, c
<1>6. a \in Int /\ b \in Int /\ c \in Int /\ c - a = IF Cal!Leap(y) THEN 1 ELSE 0
  BY <1>2, <1>3 DEF a, b, c
<1>7. QED
  BY <1>5, <1>6

\* The days of the months before the nth.
DaysOfMonths(y, n) ==
  <<0, 31, 59, 90, 120, 151, 181, 212, 243, 273, 304, 334, 365>>[n] + (IF n > 2 /\ Cal!Leap(y) THEN 1 ELSE 0)

LEMMA MonthsAreDays ==
  ASSUME NEW y \in Nat
  PROVE  \A n \in 1..13 : Cal!MonthsBefore(y, n) = DaysOfMonths(y, n)
<1> DEFINE days == Cal!MonthDays(y)
           Adds(g) == g = [k \in 1..13 |-> IF k = 1 THEN 0 ELSE g[k - 1] + days[k - 1]]
           table == [n \in 1..13 |-> DaysOfMonths(y, n)]
           before == CHOOSE g : Adds(g)
<1>1. /\ DaysOfMonths(y, 1) = 0
      /\ \A k \in 2..13 : DaysOfMonths(y, k) = DaysOfMonths(y, k - 1) + days[k - 1]
  <2>1. DaysOfMonths(y, 1) = 0
    BY DEF DaysOfMonths
  <2>2. ASSUME NEW k \in 2..13 PROVE DaysOfMonths(y, k) = DaysOfMonths(y, k - 1) + days[k - 1]
    <3>1. CASE Cal!Leap(y)
      BY <3>1 DEF DaysOfMonths, Cal!MonthDays
    <3>2. CASE ~Cal!Leap(y)
      BY <3>2 DEF DaysOfMonths, Cal!MonthDays
    <3>3. QED
      BY <3>1, <3>2
  <2>3. QED
    BY <2>1, <2>2
<1> HIDE DEF days
<1>2. Adds(table)
  <2>1. ASSUME NEW k \in 1..13
        PROVE  DaysOfMonths(y, k) = IF k = 1 THEN 0 ELSE table[k - 1] + days[k - 1]
    <3>1. CASE k = 1
      BY <1>1, <3>1
    <3>2. CASE k # 1
      <4>1. k \in 2..13 /\ k - 1 \in 1..13
        BY <3>2
      <4>2. table[k - 1] = DaysOfMonths(y, k - 1)
        BY <4>1
      <4>3. QED
        BY <1>1, <3>2, <4>1, <4>2
    <3>3. QED
      BY <3>1, <3>2
  <2>2. QED
    BY <2>1
<1>3. Adds(before)
  <2> HIDE DEF Adds
  <2> QED BY <1>2
<1>4. \A n \in 1..13 : Cal!MonthsBefore(y, n) = before[n]
  BY DEF Cal!MonthsBefore, days
<1> HIDE DEF before
<1>5. before[1] = 0 /\ \A k \in 2..13 : before[k] = before[k - 1] + days[k - 1]
  <2>1. \A k \in 1..13 : before[k] = IF k = 1 THEN 0 ELSE before[k - 1] + days[k - 1]
    BY <1>3
  <2>2. QED
    BY <2>1
<1> DEFINE T == {n \in 1..13 : before[n] # DaysOfMonths(y, n)}
<1>6. T = {}
  <2> SUFFICES ASSUME T # {} PROVE FALSE
    OBVIOUS
  <2>1. PICK x \in T : \A n \in T : x <= n
    <3>1. T \subseteq Nat /\ T # {}
      OBVIOUS
    <3> HIDE DEF T
    <3> QED BY ONLY <3>1, LeastNat
  <2>2. x \in 1..13 /\ before[x] # DaysOfMonths(y, x) /\ \A n \in 1..13 : before[n] # DaysOfMonths(y, n) => x <= n
    BY <2>1
  <2>3. x # 1
    BY <1>1, <1>5, <2>2
  <2>4. x \in 2..13 /\ x - 1 \in 1..13 /\ ~(x <= x - 1)
    BY <2>2, <2>3
  <2>5. before[x - 1] = DaysOfMonths(y, x - 1)
    BY <2>2, <2>4
  <2>6. QED
    BY <1>1, <1>5, <2>2, <2>4, <2>5
<1>7. QED
  BY <1>4, <1>6

\* A day of a year is one of a month, which has 31 days at most.
LEMMA MonthOfDay ==
  ASSUME NEW y \in Nat, NEW left \in Nat, left < 365 + (IF Cal!Leap(y) THEN 1 ELSE 0)
  PROVE  /\ \E n \in 1..12 : DaysOfMonths(y, n) <= left /\ left < DaysOfMonths(y, n + 1)
         /\ \A n \in 1..13 : DaysOfMonths(y, n) \in Nat
         /\ \A n \in 1..12 : DaysOfMonths(y, n + 1) <= DaysOfMonths(y, n) + 31
<1> DEFINE d(n) == DaysOfMonths(y, n)
           l == IF Cal!Leap(y) THEN 1 ELSE 0
<1>1. /\ d(1) = 0 /\ d(2) = 31 /\ d(3) = 59 + l /\ d(4) = 90 + l /\ d(5) = 120 + l /\ d(6) = 151 + l /\ d(7) = 181 + l
      /\ d(8) = 212 + l /\ d(9) = 243 + l /\ d(10) = 273 + l /\ d(11) = 304 + l /\ d(12) = 334 + l /\ d(13) = 365 + l
  <2>1. CASE Cal!Leap(y)
    BY <2>1 DEF DaysOfMonths
  <2>2. CASE ~Cal!Leap(y)
    BY <2>2 DEF DaysOfMonths
  <2>3. QED
    BY <2>1, <2>2
<1>2. l \in {0, 1} /\ left < 365 + l
  OBVIOUS
<1> HIDE DEF d, l
<1>3. \E n \in 1..12 : d(n) <= left /\ left < d(n + 1)
  <2>1. ASSUME NEW n \in 1..12, NEW a, NEW b, d(n) = a, d(n + 1) = b, a <= left, left < b
        PROVE  \E k \in 1..12 : d(k) <= left /\ left < d(k + 1)
    BY <2>1
  <2>2. /\ 1 + 1 = 2 /\ 2 + 1 = 3 /\ 3 + 1 = 4 /\ 4 + 1 = 5 /\ 5 + 1 = 6 /\ 6 + 1 = 7 /\ 7 + 1 = 8 /\ 8 + 1 = 9
        /\ 9 + 1 = 10 /\ 10 + 1 = 11 /\ 11 + 1 = 12 /\ 12 + 1 = 13
    OBVIOUS
  <2>3. \/ (d(1) <= left /\ left < d(2)) \/ (d(2) <= left /\ left < d(3))
        \/ (d(3) <= left /\ left < d(4)) \/ (d(4) <= left /\ left < d(5))
        \/ (d(5) <= left /\ left < d(6)) \/ (d(6) <= left /\ left < d(7))
        \/ (d(7) <= left /\ left < d(8)) \/ (d(8) <= left /\ left < d(9))
        \/ (d(9) <= left /\ left < d(10)) \/ (d(10) <= left /\ left < d(11))
        \/ (d(11) <= left /\ left < d(12)) \/ (d(12) <= left /\ left < d(13))
    BY <1>1, <1>2
  <2>4. /\ 1 \in 1..12 /\ 2 \in 1..12 /\ 3 \in 1..12 /\ 4 \in 1..12 /\ 5 \in 1..12 /\ 6 \in 1..12 /\ 7 \in 1..12
        /\ 8 \in 1..12 /\ 9 \in 1..12 /\ 10 \in 1..12 /\ 11 \in 1..12 /\ 12 \in 1..12
    OBVIOUS
  <2>5. QED
    BY <2>2, <2>3, <2>4
<1>4. \A n \in 1..13 : d(n) \in Nat
  BY <1>1, <1>2
<1>5. \A n \in 1..12 : d(n + 1) <= d(n) + 31
  <2> SUFFICES ASSUME NEW n \in 1..12 PROVE d(n + 1) <= d(n) + 31
    OBVIOUS
  <2>1. n \in {1, 2, 3, 4, 5, 6, 7, 8, 9, 10, 11, 12}
    OBVIOUS
  <2>2. QED
    BY <1>1, <1>2, <2>1
<1>6. QED
  BY <1>3, <1>4, <1>5 DEF d

\* A day up to LastYear is one of a year.
LEMMA YearOfDay ==
  ASSUME NEW day \in Nat, day < Cal!YearsBefore(LastYear + 1)
  PROVE  \E y \in 1970..LastYear : Cal!YearsBefore(y) <= day /\ day < Cal!YearsBefore(y + 1)
<1> DEFINE Later(y) == day < Cal!YearsBefore(y)
           T == {y \in 1970..(LastYear + 1) : Later(y)}
<1>1. LastYear \in Nat /\ LastYear >= 1970
  BY ParametersAssumption
<1>2. \A y \in 1970..(LastYear + 1) : Cal!YearsBefore(y) \in Int
  <2> SUFFICES ASSUME NEW y \in 1970..(LastYear + 1) PROVE Cal!YearsBefore(y) \in Int
    OBVIOUS
  <2>1. y \in Nat /\ y >= 1970
    BY <1>1
  <2>2. QED
    BY <2>1, YearsAreDays
<1>3. Cal!YearsBefore(1970) = 0
  <2>1. 1970 \in Nat /\ 1970 >= 1970 /\ 1970 - 1 = 1969 /\ 1969 \in Nat
    OBVIOUS
  <2>2. Cal!YearsBefore(1970) = DaysOfYears(1970) /\ Cal!LeapsUpto(1969) \in Int
    BY <2>1, YearsAreDays, LeapCounts
  <2>3. QED
    BY <2>1, <2>2 DEF DaysOfYears
<1>4. PICK x \in T : \A y \in T : x <= y
  <2>1. T \subseteq Nat /\ T # {}
    BY <1>1
  <2> HIDE DEF T
  <2> QED BY ONLY <2>1, LeastNat
<1>5. x \in 1970..(LastYear + 1) /\ day < Cal!YearsBefore(x) /\ \A y \in 1970..(LastYear + 1) : Later(y) => x <= y
  BY <1>4
<1>6. x # 1970
  BY <1>3, <1>5
<1> DEFINE z == x - 1
<1>7. z \in 1970..LastYear /\ z \in 1970..(LastYear + 1) /\ ~(x <= z) /\ z + 1 = x
  BY <1>1, <1>5, <1>6
<1> HIDE DEF z, T
<1>8. ~Later(z)
  BY <1>5, <1>7
<1>9. Cal!YearsBefore(z) <= day
  BY <1>2, <1>7, <1>8
<1>10. QED
  BY <1>5, <1>7, <1>9

\* The seconds of a day, and those of it that are of the next day in Beijing.
LEMMA DayHas == Cal!OneDay = 86400
  BY DEF Cal!OneDay

LEMMA SecondsOfDay ==
  ASSUME NEW sec \in Nat, sec <= Cal!OneDay - 1
  PROVE  /\ sec <= 86399
         /\ (sec + 8 * 3600) \div Cal!OneDay = IF sec < 57600 THEN 0 ELSE 1
         /\ (sec + 8 * 3600) % Cal!OneDay = IF sec < 57600 THEN sec + 28800 ELSE sec - 57600
<1>1. sec <= 86399 /\ 8 * 3600 = 28800
  BY DayHas
<1>2. (sec + 28800) \div 86400 = IF sec < 57600 THEN 0 ELSE 1
  BY ONLY sec \in Nat, <1>1
<1>3. (sec + 28800) % 86400 = IF sec < 57600 THEN sec + 28800 ELSE sec - 57600
  BY ONLY sec \in Nat, <1>1
<1>4. QED
  BY <1>1, <1>2, <1>3, DayHas

\* What a moment holds.
LEMMA MomentFields ==
  ASSUME NEW m \in [day : Nat, sec : 0..(Cal!OneDay - 1)]
  PROVE  /\ m.day \in Nat /\ m.sec \in Nat /\ m.sec <= 86399
         /\ Cal!BeijingDay(m) = (IF m.sec < 57600 THEN m.day ELSE m.day + 1)
         /\ Cal!BeijingDay(m) \in Nat
         /\ (m.sec + 8 * 3600) % Cal!OneDay = IF m.sec < 57600 THEN m.sec + 28800 ELSE m.sec - 57600
<1> DEFINE last == Cal!OneDay - 1
           day == m.day
           sec == m.sec
<1>1. m \in [day : Nat, sec : 0..last]
  OBVIOUS
<1> HIDE DEF last
<1>2. m.day \in Nat /\ m.sec \in Nat /\ m.sec <= last
  BY ONLY <1>1
<1> HIDE DEF day, sec
<1>3. day \in Nat /\ sec \in Nat /\ sec <= Cal!OneDay - 1
  BY ONLY <1>2 DEF day, sec, last
<1>4. /\ sec <= 86399
      /\ (sec + 8 * 3600) \div Cal!OneDay = IF sec < 57600 THEN 0 ELSE 1
      /\ (sec + 8 * 3600) % Cal!OneDay = IF sec < 57600 THEN sec + 28800 ELSE sec - 57600
  BY ONLY <1>3, SecondsOfDay
<1>5. Cal!BeijingDay(m) = day + (sec + 8 * 3600) \div Cal!OneDay
  BY DEF Cal!BeijingDay, day, sec
<1>6. Cal!BeijingDay(m) = (IF sec < 57600 THEN day ELSE day + 1) /\ Cal!BeijingDay(m) \in Nat
  BY ONLY <1>3, <1>4, <1>5
<1>7. QED
  BY ONLY <1>3, <1>4, <1>6 DEF day, sec

\* Today is the date in Beijing.
LEMMA TodayIsRight ==
  ASSUME NEW m \in [day : Nat, sec : 0..(Cal!OneDay - 1)], Cal!BeijingDay(m) < Cal!YearsBefore(LastYear + 1)
  PROVE  Cal!TodayIsBeijings(m)
<1> DEFINE day == Cal!BeijingDay(m)
           y == CHOOSE k \in 1970..LastYear : Cal!YearsBefore(k) <= day /\ day < Cal!YearsBefore(k + 1)
           left == day - Cal!YearsBefore(y)
           n == CHOOSE k \in 1..12 : Cal!MonthsBefore(y, k) <= left /\ left < Cal!MonthsBefore(y, k + 1)
           nth == left - Cal!MonthsBefore(y, n) + 1
           date == Cal!TodayYyyymmdd(m)
<1>1. day \in Nat
  BY MomentFields
<1>2. y \in 1970..LastYear /\ Cal!YearsBefore(y) <= day /\ day < Cal!YearsBefore(y + 1)
  <2> HIDE DEF day
  <2>1. \E k \in 1970..LastYear : Cal!YearsBefore(k) <= day /\ day < Cal!YearsBefore(k + 1)
    BY <1>1, YearOfDay DEF day
  <2>2. QED
    BY <2>1
<1>3. date = y * 10000 + n * 100 + left - Cal!MonthsBefore(y, n) + 1
  BY DEF Cal!TodayYyyymmdd
<1> HIDE DEF day, y, date
<1>4. y \in Nat /\ y >= 1970 /\ y + 1 \in Nat /\ y + 1 >= 1970
  BY <1>2, ParametersAssumption
<1>5. /\ Cal!YearsBefore(y) = DaysOfYears(y) /\ DaysOfYears(y) \in Int
      /\ Cal!YearsBefore(y + 1) = DaysOfYears(y) + 365 + (IF Cal!Leap(y) THEN 1 ELSE 0)
  <2> DEFINE z == y + 1
  <2>1. z \in Nat /\ z >= 1970
    BY <1>4
  <2> HIDE DEF z
  <2>2. Cal!YearsBefore(z) = DaysOfYears(z)
    BY <2>1, YearsAreDays
  <2>3. QED
    BY <1>4, <2>2, YearsAreDays DEF z
<1>6. left \in Nat /\ left < 365 + (IF Cal!Leap(y) THEN 1 ELSE 0)
  BY <1>1, <1>2, <1>5
<1>7. left = day - DaysOfYears(y)
  BY <1>5
<1> HIDE DEF left
<1>8. /\ \E k \in 1..12 : DaysOfMonths(y, k) <= left /\ left < DaysOfMonths(y, k + 1)
      /\ \A k \in 1..13 : DaysOfMonths(y, k) \in Nat
      /\ \A k \in 1..12 : DaysOfMonths(y, k + 1) <= DaysOfMonths(y, k) + 31
  <2>1. y \in Nat
    BY <1>4
  <2>2. QED
    BY ONLY <1>6, <2>1, MonthOfDay
<1>9. \A k \in 1..13 : Cal!MonthsBefore(y, k) = DaysOfMonths(y, k)
  BY <1>4, MonthsAreDays
<1>10. \A k \in 1..12 : k \in 1..13 /\ k + 1 \in 1..13
  OBVIOUS
<1>11. n \in 1..12 /\ Cal!MonthsBefore(y, n) <= left /\ left < Cal!MonthsBefore(y, n + 1)
  <2>1. \E k \in 1..12 : Cal!MonthsBefore(y, k) <= left /\ left < Cal!MonthsBefore(y, k + 1)
    BY <1>8, <1>9, <1>10
  <2>2. QED
    BY <2>1
<1> HIDE DEF n
<1> DEFINE a == DaysOfMonths(y, n)
           b == DaysOfMonths(y, n + 1)
<1>12. a <= left /\ left < b /\ a \in Nat /\ b \in Nat /\ b <= a + 31 /\ nth = left - a + 1
  BY <1>8, <1>9, <1>10, <1>11
<1> HIDE DEF a, b
<1>13. nth \in 1..31 /\ nth = left - a + 1 /\ nth <= b - a
  BY <1>6, <1>12
<1>14. date = y * 10000 + n * 100 + nth
  <2>1. date = y * 10000 + n * 100 + left - a + 1
    BY <1>3, <1>9, <1>10, <1>11 DEF a
  <2> HIDE DEF nth
  <2>2. QED
    BY <1>4, <1>6, <1>11, <1>12, <1>13, <2>1
<1> HIDE DEF nth
<1>15. date \div 10000 = y /\ (date \div 100) % 100 = n /\ date % 100 = nth
  <2>1. y * 10000 \in Nat /\ n \in Nat /\ nth \in Nat /\ n <= 12 /\ nth <= 31
    BY <1>4, <1>11, <1>13
  <2>2. date = 10000 * y + 100 * n + nth
    BY <1>4, <1>11, <1>13, <1>14
  <2>3. date \div 10000 = y
    BY <1>4, <2>1, <2>2
  <2>4. date \div 100 = 100 * y + n
    BY <1>4, <2>1, <2>2
  <2>5. (100 * y + n) % 100 = n
    BY <1>4, <2>1
  <2>6. date % 100 = nth
    BY <1>4, <2>1, <2>2
  <2>7. QED
    BY <2>3, <2>4, <2>5, <2>6
<1>16. \A k \in 1..13 : Cal!DaysTo(y, k) = DaysOfYears(y) + DaysOfMonths(y, k)
  <2> SUFFICES ASSUME NEW k \in 1..13 PROVE Cal!DaysTo(y, k) = DaysOfYears(y) + DaysOfMonths(y, k)
    OBVIOUS
  <2> DEFINE years == 365 * (y - 1970) + Cal!LeapsUpto(y - 1) - Cal!LeapsUpto(1969)
             table == <<0, 31, 59, 90, 120, 151, 181, 212, 243, 273, 304, 334, 365>>[k]
             step == Cal!LeapsUpto(y) - Cal!LeapsUpto(y - 1)
             l == IF Cal!Leap(y) THEN 1 ELSE 0
  <2>1. step = l /\ l \in {0, 1}
    BY <1>4, LeapCounts
  <2>2. table \in Nat
    OBVIOUS
  <2>3. Cal!DaysTo(y, k) = years + table + (IF k > 2 THEN step ELSE 0)
    BY DEF Cal!DaysTo
  <2>4. years = DaysOfYears(y)
    BY DEF DaysOfYears
  <2>5. DaysOfMonths(y, k) = table + (IF k > 2 /\ Cal!Leap(y) THEN 1 ELSE 0)
    BY DEF DaysOfMonths
  <2>6. (IF k > 2 /\ Cal!Leap(y) THEN 1 ELSE 0) = (IF k > 2 THEN l ELSE 0)
    OBVIOUS
  <2> HIDE DEF years, table, step, l
  <2>7. QED
    BY <1>5, <2>1, <2>2, <2>3, <2>4, <2>5, <2>6
<1>17. Cal!DaysTo(y, n) = DaysOfYears(y) + a /\ Cal!DaysTo(y, n + 1) = DaysOfYears(y) + b
  BY <1>10, <1>11, <1>16 DEF a, b
<1>18. DaysOfYears(y) + a + nth - 1 = day
  BY <1>1, <1>5, <1>6, <1>7, <1>12, <1>13
<1>19. DaysOfYears(y) + a + nth <= DaysOfYears(y) + b
  BY <1>5, <1>12, <1>13
<1>20. QED
  BY <1>15, <1>17, <1>18, <1>19 DEF Cal!TodayIsBeijings, day, date

\* Trading is the session in Beijing.
LEMMA TradingIsSession ==
  ASSUME NEW m \in [day : Nat, sec : 0..(Cal!OneDay - 1)]
  PROVE  Cal!TradingInSession(m)
<1> DEFINE day == m.day
           sec == m.sec
           there == (m.sec + 8 * 3600) % Cal!OneDay
           trading == ~(Cal!Weekday(m.day) \in {0, 6}) /\ 5400 <= m.sec /\ m.sec <= 25200
           session == Cal!Weekday(Cal!BeijingDay(m)) \in 1..5 /\ 9 * 3600 + 1800 <= there /\ there <= 15 * 3600
<1>1. /\ m.day \in Nat /\ m.sec \in Nat /\ m.sec <= 86399
      /\ Cal!BeijingDay(m) = (IF m.sec < 57600 THEN m.day ELSE m.day + 1)
      /\ there = IF m.sec < 57600 THEN m.sec + 28800 ELSE m.sec - 57600
  BY MomentFields
<1>2. Cal!DetectTradingPhase(m) = "trading" <=> trading
  BY ONLY TRUE DEF Cal!DetectTradingPhase
<1>3. Cal!Weekday(m.day) \in 0..6
  <2> HIDE DEF day
  <2>1. m.day = day /\ day \in Nat
    BY <1>1 DEF day
  <2>2. (day + 4) % 7 \in 0..6
    BY ONLY <2>1
  <2>3. QED
    BY <2>1, <2>2 DEF Cal!Weekday
<1> HIDE DEF there
<1>4. trading <=> session
  <2>1. 9 * 3600 + 1800 = 34200 /\ 15 * 3600 = 54000
    OBVIOUS
  <2>2. CASE m.sec < 57600
    <3>1. Cal!BeijingDay(m) = m.day /\ there = m.sec + 28800
      BY ONLY <1>1, <2>2
    <3>2. (34200 <= there /\ there <= 54000) <=> (5400 <= m.sec /\ m.sec <= 25200)
      BY ONLY <1>1, <3>1
    <3>3. ~(Cal!Weekday(m.day) \in {0, 6}) <=> Cal!Weekday(m.day) \in 1..5
      BY ONLY <1>3
    <3>4. QED
      BY ONLY <2>1, <3>1, <3>2, <3>3
  <2>3. CASE ~(m.sec < 57600)
    <3>1. there = m.sec - 57600
      BY ONLY <1>1, <2>3
    <3>2. ~(34200 <= there) /\ ~(m.sec <= 25200)
      BY ONLY <1>1, <2>3, <3>1
    <3>3. QED
      BY ONLY <2>1, <3>2
  <2>4. QED
    BY ONLY <2>2, <2>3
<1> HIDE DEF trading
<1>5. QED
  BY ONLY <1>2, <1>4 DEF Cal!TradingInSession, there

\* Today is the date in Beijing at every moment, a limiter that follows the clock is at its
\* trading rate in the session and only there (today_yyyymmdd, detect_trading_phase).
THEOREM ClockIsRight == Inputs => []ClockIsBeijings
<1>1. Begin => ClockIsBeijings
  BY DEF Begin, ClockIsBeijings
<1>2. ClockIsBeijings /\ [OneInput]_job => ClockIsBeijings'
  <2> SUFFICES ASSUME ClockIsBeijings, [OneInput]_job PROVE ClockIsBeijings'
    OBVIOUS
  <2>1. CASE UNCHANGED job
    BY <2>1 DEF ClockIsBeijings
  <2>2. CASE OneInput
    <3>1. ASSUME NEW m \in Moments, job' = [job |-> "clock", moment |-> m] PROVE ClockIsBeijings'
      <4>1. m \in [day : Nat, sec : 0..(Cal!OneDay - 1)] /\ Cal!BeijingDay(m) < Cal!YearsBefore(LastYear + 1)
        BY InputsAssumption
      <4>2. Cal!TodayIsBeijings(m) /\ Cal!TradingInSession(m)
        BY <4>1, TodayIsRight, TradingIsSession
      <4>3. QED
        BY <3>1, <4>2 DEF ClockIsBeijings
    <3>2. CASE job'.job # "clock"
      BY <3>2 DEF ClockIsBeijings
    <3>3. QED
      BY <2>2, <3>1, <3>2, JobsAreInputs
  <2>3. QED
    BY <2>1, <2>2
<1>3. QED
  BY <1>1, <1>2, PTL DEF Inputs

-----------------------------------------------------------------------------
(* Funds *)

\* Sequences put together in two steps.
LEMMA FlattenType ==
  ASSUME NEW S, NEW ss \in Seq(Seq(S))
  PROVE  FlattenSeq(ss) \in Seq(S)
<1>1. PICK f \in [0..Len(ss) -> Seq(S)] : FlattenSeq(ss) = f[Len(ss)]
  BY FlattenSteps
<1>2. Len(ss) \in 0..Len(ss)
  BY LenProperties
<1>3. QED
  BY <1>1, <1>2

LEMMA FlattenNone ==
  ASSUME NEW S, NEW ss \in Seq(Seq(S)), \A i \in 1..Len(ss) : ss[i] = <<>>
  PROVE  FlattenSeq(ss) = <<>>
<1> DEFINE n == Len(ss)
           f == [i \in 0..n |-> <<>>]
<1>1. n \in Nat /\ <<>> \in Seq(S) /\ <<>> \o <<>> = <<>>
  BY LenProperties, EmptySeq
<1>2. f \in [0..n -> Seq(S)] /\ f[0] = <<>> /\ f[n] = <<>>
  BY <1>1
<1>3. ASSUME NEW i \in 1..n PROVE f[i] = f[i - 1] \o ss[i]
  <2>1. i \in 0..n /\ i - 1 \in 0..n
    BY <1>1
  <2>2. QED
    BY <1>1, <2>1
<1> HIDE DEF f
<1>4. QED
  BY <1>2, <1>3, FlattenIs

LEMMA FlattenConcat ==
  ASSUME NEW S, NEW s \in Seq(Seq(S)), NEW t \in Seq(Seq(S))
  PROVE  FlattenSeq(s \o t) = FlattenSeq(s) \o FlattenSeq(t)
<1> DEFINE m == Len(s)
           n == Len(t)
           u == s \o t
<1>1. m \in Nat /\ n \in Nat
  BY LenProperties
<1>2. u \in Seq(Seq(S)) /\ Len(u) = m + n /\ \A i \in 1..(m + n) : u[i] = IF i <= m THEN s[i] ELSE t[i - m]
  BY ConcatProperties
<1>3. PICK f \in [0..m -> Seq(S)] : f[0] = <<>> /\ (\A i \in 1..m : f[i] = f[i - 1] \o s[i]) /\ FlattenSeq(s) = f[m]
  BY FlattenSteps
<1>4. PICK g \in [0..n -> Seq(S)] : g[0] = <<>> /\ (\A i \in 1..n : g[i] = g[i - 1] \o t[i]) /\ FlattenSeq(t) = g[n]
  BY FlattenSteps
<1> DEFINE h == [i \in 0..(m + n) |-> IF i <= m THEN f[i] ELSE f[m] \o g[i - m]]
<1>5. f[m] \in Seq(S) /\ \A i \in 1..n : t[i] \in Seq(S)
  BY <1>1, <1>3, ElementOfSeq
<1> HIDE DEF m, n, u
<1>6. h \in [0..(m + n) -> Seq(S)]
  <2>1. ASSUME NEW i \in 0..(m + n) PROVE (IF i <= m THEN f[i] ELSE f[m] \o g[i - m]) \in Seq(S)
    <3>1. CASE i <= m
      BY <1>1, <1>3, <3>1
    <3>2. CASE ~(i <= m)
      <4>1. i - m \in 0..n
        BY <1>1, <3>2
      <4>2. g[i - m] \in Seq(S)
        BY <1>4, <4>1
      <4>3. f[m] \o g[i - m] \in Seq(S)
        BY <1>5, <4>2, ConcatProperties
      <4>4. QED
        BY <3>2, <4>3
    <3>3. QED
      BY <3>1, <3>2
  <2>2. QED
    BY <2>1
<1>7. h[0] = <<>>
  BY <1>1, <1>3
<1>8. h[m + n] = f[m] \o g[n]
  <2>1. CASE n = 0
    <3>1. h[m + n] = f[m] /\ g[n] = <<>>
      BY <1>1, <1>4, <2>1
    <3>2. f[m] \o <<>> = f[m]
      BY <1>5, ConcatEmptySeq
    <3>3. QED
      BY <3>1, <3>2
  <2>2. CASE n # 0
    <3> DEFINE l == m + n
    <3> HIDE DEF l, h
    <3>1. l = m + n
      BY DEF l
    <3>2. l \in 0..(m + n) /\ ~(l <= m) /\ l - m = n
      BY ONLY <1>1, <2>2, <3>1
    <3>3. h[l] = f[m] \o g[l - m]
      BY ONLY <3>2, Zenon DEF h
    <3>4. QED
      BY ONLY <3>1, <3>2, <3>3
  <2>3. QED
    BY <2>1, <2>2
<1>9. ASSUME NEW i \in 1..(m + n) PROVE h[i] = h[i - 1] \o u[i]
  <2>1. i \in 0..(m + n) /\ i - 1 \in 0..(m + n)
    BY <1>1
  <2>2. CASE i <= m
    <3>1. i \in 1..m /\ i - 1 <= m
      BY <1>1, <2>2
    <3>2. h[i] = f[i] /\ h[i - 1] = f[i - 1] /\ u[i] = s[i]
      BY <1>2, <2>1, <2>2, <3>1
    <3>3. QED
      BY <1>3, <3>1, <3>2
  <2>3. CASE ~(i <= m)
    <3> DEFINE j == i - m
    <3>1. j \in 1..n /\ i - 1 - m = j - 1 /\ j - 1 \in 0..n
      BY <1>1, <2>3
    <3>2. h[i] = f[m] \o g[j] /\ u[i] = t[j]
      BY <1>2, <2>1, <2>3, Zenon
    <3>3. h[i - 1] = f[m] \o g[j - 1]
      <4>1. CASE i - 1 = m
        <5>1. j - 1 = 0 /\ i - 1 <= m
          BY <1>1, <3>1, <4>1
        <5>2. h[i - 1] = f[m] /\ g[j - 1] = <<>>
          BY <1>4, <2>1, <4>1, <5>1
        <5>3. f[m] \o <<>> = f[m]
          BY <1>5, ConcatEmptySeq
        <5>4. QED
          BY <5>2, <5>3
      <4>2. CASE i - 1 # m
        <5>1. ~(i - 1 <= m)
          BY <1>1, <2>3, <4>2
        <5>2. QED
          BY <2>1, <3>1, <5>1
      <4>3. QED
        BY <4>1, <4>2
    <3> HIDE DEF j, h
    <3>4. g[j] = g[j - 1] \o t[j]
      BY <1>4, <3>1
    <3>5. g[j - 1] \in Seq(S) /\ t[j] \in Seq(S)
      BY <1>4, <1>5, <3>1
    <3>6. f[m] \o (g[j - 1] \o t[j]) = (f[m] \o g[j - 1]) \o t[j]
      <4> DEFINE a == f[m]
                 b == g[j - 1]
                 c == t[j]
      <4>1. a \in Seq(S) /\ b \in Seq(S) /\ c \in Seq(S)
        BY <1>5, <3>5
      <4> HIDE DEF a, b, c
      <4>2. (a \o b) \o c = a \o (b \o c)
        BY ONLY <4>1, ConcatAssociative, SMTT(30)
      <4>3. QED
        BY ONLY <4>2 DEF a, b, c
    <3>7. QED
      BY <3>2, <3>3, <3>4, <3>6
  <2>4. QED
    BY <2>2, <2>3, Zenon
<1> HIDE DEF h
<1>10. FlattenSeq(u) = h[m + n]
  BY <1>2, <1>6, <1>7, <1>9, FlattenIs
<1>11. QED
  BY <1>3, <1>4, <1>8, <1>10 DEF u

\* A set of numbers that holds all below each of its own is 0 up to its size.
LEMMA DownwardClosed ==
  ASSUME NEW D, NEW top \in Nat, D \subseteq 0..top, \A k \in D : \A j \in 0..(k - 1) : j \in D
  PROVE  Cardinality(D) \in Nat /\ Cardinality(D) \notin D /\ D = 0..(Cardinality(D) - 1)
<1> DEFINE T == {k \in 0..(top + 1) : k \notin D}
<1>1. top + 1 \in T /\ T \subseteq Nat /\ T # {}
  BY SMT
<1>2. PICK x \in T : \A k \in T : x <= k
  <2> HIDE DEF T
  <2> QED BY ONLY <1>1, LeastNat
<1>3. x \in 0..(top + 1) /\ x \notin D /\ \A k \in 0..(top + 1) : k \notin D => x <= k
  BY <1>2
<1>4. D = 0..(x - 1)
  <2>1. ASSUME NEW k \in D PROVE k \in 0..(x - 1)
    <3>1. k \in 0..top /\ \A j \in 0..(k - 1) : j \in D
      OBVIOUS
    <3>2. ~(x \in 0..(k - 1)) /\ k # x
      BY <1>3, <3>1
    <3>3. QED
      BY <1>3, <3>1, <3>2
  <2>2. ASSUME NEW k \in 0..(x - 1) PROVE k \in D
    BY <1>3
  <2>3. QED
    BY <2>1, <2>2
<1>5. Cardinality(0..(x - 1)) = x
  <2>1. 0 \in Int /\ x - 1 \in Int
    BY <1>3
  <2>2. Cardinality(0..(x - 1)) = IF 0 > x - 1 THEN 0 ELSE (x - 1) - 0 + 1
    BY ONLY <2>1, FS_Interval
  <2>3. QED
    BY <1>3, <2>2
<1>6. QED
  BY <1>3, <1>4, <1>5

\* What the list of funds has of each security.
Fit(market, code) ==
  IF Fund!IsFund(market, code) THEN <<[code |-> code, fund_type |-> Fund!ClassifyFund(market, code)]>> ELSE <<>>
Fits(market, codes) == [i \in DOMAIN codes |-> Fit(market, codes[i])]
FundRecords(market) == {[code |-> c, fund_type |-> Fund!ClassifyFund(market, c)] : c \in AnyCode}

LEMMA FitsType ==
  ASSUME NEW market, NEW codes \in Seq(AnyCode)
  PROVE  /\ Fits(market, codes) \in Seq(Seq(FundRecords(market))) /\ Len(Fits(market, codes)) = Len(codes)
         /\ \A i \in 1..Len(codes) : Fits(market, codes)[i] = Fit(market, codes[i])
         /\ Fund!FundsOf(market, codes) = FlattenSeq(Fits(market, codes))
<1> DEFINE S == FundRecords(market)
           n == Len(codes)
<1>1. n \in Nat /\ DOMAIN codes = 1..n /\ \A i \in 1..n : codes[i] \in AnyCode
  BY LenProperties, ElementOfSeq
<1>2. \A c \in AnyCode : Fit(market, c) \in Seq(S)
  <2> SUFFICES ASSUME NEW c \in AnyCode PROVE Fit(market, c) \in Seq(S)
    OBVIOUS
  <2> DEFINE rec == [code |-> c, fund_type |-> Fund!ClassifyFund(market, c)]
  <2>1. rec \in S
    BY DEF FundRecords
  <2> HIDE DEF rec, S
  <2>2. <<rec>> \in Seq(S) /\ <<>> \in Seq(S)
    BY <2>1
  <2>3. QED
    BY <2>2 DEF Fit, rec
<1>3. Fits(market, codes) = [i \in 1..n |-> Fit(market, codes[i])]
  BY <1>1 DEF Fits
<1> HIDE DEF S, n
<1>4. \A i \in 1..n : Fit(market, codes[i]) \in Seq(S)
  BY <1>1, <1>2
<1>5. Fits(market, codes) \in [1..n -> Seq(S)]
  BY <1>3, <1>4
<1>6. Fits(market, codes) \in Seq(Seq(S)) /\ Len(Fits(market, codes)) = n
  BY <1>1, <1>5
<1>7. Fund!FundsOf(market, codes) = Fund!FlattenSeq(Fits(market, codes))
  BY DEF Fund!FundsOf, Fits, Fit
<1>8. QED
  BY <1>3, <1>6, <1>7, OneFlatten DEF S, n

\* The funds of two lists put together are those of each; of a list without a fund, there are none.
LEMMA FundsOfBoth ==
  ASSUME NEW market, NEW a \in Seq(AnyCode), NEW b \in Seq(AnyCode)
  PROVE  Fund!FundsOf(market, a \o b) = Fund!FundsOf(market, a) \o Fund!FundsOf(market, b)
<1> DEFINE S == FundRecords(market)
           c == a \o b
           m == Len(a)
           n == Len(b)
           fa == Fits(market, a)
           fb == Fits(market, b)
           fc == Fits(market, c)
<1>1. m \in Nat /\ n \in Nat
  BY LenProperties
<1>2. c \in Seq(AnyCode) /\ Len(c) = m + n /\ \A i \in 1..(m + n) : c[i] = IF i <= m THEN a[i] ELSE b[i - m]
  BY ConcatProperties
<1> HIDE DEF c
<1>3. /\ fa \in Seq(Seq(S)) /\ Len(fa) = m /\ \A i \in 1..m : fa[i] = Fit(market, a[i])
      /\ Fund!FundsOf(market, a) = FlattenSeq(fa)
  BY FitsType
<1>4. /\ fb \in Seq(Seq(S)) /\ Len(fb) = n /\ \A i \in 1..n : fb[i] = Fit(market, b[i])
      /\ Fund!FundsOf(market, b) = FlattenSeq(fb)
  BY FitsType
<1>5. /\ fc \in Seq(Seq(S)) /\ Len(fc) = m + n /\ \A i \in 1..(m + n) : fc[i] = Fit(market, c[i])
      /\ Fund!FundsOf(market, c) = FlattenSeq(fc)
  BY <1>2, FitsType
<1> HIDE DEF S, m, n, fa, fb, fc
<1>6. /\ fa \o fb \in Seq(Seq(S)) /\ Len(fa \o fb) = m + n
      /\ \A i \in 1..(m + n) : (fa \o fb)[i] = IF i <= m THEN fa[i] ELSE fb[i - m]
  BY <1>3, <1>4, ConcatProperties
<1>7. ASSUME NEW i \in 1..(m + n) PROVE fc[i] = (fa \o fb)[i]
  <2>1. CASE i <= m
    <3>1. i \in 1..m
      BY <1>1, <2>1
    <3>2. QED
      BY <1>2, <1>3, <1>5, <1>6, <2>1, <3>1
  <2>2. CASE ~(i <= m)
    <3>1. i - m \in 1..n
      BY <1>1, <2>2
    <3>2. QED
      BY <1>2, <1>4, <1>5, <1>6, <2>2, <3>1
  <2>3. QED
    BY <2>1, <2>2
<1>8. fc = fa \o fb
  <2> DEFINE fd == fa \o fb
  <2>1. fd \in Seq(Seq(S)) /\ Len(fd) = Len(fc) /\ \A i \in 1..Len(fc) : fc[i] = fd[i]
    BY <1>5, <1>6, <1>7
  <2> HIDE DEF fd
  <2>2. fc = fd
    BY <1>5, <2>1, SeqEqual
  <2>3. QED
    BY <2>2 DEF fd
<1>9. FlattenSeq(fa \o fb) = FlattenSeq(fa) \o FlattenSeq(fb)
  BY <1>3, <1>4, FlattenConcat
<1>10. QED
  BY <1>3, <1>4, <1>5, <1>8, <1>9 DEF c

LEMMA FundsOfNone ==
  ASSUME NEW market, NEW codes \in Seq(AnyCode), \A i \in 1..Len(codes) : ~Fund!IsFund(market, codes[i])
  PROVE  Fund!FundsOf(market, codes) = <<>>
<1> DEFINE S == FundRecords(market)
           ss == Fits(market, codes)
<1>1. /\ ss \in Seq(Seq(S)) /\ Len(ss) = Len(codes) /\ \A i \in 1..Len(codes) : ss[i] = Fit(market, codes[i])
      /\ Fund!FundsOf(market, codes) = FlattenSeq(ss)
  BY FitsType
<1> HIDE DEF S, ss
<1>2. \A i \in 1..Len(ss) : ss[i] = <<>>
  BY <1>1 DEF Fit
<1>3. QED
  BY <1>1, <1>2, FlattenNone

\* The end of the first k pages of a list, and what the next one holds.
Pos(list, k) == IF k * Page < Len(list) THEN k * Page ELSE Len(list)

LEMMA PosAscends ==
  ASSUME NEW list \in Seq(AnyCode), NEW k \in Nat
  PROVE  /\ k * Page \in Nat /\ (k + 1) * Page \in Nat /\ (k + 1) * Page = k * Page + Page /\ Page \in Nat \ {0}
         /\ Pos(list, k) \in Nat /\ Pos(list, k + 1) \in Nat /\ Len(list) \in Nat
         /\ Pos(list, k) <= Pos(list, k + 1) /\ Pos(list, k + 1) <= Len(list)
<1>1. Page \in Nat \ {0} /\ Len(list) \in Nat /\ k + 1 \in Int /\ (k + 1) - 1 = k
  BY LenProperties, ParametersAssumption
<1>2. (k + 1) * Page = k * Page + Page
  <2> DEFINE j == k + 1
  <2>1. j \in Int /\ Page \in Int /\ j - 1 = k
    BY <1>1
  <2> HIDE DEF j
  <2>2. j * Page = (j - 1) * Page + Page
    BY <2>1, NextProduct
  <2>3. QED
    BY <2>1, <2>2 DEF j
<1>3. k * Page \in Nat
  BY <1>1
<1> DEFINE a == k * Page
           b == (k + 1) * Page
<1>4. /\ Pos(list, k) = (IF a < Len(list) THEN a ELSE Len(list))
      /\ Pos(list, k + 1) = (IF b < Len(list) THEN b ELSE Len(list))
  BY DEF Pos
<1> HIDE DEF a, b
<1>5. a \in Nat /\ b \in Nat /\ b = a + Page
  BY <1>1, <1>2, <1>3 DEF a, b
<1>6. QED
  BY <1>1, <1>4, <1>5 DEF a, b

LEMMA PagesFollow ==
  ASSUME NEW list \in Seq(AnyCode), NEW k \in Nat
  PROVE  /\ Fund!Upto(list, k * Page) = SubSeq(list, 1, Pos(list, k))
         /\ Fund!PageOf(list, k) = SubSeq(list, Pos(list, k) + 1, Pos(list, k + 1))
         /\ Fund!PageOf(list, k) \in Seq(AnyCode)
         /\ Len(Fund!PageOf(list, k)) = Pos(list, k + 1) - Pos(list, k)
<1> DEFINE L == Len(list)
           a == k * Page
           b == (k + 1) * Page
           p == Pos(list, k)
           q == Pos(list, k + 1)
           upto == SubSeq(list, 1, q)
           page == SubSeq(upto, a + 1, Len(upto))
<1>1. /\ a \in Nat /\ b \in Nat /\ b = a + Page /\ Page \in Nat /\ Page # 0 /\ p \in Nat /\ q \in Nat /\ L \in Nat
      /\ p <= q /\ q <= L
  BY PosAscends
<1>2. p = (IF a < L THEN a ELSE L) /\ q = (IF b < L THEN b ELSE L)
  BY DEF Pos
<1>3. Fund!Upto(list, a) = SubSeq(list, 1, p) /\ Fund!Upto(list, b) = upto
  BY <1>2 DEF Fund!Upto
<1>4. Fund!PageOf(list, k) = page
  BY <1>3 DEF Fund!PageOf
<1> HIDE DEF a, b, p, q, L
<1>5. upto \in Seq(AnyCode) /\ Len(upto) = q /\ \A i \in 1..q : upto[i] = list[i]
  <2>1. 0 + 1 = 1 /\ 0 <= q /\ q - 0 = q /\ (\A i \in 1..q : 0 + i = i) /\ q <= Len(list)
    BY <1>1 DEF L
  <2>2. /\ SubSeq(list, 0 + 1, q) \in Seq(AnyCode) /\ Len(SubSeq(list, 0 + 1, q)) = q - 0
        /\ \A i \in 1..(q - 0) : SubSeq(list, 0 + 1, q)[i] = list[0 + i]
    BY <1>1, <2>1, Stretch
  <2>3. QED
    BY <2>1, <2>2
<1>6. /\ SubSeq(list, p + 1, q) \in Seq(AnyCode) /\ Len(SubSeq(list, p + 1, q)) = q - p
      /\ \A i \in 1..(q - p) : SubSeq(list, p + 1, q)[i] = list[p + i]
  BY <1>1, Stretch DEF L
<1> HIDE DEF upto
<1>7. page = SubSeq(list, p + 1, q)
  <2>1. CASE a <= q
    <3>1. p = a
      BY <1>1, <1>2, <2>1
    <3>2. /\ page \in Seq(AnyCode) /\ Len(page) = q - a /\ \A i \in 1..(q - a) : page[i] = upto[a + i]
      BY <1>1, <1>5, <2>1, Stretch
    <3>3. ASSUME NEW i \in 1..(q - p) PROVE page[i] = SubSeq(list, p + 1, q)[i]
      <4>1. a + i \in 1..q
        BY <1>1, <2>1, <3>1
      <4>2. page[i] = list[a + i]
        BY <1>5, <3>1, <3>2, <4>1
      <4>3. QED
        BY <1>6, <3>1, <4>2
    <3> DEFINE other == SubSeq(list, p + 1, q)
    <3> HIDE DEF page, other
    <3>4. /\ page \in Seq(AnyCode) /\ other \in Seq(AnyCode) /\ Len(page) = q - p /\ Len(other) = q - p
          /\ \A i \in 1..(q - p) : page[i] = other[i]
      BY ONLY <1>6, <3>1, <3>2, <3>3 DEF other
    <3>5. page = other
      BY ONLY <3>4, SeqEqual
    <3>6. QED
      BY <3>5 DEF other
  <2>2. CASE ~(a <= q)
    <3>1. p = L /\ q = L /\ ~(a + 1 <= q) /\ a + 1 \in Int /\ q \in Int /\ q - p = 0
      BY <1>1, <1>2, <2>2
    <3>2. \A i \in (a + 1)..q : upto[i] \in AnyCode
      BY <3>1
    <3>3. page \in Seq(AnyCode) /\ Len(page) = 0
      BY <1>5, <3>1, <3>2, SubSeqProperties
    <3>4. page = <<>>
      BY <3>3, EmptySeq
    <3>5. SubSeq(list, p + 1, q) = <<>>
      BY <1>6, <3>1, EmptySeq
    <3>6. QED
      BY <3>4, <3>5
  <2>3. QED
    BY <2>1, <2>2
<1>8. QED
  BY <1>3, <1>4, <1>6, <1>7 DEF a, p, q

\* Past the pages that hold a count, there is none.
LEMMA PagesReach ==
  ASSUME NEW total \in Nat, NEW n \in Nat, n > total \div Page
  PROVE  n * Page >= total
<1> DEFINE t == total \div Page
<1>1. Page \in Nat /\ Page > 0
  BY ParametersAssumption
<1>2. t \in Nat /\ t * Page \in Nat /\ total < t * Page + Page
  BY <1>1
<1>3. n > t
  OBVIOUS
<1> HIDE DEF t
<1>4. n - 1 \in Nat /\ t <= n - 1 /\ n \in Int /\ Page \in Int
  BY <1>1, <1>2, <1>3
<1>5. t * Page <= (n - 1) * Page
  <2> DEFINE m == n - 1
  <2>1. m \in Nat /\ t <= m
    BY <1>4
  <2> HIDE DEF m
  <2>2. t * Page <= m * Page
    BY <1>1, <1>2, <2>1, ProductsAscend
  <2>3. QED
    BY <2>2 DEF m
<1>6. n * Page = (n - 1) * Page + Page /\ (n - 1) * Page \in Nat
  BY <1>1, <1>4, NextProduct
<1>7. QED
  BY <1>1, <1>2, <1>5, <1>6

\* Behind a page that ends the list of funds, there are no more.
LEMMA NoFundsBehind ==
  ASSUME NEW market, NEW list \in Seq(AnyCode), NEW j \in Nat,
         \A a, b \in 1..Len(list) : Fund!IsFund(market, list[a]) /\ Fund!IsFund(market, list[b]) =>
           \A c \in a..b : Fund!IsFund(market, list[c]),
         \/ Fund!PageOf(list, j) = <<>>
         \/ /\ ~Fund!IsFund(market, Fund!PageOf(list, j)[Len(Fund!PageOf(list, j))])
            /\ Fund!FundsOf(market, Fund!Upto(list, (j + 1) * Page)) # <<>>
  PROVE  \A i \in (Pos(list, j + 1) + 1)..Len(list) : ~Fund!IsFund(market, list[i])
<1> DEFINE L == Len(list)
           p == Pos(list, j)
           q == Pos(list, j + 1)
           page == Fund!PageOf(list, j)
           a == j * Page
           b == (j + 1) * Page
<1>1. /\ a \in Nat /\ b \in Nat /\ b = a + Page /\ Page \in Nat /\ Page # 0 /\ p \in Nat /\ q \in Nat /\ L \in Nat
      /\ p <= q /\ q <= L
  BY PosAscends
<1>2. p = (IF a < L THEN a ELSE L) /\ q = (IF b < L THEN b ELSE L)
  BY DEF Pos
<1>3. page = SubSeq(list, p + 1, q) /\ page \in Seq(AnyCode) /\ Len(page) = q - p
  BY PagesFollow
<1>4. Fund!Upto(list, b) = SubSeq(list, 1, q)
  <2> DEFINE k == j + 1
  <2>1. k \in Nat
    OBVIOUS
  <2> HIDE DEF k
  <2>2. Fund!Upto(list, k * Page) = SubSeq(list, 1, Pos(list, k))
    BY <2>1, PagesFollow
  <2>3. QED
    BY <2>2 DEF k
<1> HIDE DEF p, q, a, b, page
<1>5. CASE page = <<>>
  <2>1. q - p = 0
    BY <1>3, <1>5, EmptySeq
  <2>2. q = L
    BY <1>1, <1>2, <2>1
  <2>3. \A i \in (q + 1)..L : FALSE
    BY <1>1, <2>2
  <2>4. QED
    BY <2>3 DEF q
<1>6. CASE page # <<>>
  <2>1. ~Fund!IsFund(market, page[Len(page)]) /\ Fund!FundsOf(market, SubSeq(list, 1, q)) # <<>>
    BY <1>4, <1>6 DEF page, b
  <2>2. page[Len(page)] = list[q]
    <3>1. Len(page) # 0
      BY <1>3, <1>6, EmptySeq
    <3>2. \A i \in 1..(q - p) : SubSeq(list, p + 1, q)[i] = list[p + i]
      BY <1>1, Stretch DEF L
    <3>3. q - p \in 1..(q - p) /\ p + (q - p) = q
      BY <1>1, <1>3, <3>1
    <3>4. QED
      BY <1>3, <3>2, <3>3
  <2>3. \E i \in 1..q : Fund!IsFund(market, list[i])
    <3> SUFFICES ASSUME \A i \in 1..q : ~Fund!IsFund(market, list[i]) PROVE FALSE
      OBVIOUS
    <3> DEFINE first == SubSeq(list, 1, q)
    <3>1. 0 + 1 = 1 /\ 0 <= q /\ q - 0 = q /\ (\A i \in 1..q : 0 + i = i) /\ q <= Len(list)
      BY <1>1 DEF L
    <3>2. /\ SubSeq(list, 0 + 1, q) \in Seq(AnyCode) /\ Len(SubSeq(list, 0 + 1, q)) = q - 0
          /\ \A i \in 1..(q - 0) : SubSeq(list, 0 + 1, q)[i] = list[0 + i]
      BY <1>1, <3>1, Stretch
    <3>3. first \in Seq(AnyCode) /\ Len(first) = q /\ \A i \in 1..q : first[i] = list[i]
      BY <3>1, <3>2
    <3> HIDE DEF first
    <3>4. \A i \in 1..Len(first) : ~Fund!IsFund(market, first[i])
      BY <3>3
    <3>5. Fund!FundsOf(market, first) = <<>>
      BY <3>3, <3>4, FundsOfNone
    <3>6. QED
      BY <2>1, <3>5 DEF first
  <2>4. PICK f \in 1..q : Fund!IsFund(market, list[f])
    BY <2>3
  <2>5. ASSUME NEW i \in (q + 1)..L, Fund!IsFund(market, list[i]) PROVE FALSE
    <3>1. f \in 1..Len(list) /\ i \in 1..Len(list) /\ q \in f..i
      BY <1>1, <2>4, <2>5 DEF L
    <3>2. Fund!IsFund(market, list[q])
      BY <2>4, <2>5, <3>1
    <3>3. QED
      BY <2>1, <2>2, <3>2
  <2>6. QED
    BY <2>5 DEF q
<1>7. QED
  BY <1>5, <1>6

\* The list of funds is whole.
LEMMA FundListIsWhole ==
  ASSUME NEW market, NEW list \in Seq(AnyCode), NEW total \in Nat
  PROVE  Fund!FundListWhole(market, list, total)
<1> DEFINE L == Len(list)
           T == total \div Page
           page(k) == Fund!PageOf(list, k)
           found(k) == Fund!FundsOf(market, Fund!Upto(list, (k + 1) * Page)) # <<>>
           last(k) == page(k)[Len(page(k))]
           ends(k) == page(k) = <<>> \/ (~Fund!IsFund(market, last(k)) /\ Fund!After(last(k), Fund!LastFund(market)) /\ found(k))
           read == {k \in 0..T : k * Page < total /\ \A j \in 0..(k - 1) : ~ends(j)}
           n == Cardinality(read)
           ss == [i \in 1..n |-> Fund!FundsOf(market, page(i - 1))]
           f == [i \in 0..n |-> Fund!FundsOf(market, SubSeq(list, 1, Pos(list, i)))]
           S == FundRecords(market)
<1> SUFFICES ASSUME \A a, b \in 1..L : Fund!IsFund(market, list[a]) /\ Fund!IsFund(market, list[b]) =>
                      \A c \in a..b : Fund!IsFund(market, list[c]),
                    total >= L
             PROVE  Fund!FundList(market, list, total) = Fund!FundsOf(market, list)
  <2> DEFINE at == {i \in DOMAIN list : Fund!IsFund(market, list[i])}
             together == \A i, j \in at : \A k \in i..j : k \in at
  <2>1. DOMAIN list = 1..L
    BY LenProperties
  <2>2. together => \A a, b \in 1..L : Fund!IsFund(market, list[a]) /\ Fund!IsFund(market, list[b]) =>
                      \A c \in a..b : Fund!IsFund(market, list[c])
    BY <2>1
  <2>3. Fund!FundListWhole(market, list, total) <=>
          (together /\ total >= L => Fund!FundList(market, list, total) = Fund!FundsOf(market, list))
    BY DEF Fund!FundListWhole
  <2> HIDE DEF together
  <2>4. QED
    BY <2>2, <2>3
<1>1. Page \in Nat /\ Page > 0 /\ T \in Nat /\ L \in Nat
  <2>1. Page \in Nat /\ Page > 0
    BY ParametersAssumption
  <2>2. QED
    BY <2>1, LenProperties
<1>2. n \in Nat /\ n \notin read /\ read = 0..(n - 1)
  <2>1. read \subseteq 0..T
    OBVIOUS
  <2>2. ASSUME NEW k \in read, NEW j \in 0..(k - 1) PROVE j \in read
    <3>1. k \in 0..T /\ k * Page < total /\ \A i \in 0..(k - 1) : ~ends(i)
      OBVIOUS
    <3> HIDE DEF ends, T
    <3>2. k \in Nat /\ j \in Nat /\ j <= k /\ j \in 0..T
      BY <1>1, <3>1
    <3>3. j * Page <= k * Page /\ j * Page \in Nat /\ k * Page \in Nat
      BY <1>1, <3>2, ProductsAscend
    <3>4. j * Page < total
      BY <3>1, <3>3
    <3>5. \A i \in 0..(j - 1) : ~ends(i)
      BY <3>1, <3>2
    <3>6. QED
      BY <3>2, <3>4, <3>5
  <2> HIDE DEF read, T
  <2>3. QED
    BY ONLY <1>1, <2>1, <2>2, DownwardClosed DEF n
<1>3. Fund!FundList(market, list, total) = FlattenSeq(ss)
  BY OneFlatten, OneCardinality DEF Fund!FundList
<1>4. n \notin 0..T \/ ~(n * Page < total) \/ \E j \in 0..(n - 1) : ends(j)
  BY <1>2
<1> HIDE DEF ends, read, n, S
<1>5. \A i \in 0..n : SubSeq(list, 1, Pos(list, i)) \in Seq(AnyCode) /\ Pos(list, i) \in Nat /\ Pos(list, i) <= L
  <2> SUFFICES ASSUME NEW i \in 0..n
               PROVE  SubSeq(list, 1, Pos(list, i)) \in Seq(AnyCode) /\ Pos(list, i) \in Nat /\ Pos(list, i) <= L
    OBVIOUS
  <2>1. i \in Nat /\ 0 + 1 = 1
    BY <1>2
  <2>2. Pos(list, i) \in Nat /\ Pos(list, i) <= Len(list) /\ 0 <= Pos(list, i)
    <3>1. i * Page \in Nat /\ Len(list) \in Nat
      BY <2>1, PosAscends
    <3>2. QED
      BY <3>1 DEF Pos
  <2>3. SubSeq(list, 0 + 1, Pos(list, i)) \in Seq(AnyCode)
    BY <2>1, <2>2, Stretch
  <2>4. QED
    BY <2>1, <2>2, <2>3
<1>6. \A codes \in Seq(AnyCode) : Fund!FundsOf(market, codes) \in Seq(S)
  <2> SUFFICES ASSUME NEW codes \in Seq(AnyCode) PROVE Fund!FundsOf(market, codes) \in Seq(S)
    OBVIOUS
  <2>1. Fits(market, codes) \in Seq(Seq(FundRecords(market))) /\ Fund!FundsOf(market, codes) = FlattenSeq(Fits(market, codes))
    BY FitsType
  <2>2. QED
    BY <2>1, FlattenType DEF S
<1>7. f \in [0..n -> Seq(S)]
  BY <1>5, <1>6
<1>8. f[0] = <<>>
  <2>1. 0 * Page = 0 /\ 0 \in 0..n
    BY <1>1, <1>2
  <2>2. Pos(list, 0) = 0
    BY <1>1, <2>1 DEF Pos
  <2>3. SubSeq(list, 1, 0) = <<>> /\ <<>> \in Seq(AnyCode) /\ Len(<<>>) = 0
    BY EmptySeq
  <2> DEFINE none == <<>>
  <2> HIDE DEF none
  <2>4. none \in Seq(AnyCode) /\ \A i \in 1..Len(none) : ~Fund!IsFund(market, none[i])
    BY <2>3 DEF none
  <2>5. Fund!FundsOf(market, none) = <<>>
    BY <2>4, FundsOfNone
  <2>6. QED
    BY <2>1, <2>2, <2>3, <2>5 DEF none
<1>9. ss \in Seq(Seq(S)) /\ Len(ss) = n
  <2>1. \A i \in 1..n : Fund!FundsOf(market, page(i - 1)) \in Seq(S)
    <3> SUFFICES ASSUME NEW i \in 1..n PROVE Fund!FundsOf(market, page(i - 1)) \in Seq(S)
      OBVIOUS
    <3> DEFINE k == i - 1
    <3>1. k \in Nat
      OBVIOUS
    <3> HIDE DEF k
    <3>2. page(k) \in Seq(AnyCode)
      BY <3>1, PagesFollow
    <3>3. Fund!FundsOf(market, page(k)) \in Seq(S)
      BY <1>6, <3>2
    <3>4. QED
      BY <3>3 DEF k
  <2>2. ss \in [1..n -> Seq(S)]
    BY <2>1
  <2> HIDE DEF ss
  <2>3. QED
    BY <1>2, <2>2
<1>10. ASSUME NEW i \in 1..n PROVE f[i] = f[i - 1] \o ss[i]
  <2> DEFINE k == i - 1
             one == SubSeq(list, 1, Pos(list, k))
             two == Fund!PageOf(list, k)
             both == SubSeq(list, 1, Pos(list, i))
  <2>1. k \in Nat /\ k + 1 = i /\ i \in 0..n /\ k \in 0..n
    BY <1>2
  <2>2. f[i] = Fund!FundsOf(market, both) /\ f[k] = Fund!FundsOf(market, one) /\ ss[i] = Fund!FundsOf(market, two)
    BY <2>1
  <2> HIDE DEF k, f, ss
  <2>3. /\ two = SubSeq(list, Pos(list, k) + 1, Pos(list, k + 1)) /\ two \in Seq(AnyCode)
        /\ Pos(list, k) \in Nat /\ Pos(list, k + 1) \in Nat
        /\ Pos(list, k) <= Pos(list, k + 1) /\ Pos(list, k + 1) <= Len(list)
    BY <2>1, PagesFollow, PosAscends
  <2>4. one \o two = both /\ one \in Seq(AnyCode)
    <3> HIDE DEF two
    <3>1. one \o SubSeq(list, Pos(list, k) + 1, Pos(list, k + 1)) = SubSeq(list, 1, Pos(list, k + 1))
      BY <2>3, StretchesJoin
    <3>2. QED
      BY <1>5, <2>1, <2>3, <3>1
  <2> HIDE DEF one, two, both
  <2>5. Fund!FundsOf(market, one \o two) = Fund!FundsOf(market, one) \o Fund!FundsOf(market, two)
    BY <2>3, <2>4, FundsOfBoth
  <2>6. f[i] = f[k] \o ss[i]
    BY <2>2, <2>4, <2>5
  <2>7. QED
    BY <2>6 DEF k
<1>11. FlattenSeq(ss) = f[n]
  <2> HIDE DEF f, ss
  <2> QED BY <1>7, <1>8, <1>9, <1>10, FlattenIs
<1> DEFINE p == Pos(list, n)
           one == SubSeq(list, 1, p)
           rest == SubSeq(list, p + 1, L)
<1>12. p \in Nat /\ p <= L /\ f[n] = Fund!FundsOf(market, one) /\ one \in Seq(AnyCode)
  <2>1. n \in 0..n
    BY <1>2
  <2>2. QED
    BY <1>5, <2>1
<1> HIDE DEF f, ss
<1>13. \A i \in (p + 1)..L : ~Fund!IsFund(market, list[i])
  <2>1. CASE ~(n * Page < total)
    <3>1. n * Page \in Nat
      BY <1>1, <1>2
    <3>2. p = L
      BY <1>1, <2>1, <3>1 DEF Pos
    <3>3. \A i \in (p + 1)..L : FALSE
      BY <1>1, <3>2
    <3>4. QED
      BY <3>3
  <2>2. CASE n \notin 0..T
    <3>1. n > T
      <4> HIDE DEF T
      <4> QED BY <1>1, <1>2, <2>2
    <3>2. n * Page >= total
      BY <1>2, <3>1, PagesReach
    <3>3. n * Page \in Nat
      BY <1>1, <1>2
    <3>4. p = L
      BY <1>1, <3>2, <3>3 DEF Pos
    <3>5. \A i \in (p + 1)..L : FALSE
      BY <1>1, <3>4
    <3>6. QED
      BY <3>5
  <2>3. ASSUME NEW j \in 0..(n - 1), ends(j) PROVE \A i \in (p + 1)..L : ~Fund!IsFund(market, list[i])
    <3>1. j \in Nat /\ j + 1 \in Nat /\ j + 1 <= n
      BY <1>2
    <3>2. \/ Fund!PageOf(list, j) = <<>>
          \/ /\ ~Fund!IsFund(market, Fund!PageOf(list, j)[Len(Fund!PageOf(list, j))])
             /\ Fund!FundsOf(market, Fund!Upto(list, (j + 1) * Page)) # <<>>
      BY <2>3 DEF ends
    <3>3. \A i \in (Pos(list, j + 1) + 1)..Len(list) : ~Fund!IsFund(market, list[i])
      BY <3>1, <3>2, NoFundsBehind
    <3> DEFINE b == (j + 1) * Page
               c == n * Page
               q == Pos(list, j + 1)
    <3>4. b <= c /\ b \in Nat /\ c \in Nat
      BY <1>1, <1>2, <3>1, ProductsAscend
    <3>5. q = (IF b < L THEN b ELSE L) /\ p = (IF c < L THEN c ELSE L)
      BY DEF Pos
    <3> HIDE DEF b, c, p, q
    <3>6. q <= p /\ q \in Nat /\ p \in Nat
      BY <1>1, <3>4, <3>5
    <3>7. \A i \in (q + 1)..L : ~Fund!IsFund(market, list[i])
      BY <3>3 DEF q
    <3>8. QED
      BY <1>1, <3>6, <3>7
  <2>4. QED
    BY <1>4, <2>1, <2>2, <2>3
<1>14. Fund!FundsOf(market, rest) = <<>>
  <2>1. /\ rest \in Seq(AnyCode) /\ Len(rest) = L - p /\ \A i \in 1..(L - p) : rest[i] = list[p + i]
    BY <1>1, <1>12, Stretch
  <2> HIDE DEF rest, p
  <2>2. \A i \in 1..Len(rest) : p + i \in (p + 1)..L
    BY <1>1, <1>12, <2>1
  <2>3. \A i \in 1..Len(rest) : ~Fund!IsFund(market, rest[i])
    BY <1>13, <2>1, <2>2
  <2>4. QED
    BY <2>1, <2>3, FundsOfNone
<1>15. one \o rest = list /\ rest \in Seq(AnyCode)
  <2>1. one \o rest = SubSeq(list, 1, L) /\ rest \in Seq(AnyCode)
    <3> HIDE DEF p
    <3>1. L <= Len(list)
      BY <1>1
    <3> HIDE DEF L
    <3>2. SubSeq(list, 1, p) \o SubSeq(list, p + 1, L) = SubSeq(list, 1, L)
      BY ONLY <1>1, <1>12, <3>1, list \in Seq(AnyCode), StretchesJoin
    <3>3. SubSeq(list, p + 1, L) \in Seq(AnyCode)
      BY ONLY <1>1, <1>12, <3>1, list \in Seq(AnyCode), Stretch
    <3>4. QED
      BY <3>2, <3>3
  <2>2. SubSeq(list, 1, Len(list)) = list
    BY WholeStretch
  <2>3. QED
    BY <2>1, <2>2
<1> HIDE DEF one, rest
<1>16. Fund!FundsOf(market, list) = Fund!FundsOf(market, one) \o Fund!FundsOf(market, rest)
  BY <1>12, <1>15, FundsOfBoth
<1>17. Fund!FundsOf(market, one) \o <<>> = Fund!FundsOf(market, one)
  BY <1>6, <1>12, ConcatEmptySeq
<1>18. QED
  BY <1>3, <1>11, <1>12, <1>14, <1>16, <1>17

\* What a code starts with.
LEMMA PrefixHas ==
  ASSUME NEW p \in Seq(Int), NEW code \in Seq(Int), Fund!IsPrefix(p, code), NEW i \in 1..Len(p)
  PROVE  code[i] = p[i]
<1> DEFINE n == Len(p)
           one == SubSeq(p, 1, n)
           two == SubSeq(code, 1, n)
<1>1. n \in Nat /\ n <= Len(code) /\ Len(code) \in Nat /\ one = two /\ one = p
  BY LenProperties, WholeStretch DEF Fund!IsPrefix
<1>2. 0 + 1 = 1 /\ 0 <= n /\ n - 0 = n /\ 0 + i = i /\ i \in 1..n
  BY <1>1
<1>3. \A k \in 1..(n - 0) : SubSeq(code, 0 + 1, n)[k] = code[0 + k]
  BY <1>1, <1>2, Stretch
<1>4. two[i] = code[i]
  BY <1>2, <1>3
<1>5. QED
  BY <1>1, <1>4

\* A code starts with no prefix of other digits.
LEMMA PairsDiffer ==
  ASSUME NEW code \in Seq(Int)
  PROVE  \A a, b \in Int : a # code[1] \/ b # code[2] => ~Fund!IsPrefix(<<a, b>>, code)
<1> SUFFICES ASSUME NEW a \in Int, NEW b \in Int, Fund!IsPrefix(<<a, b>>, code) PROVE code[1] = a /\ code[2] = b
  OBVIOUS
<1> DEFINE p == <<a, b>>
<1>1. p \in Seq(Int) /\ 1 \in 1..Len(p) /\ 2 \in 1..Len(p) /\ p[1] = a /\ p[2] = b
  OBVIOUS
<1> HIDE DEF p
<1>2. code[1] = p[1] /\ code[2] = p[2]
  BY <1>1, PrefixHas DEF p
<1>3. QED
  BY <1>1, <1>2

LEMMA TriplesDiffer ==
  ASSUME NEW code \in Seq(Int)
  PROVE  \A a, b, c \in Int : a # code[1] \/ b # code[2] \/ c # code[3] => ~Fund!IsPrefix(<<a, b, c>>, code)
<1> SUFFICES ASSUME NEW a \in Int, NEW b \in Int, NEW c \in Int, Fund!IsPrefix(<<a, b, c>>, code)
             PROVE  code[1] = a /\ code[2] = b /\ code[3] = c
  OBVIOUS
<1> DEFINE p == <<a, b, c>>
<1>1. p \in Seq(Int) /\ 1 \in 1..Len(p) /\ 2 \in 1..Len(p) /\ 3 \in 1..Len(p) /\ p[1] = a /\ p[2] = b /\ p[3] = c
  OBVIOUS
<1> HIDE DEF p
<1>2. code[1] = p[1] /\ code[2] = p[2] /\ code[3] = p[3]
  BY <1>1, PrefixHas DEF p
<1>3. QED
  BY <1>1, <1>2

\* Codes are sequences of numbers.
LEMMA CodeType ==
  ASSUME NEW code \in AnyCode
  PROVE  code \in Seq(Int) /\ Len(code) \in Nat
<1> DEFINE n == Len(code)
           D == 0..Fund!Nul
<1>1. D \subseteq Int
  BY DEF Fund!Nul
<1>2. code \in Seq(D)
  BY DEF AnyCode
<1> HIDE DEF D
<1>3. n \in Nat /\ code \in [1..n -> D] /\ \A i \in 1..n : code[i] \in D
  BY <1>2, LenProperties, ElementOfSeq
<1>4. code \in [1..n -> Int]
  BY <1>1, <1>3
<1>5. QED
  BY <1>3, <1>4

\* Funds are priced as funds.
LEMMA FundsHavePrices ==
  ASSUME NEW market, NEW code \in AnyCode
  PROVE  Fund!FundsArePriced(market, code)
<1> SUFFICES ASSUME Fund!IsFund(market, code)
             PROVE  /\ Fund!SecurityType(market, code) = IF Fund!ClassifyFund(market, code) = "openend" THEN 5 ELSE 3
                    /\ Fund!AutoMarketCode(code) = market
                    /\ Fund!ClassifyCode(code) \notin {"block", "stock"}
  BY DEF Fund!FundsArePriced
<1>1. code \in Seq(Int) /\ Len(code) \in Nat
  BY CodeType
<1>2. market = 1 \/ market = 0
  BY DEF Fund!IsFund, Fund!SH, Fund!SZ
<1>3. /\ \A a, b \in Int : a # code[1] \/ b # code[2] => ~Fund!IsPrefix(<<a, b>>, code)
      /\ \A a, b, c \in Int : a # code[1] \/ b # code[2] \/ c # code[3] => ~Fund!IsPrefix(<<a, b, c>>, code)
  BY <1>1, PairsDiffer, TriplesDiffer
<1> DEFINE open == Fund!Starts(code, {<<5, 1, 9>>})
<1>4. CASE market = 1
  <2>1. Fund!Starts(code, {<<5, 0>>, <<5, 1>>})
    BY <1>4 DEF Fund!IsFund, Fund!SH, Fund!SZ
  <2>2. PICK b \in {0, 1} : Fund!IsPrefix(<<5, b>>, code)
    BY <2>1 DEF Fund!Starts
  <2>3. Len(code) >= 2 /\ code[1] = 5 /\ code[2] = b /\ b \in Int
    <3>1. b \in Int /\ <<5, b>> \in Seq(Int) /\ Len(<<5, b>>) = 2 /\ <<5, b>>[1] = 5 /\ <<5, b>>[2] = b
      OBVIOUS
    <3>2. Len(code) >= 2
      BY <1>1, <2>2, <3>1 DEF Fund!IsPrefix
    <3>3. \A i \in 1..2 : code[i] = <<5, b>>[i]
      BY <1>1, <2>2, <3>1, PrefixHas
    <3>4. QED
      BY <3>1, <3>2, <3>3
  <2>4. /\ ~Fund!Starts(code, {<<6, 0>>, <<6, 8>>}) /\ ~Fund!Starts(code, {<<9, 0>>}) /\ ~Fund!Starts(code, {<<1, 1>>, <<1, 3>>})
        /\ ~Fund!Starts(code, {<<0, 0, 0>>}) /\ ~Fund!Starts(code, {<<8, 8>>})
        /\ ~Fund!Starts(code, {<<0, 0>>, <<3, 0>>, <<6, 0>>, <<6, 8>>})
    <3>1. ~Fund!Starts(code, {<<6, 0>>, <<6, 8>>})
      BY <1>3, <2>3 DEF Fund!Starts
    <3>2. ~Fund!Starts(code, {<<9, 0>>})
      BY <1>3, <2>3 DEF Fund!Starts
    <3>3. ~Fund!Starts(code, {<<1, 1>>, <<1, 3>>})
      BY <1>3, <2>3 DEF Fund!Starts
    <3>4. ~Fund!Starts(code, {<<0, 0, 0>>})
      BY <1>3, <2>3 DEF Fund!Starts
    <3>5. ~Fund!Starts(code, {<<8, 8>>})
      BY <1>3, <2>3 DEF Fund!Starts
    <3>6. ~Fund!Starts(code, {<<0, 0>>, <<3, 0>>, <<6, 0>>, <<6, 8>>})
      BY <1>3, <2>3 DEF Fund!Starts
    <3>7. QED
      BY <3>1, <3>2, <3>3, <3>4, <3>5, <3>6
  <2>5. Fund!Starts(code, {<<5, 0>>, <<5, 1>>, <<5, 8>>})
    BY <2>2 DEF Fund!Starts
  <2>6. Fund!SecurityType(market, code) = IF open THEN 5 ELSE 3
    BY <1>4, <2>4, <2>5 DEF Fund!SecurityType, Fund!SH, Fund!SZ
  <2>7. Fund!AutoMarketCode(code) = market
    <3>1. code # <<>>
      BY <2>3, EmptySeq
    <3>2. QED
      BY <1>4, <2>3, <3>1 DEF Fund!AutoMarketCode, Fund!SH, Fund!SZ
  <2>8. Fund!ClassifyCode(code) \notin {"block", "stock"}
    BY <2>4 DEF Fund!ClassifyCode
  <2>9. Fund!ClassifyFund(market, code) = "openend" <=> open
    <3>1. ASSUME open PROVE Fund!ClassifyFund(market, code) = "openend"
      <4>1. Fund!IsPrefix(<<5, 1, 9>>, code)
        BY <3>1 DEF Fund!Starts
      <4>2. <<5, 1, 9>> \in Seq(Int) /\ Len(<<5, 1, 9>>) = 3 /\ <<5, 1, 9>>[1] = 5 /\ <<5, 1, 9>>[2] = 1 /\ <<5, 1, 9>>[3] = 9
        OBVIOUS
      <4>3. \A i \in 1..3 : code[i] = <<5, 1, 9>>[i]
        BY <1>1, <4>1, <4>2, PrefixHas
      <4>4. code[1] = 5 /\ code[2] = 1 /\ code[3] = 9
        BY <4>2, <4>3
      <4>5. ~Fund!Starts(code, {<<5, 0, 8>>})
        BY <1>3, <4>4 DEF Fund!Starts
      <4>6. ~Fund!Starts(code, {<<5, 1, n>> : n \in {0, 2, 3, 5, 6, 7, 8}} \cup {<<5, 0, 6>>})
        <5>1. \A n \in {0, 2, 3, 5, 6, 7, 8} : ~Fund!IsPrefix(<<5, 1, n>>, code)
          BY <1>3, <4>4
        <5>2. ~Fund!IsPrefix(<<5, 0, 6>>, code)
          BY <1>3, <4>4
        <5>3. QED
          BY <5>1, <5>2 DEF Fund!Starts
      <4>7. ~Fund!Starts(code, {<<5, 1, 1>>})
        BY <1>3, <4>4 DEF Fund!Starts
      <4>8. ~Fund!Starts(code, {<<5, 0, 1>>, <<5, 0, 2>>})
        BY <1>3, <4>4 DEF Fund!Starts
      <4>9. QED
        BY <1>4, <3>1, <4>5, <4>6, <4>7, <4>8 DEF Fund!ClassifyFund, Fund!SH, Fund!SZ
    <3>2. ASSUME ~open PROVE Fund!ClassifyFund(market, code) # "openend"
      BY <1>4, <3>2 DEF Fund!ClassifyFund, Fund!SH, Fund!SZ
    <3>3. QED
      BY <3>1, <3>2
  <2>10. QED
    BY <2>6, <2>7, <2>8, <2>9
<1>5. CASE market = 0
  <2>1. Fund!Starts(code, {<<1, 5>>, <<1, 6>>})
    BY <1>5 DEF Fund!IsFund, Fund!SH, Fund!SZ
  <2>2. PICK b \in {5, 6} : Fund!IsPrefix(<<1, b>>, code)
    BY <2>1 DEF Fund!Starts
  <2>3. Len(code) >= 2 /\ code[1] = 1 /\ code[2] = b /\ b \in Int
    <3>1. b \in Int /\ <<1, b>> \in Seq(Int) /\ Len(<<1, b>>) = 2 /\ <<1, b>>[1] = 1 /\ <<1, b>>[2] = b
      OBVIOUS
    <3>2. Len(code) >= 2
      BY <1>1, <2>2, <3>1 DEF Fund!IsPrefix
    <3>3. \A i \in 1..2 : code[i] = <<1, b>>[i]
      BY <1>1, <2>2, <3>1, PrefixHas
    <3>4. QED
      BY <3>1, <3>2, <3>3
  <2>4. /\ ~Fund!Starts(code, {<<3, 9>>}) /\ ~Fund!Starts(code, {<<0, 0>>, <<3, 0>>}) /\ ~Fund!Starts(code, {<<2, 0>>})
        /\ ~Fund!Starts(code, {<<1, 0>>, <<1, 2>>, <<1, 3>>}) /\ ~Fund!Starts(code, {<<8, 8>>})
        /\ ~Fund!Starts(code, {<<0, 0>>, <<3, 0>>, <<6, 0>>, <<6, 8>>}) /\ ~open
    <3>1. ~Fund!Starts(code, {<<3, 9>>})
      BY <1>3, <2>3 DEF Fund!Starts
    <3>2. ~Fund!Starts(code, {<<0, 0>>, <<3, 0>>})
      BY <1>3, <2>3 DEF Fund!Starts
    <3>3. ~Fund!Starts(code, {<<2, 0>>})
      BY <1>3, <2>3 DEF Fund!Starts
    <3>4. ~Fund!Starts(code, {<<1, 0>>, <<1, 2>>, <<1, 3>>})
      BY <1>3, <2>3 DEF Fund!Starts
    <3>5. ~Fund!Starts(code, {<<8, 8>>})
      BY <1>3, <2>3 DEF Fund!Starts
    <3>6. ~Fund!Starts(code, {<<0, 0>>, <<3, 0>>, <<6, 0>>, <<6, 8>>})
      BY <1>3, <2>3 DEF Fund!Starts
    <3>7. ~Fund!Starts(code, {<<5, 1, 9>>})
      BY <1>3, <2>3 DEF Fund!Starts
    <3>8. QED
      BY <3>1, <3>2, <3>3, <3>4, <3>5, <3>6, <3>7
  <2>5. Fund!SecurityType(market, code) = 3
    BY <1>5, <2>1, <2>4 DEF Fund!SecurityType, Fund!SH, Fund!SZ
  <2>6. Fund!AutoMarketCode(code) = market
    <3>1. code # <<>>
      BY <2>3, EmptySeq
    <3>2. QED
      BY <1>5, <2>3, <3>1 DEF Fund!AutoMarketCode, Fund!SH, Fund!SZ
  <2>7. Fund!ClassifyCode(code) \notin {"block", "stock"}
    BY <2>4 DEF Fund!ClassifyCode
  <2>8. Fund!ClassifyFund(market, code) # "openend"
    BY <1>5, <2>4 DEF Fund!ClassifyFund, Fund!SH, Fund!SZ
  <2>9. QED
    BY <2>5, <2>6, <2>7, <2>8
<1>6. QED
  BY <1>2, <1>4, <1>5

\* Every fund the fund clients accept has a fund's price, wherever its code leads, and the list
\* of funds has all of them, where they stand together (get_security_type, get_fund_list).
THEOREM FundsAreRight == Inputs => []FundsArePriced
<1>1. Begin => FundsArePriced
  BY DEF Begin, FundsArePriced
<1>2. FundsArePriced /\ [OneInput]_job => FundsArePriced'
  <2> SUFFICES ASSUME FundsArePriced, [OneInput]_job PROVE FundsArePriced'
    OBVIOUS
  <2>1. CASE UNCHANGED job
    BY <2>1 DEF FundsArePriced
  <2>2. CASE OneInput
    <3>1. ASSUME NEW c \in FundCodes, job' = [job |-> "code", market |-> c[1], code |-> c[2]] PROVE FundsArePriced'
      <4>1. c[2] \in AnyCode
        BY InputsAssumption
      <4>2. Fund!FundsArePriced(c[1], c[2])
        BY <4>1, FundsHavePrices
      <4>3. QED
        BY <3>1, <4>2 DEF FundsArePriced
    <3>2. ASSUME NEW l \in Listings, job' = [job |-> "funds", listing |-> l] PROVE FundsArePriced'
      <4>1. l.list \in Seq(AnyCode) /\ l.total \in Nat
        BY InputsAssumption
      <4>2. Fund!FundListWhole(l.market, l.list, l.total)
        BY <4>1, FundListIsWhole
      <4>3. QED
        BY <3>2, <4>2 DEF FundsArePriced
    <3>3. CASE job'.job \notin {"code", "funds"}
      BY <3>3 DEF FundsArePriced
    <3>4. QED
      BY <2>2, <3>1, <3>2, <3>3, JobsAreInputs
  <2>3. QED
    BY <2>1, <2>2
<1>3. QED
  BY <1>1, <1>2, PTL DEF Inputs

-----------------------------------------------------------------------------
(* Adjustment *)

\* Least and greatest elements are what MinOf and MaxOf give.
LEMMA LeastIs ==
  ASSUME NEW T, T \subseteq Nat, NEW x \in T, \A y \in T : x <= y
  PROVE  Adj!MinOf(T) = x
<1> DEFINE z == CHOOSE u \in T : \A y \in T : u <= y
<1>1. z \in T /\ \A y \in T : z <= y
  OBVIOUS
<1> HIDE DEF z
<1>2. z = x
  <2>1. z <= x /\ x <= z /\ z \in Nat /\ x \in Nat
    BY <1>1
  <2>2. QED
    BY <2>1
<1>3. QED
  BY <1>2 DEF Adj!MinOf, z

LEMMA GreatestIs ==
  ASSUME NEW T, T \subseteq Nat, NEW x \in T, \A y \in T : y <= x
  PROVE  Adj!MaxOf(T) = x
<1> DEFINE z == CHOOSE u \in T : \A y \in T : u >= y
<1>1. z \in T /\ \A y \in T : z >= y
  <2>1. \E u \in T : \A y \in T : u >= y
    OBVIOUS
  <2>2. QED
    BY <2>1
<1> HIDE DEF z
<1>2. z = x
  <2>1. z >= x /\ z <= x /\ z \in Nat /\ x \in Nat
    BY <1>1
  <2>2. QED
    BY <2>1
<1>3. QED
  BY <1>2 DEF Adj!MaxOf, z

\* A bounded set of numbers that is not empty has a greatest one.
LEMMA GreatestNat ==
  ASSUME NEW top \in Nat, NEW T, T \subseteq 0..top, T # {}
  PROVE  \E x \in T : \A y \in T : y <= x
<1> DEFINE U == {top - x : x \in T}
<1>1. U \subseteq Nat /\ U # {}
  <2>1. \A x \in T : top - x \in Nat
    OBVIOUS
  <2>2. QED
    BY <2>1
<1>2. PICK u \in U : \A y \in U : u <= y
  <2> HIDE DEF U
  <2> QED BY <1>1, LeastNat
<1>3. PICK x \in T : u = top - x
  BY <1>2
<1>4. ASSUME NEW y \in T PROVE y <= x
  <2>1. top - x <= top - y
    BY <1>2, <1>3
  <2>2. x \in 0..top /\ y \in 0..top
    OBVIOUS
  <2>3. QED
    BY <2>1, <2>2
<1>5. QED
  BY <1>4

\* The numbers from a to b, in order.
Run(a, b) == [i \in 1..(b - a + 1) |-> a + i - 1]

LEMMA RunHas ==
  ASSUME NEW a \in Nat, NEW b \in Nat, a <= b + 1
  PROVE  /\ Run(a, b) \in Seq(Nat) /\ Len(Run(a, b)) = b - a + 1 /\ DOMAIN Run(a, b) = 1..(b - a + 1)
         /\ \A i \in 1..(b - a + 1) : Run(a, b)[i] = a + i - 1
<1> DEFINE n == b - a + 1
<1>1. n \in Nat /\ \A i \in 1..n : a + i - 1 \in Nat
  OBVIOUS
<1> HIDE DEF n
<1>2. Run(a, b) = [i \in 1..n |-> a + i - 1]
  BY DEF Run, n
<1>3. Run(a, b) \in [1..n -> Nat]
  BY <1>1, <1>2
<1>4. Run(a, b) \in Seq(Nat) /\ Len(Run(a, b)) = n
  BY <1>1, <1>3
<1>5. QED
  BY <1>1, <1>2, <1>4 DEF n

LEMMA RunsJoin ==
  ASSUME NEW a \in Nat, NEW b \in Nat, NEW c \in Nat, a <= b + 1, b <= c
  PROVE  Run(a, b) \o Run(b + 1, c) = Run(a, c)
<1> DEFINE s == Run(a, b)
           t == Run(b + 1, c)
           u == Run(a, c)
           v == s \o t
<1>1. s \in Seq(Nat) /\ Len(s) = b - a + 1 /\ \A i \in 1..(b - a + 1) : s[i] = a + i - 1
  BY RunHas
<1>2. t \in Seq(Nat) /\ Len(t) = c - b /\ \A i \in 1..(c - b) : t[i] = b + i
  <2>1. b + 1 \in Nat /\ b + 1 <= c + 1 /\ c - (b + 1) + 1 = c - b /\ \A i \in 1..(c - b) : b + 1 + i - 1 = b + i
    OBVIOUS
  <2>2. /\ Run(b + 1, c) \in Seq(Nat) /\ Len(Run(b + 1, c)) = c - (b + 1) + 1
        /\ \A i \in 1..(c - (b + 1) + 1) : Run(b + 1, c)[i] = b + 1 + i - 1
    BY <2>1, RunHas
  <2>3. QED
    BY <2>1, <2>2
<1>3. u \in Seq(Nat) /\ Len(u) = c - a + 1 /\ \A i \in 1..(c - a + 1) : u[i] = a + i - 1
  <2>1. a <= c + 1
    OBVIOUS
  <2>2. QED
    BY <2>1, RunHas
<1> HIDE DEF s, t, u
<1>4. v \in Seq(Nat) /\ Len(v) = Len(s) + Len(t) /\ \A i \in 1..(Len(s) + Len(t)) : v[i] = IF i <= Len(s) THEN s[i] ELSE t[i - Len(s)]
  BY <1>1, <1>2, ConcatProperties
<1>5. Len(s) + Len(t) = c - a + 1
  BY <1>1, <1>2
<1> HIDE DEF v
<1>6. ASSUME NEW i \in 1..(c - a + 1) PROVE v[i] = u[i]
  <2>1. CASE i <= b - a + 1
    <3>1. i \in 1..(b - a + 1)
      BY <2>1
    <3>2. v[i] = s[i]
      BY <1>1, <1>4, <1>5, <2>1
    <3>3. QED
      BY <1>1, <1>3, <3>1, <3>2
  <2>2. CASE ~(i <= b - a + 1)
    <3>1. i - (b - a + 1) \in 1..(c - b) /\ b + (i - (b - a + 1)) = a + i - 1
      BY <2>2
    <3>2. v[i] = t[i - (b - a + 1)]
      BY <1>1, <1>4, <1>5, <2>2
    <3>3. QED
      BY <1>2, <1>3, <3>1, <3>2
  <2>3. QED
    BY <2>1, <2>2
<1>7. v = u
  BY <1>3, <1>4, <1>5, <1>6, SeqEqual
<1>8. QED
  BY <1>7 DEF v, s, t, u

\* The bars of a page are a run, up to start before the newest.
From(n, back) == IF n > back THEN n - back + 1 ELSE 1

LEMMA BarsAreRun ==
  ASSUME NEW day \in Seq(Nat), NEW start \in Nat, NEW count \in Nat \ {0}
  PROVE  /\ Len(day) \in Nat
         /\ start >= Len(day) => Adj!BarsOf(day, start, count) = <<>>
         /\ start < Len(day) =>
              /\ From(Len(day), start + count) \in 1..(Len(day) - start)
              /\ Adj!BarsOf(day, start, count) = Run(From(Len(day), start + count), Len(day) - start)
<1> DEFINE n == Len(day)
           a == From(n, start + count)
<1>1. n \in Nat
  BY LenProperties
<1> HIDE DEF n
<1>2. start >= n => Adj!BarsOf(day, start, count) = <<>>
  BY DEF Adj!BarsOf, n
<1>3. ASSUME start < n PROVE a \in 1..(n - start) /\ Adj!BarsOf(day, start, count) = Run(a, n - start)
  <2>1. n - start - count + 1 = n - (start + count) + 1
    BY <1>1
  <2>2. a = IF n > start + count THEN n - start - count + 1 ELSE 1
    BY <2>1 DEF From
  <2>3. a \in 1..(n - start)
    BY <1>1, <1>3, <2>2
  <2> HIDE DEF a
  <2>4. Adj!BarsOf(day, start, count) = [i \in 1..(n - start - a + 1) |-> a + i - 1]
    <3>1. ~(start >= n)
      BY <1>1, <1>3
    <3>2. QED
      BY <2>2, <3>1 DEF Adj!BarsOf, n
  <2>5. QED
    BY <2>3, <2>4 DEF Run, a
<1>4. QED
  BY <1>1, <1>2, <1>3 DEF n

\* The events that count, those before one of them, and its rank.
Picked(xdxr) == {i \in DOMAIN xdxr : xdxr[i].category = 1}
Sooner(xdxr, j, i) == xdxr[j].date < xdxr[i].date \/ (xdxr[j].date = xdxr[i].date /\ j < i)
Earlier(xdxr, i) == {j \in Picked(xdxr) : Sooner(xdxr, j, i)}
Rank(xdxr) == [i \in Picked(xdxr) |-> Cardinality(Earlier(xdxr, i))]

LEMMA PickedAre ==
  ASSUME NEW xdxr \in Seq(AnyEvent)
  PROVE  /\ IsFiniteSet(Picked(xdxr)) /\ Picked(xdxr) \subseteq DOMAIN xdxr
         /\ \A i \in DOMAIN xdxr : i \in Nat /\ xdxr[i] \in AnyEvent /\ xdxr[i].date \in Nat
<1>1. Len(xdxr) \in Nat /\ DOMAIN xdxr = 1..Len(xdxr) /\ \A i \in 1..Len(xdxr) : xdxr[i] \in AnyEvent
  BY LenProperties, ElementOfSeq
<1>2. Picked(xdxr) \subseteq 1..Len(xdxr)
  BY <1>1 DEF Picked
<1>3. IsFiniteSet(1..Len(xdxr))
  BY <1>1, FS_Interval
<1>4. IsFiniteSet(Picked(xdxr))
  BY <1>2, <1>3, FS_Subset
<1>5. \A i \in 1..Len(xdxr) : xdxr[i].date \in Nat
  BY <1>1 DEF AnyEvent
<1>6. QED
  BY <1>1, <1>2, <1>4, <1>5

\* Of two of them one comes before the other, and has the lower rank.
LEMMA RanksAscend ==
  ASSUME NEW xdxr \in Seq(AnyEvent), NEW i \in Picked(xdxr), NEW j \in Picked(xdxr), Sooner(xdxr, i, j)
  PROVE  Rank(xdxr)[i] < Rank(xdxr)[j]
<1> DEFINE P == Picked(xdxr)
           A == Earlier(xdxr, i)
           B == Earlier(xdxr, j)
<1>1. IsFiniteSet(P) /\ \A k \in P : k \in Nat /\ xdxr[k].date \in Nat
  BY PickedAre
<1>2. i \notin A /\ A \cup {i} \subseteq B
  <2>1. ~Sooner(xdxr, i, i)
    BY <1>1 DEF Sooner
  <2>2. ASSUME NEW k \in P, Sooner(xdxr, k, i) PROVE Sooner(xdxr, k, j)
    <3>1. k \in Nat /\ i \in Nat /\ j \in Nat /\ xdxr[k].date \in Nat /\ xdxr[i].date \in Nat /\ xdxr[j].date \in Nat
      BY <1>1
    <3>2. QED
      BY <2>2, <3>1 DEF Sooner
  <2>3. QED
    BY <2>1, <2>2 DEF Earlier
<1>3. A \subseteq P /\ B \subseteq P
  BY DEF Earlier
<1> HIDE DEF P, A, B
<1>4. IsFiniteSet(A) /\ IsFiniteSet(B)
  BY <1>1, <1>3, FS_Subset
<1>5. Cardinality(A \cup {i}) = Cardinality(A) + 1
  BY <1>2, <1>4, FS_AddElement
<1>6. Cardinality(A \cup {i}) <= Cardinality(B)
  BY <1>2, <1>4, FS_Subset
<1>7. Cardinality(A) \in Nat /\ Cardinality(B) \in Nat
  BY <1>4, FS_CardinalityType
<1>8. Cardinality(A) < Cardinality(B)
  BY <1>5, <1>6, <1>7
<1>9. QED
  BY <1>8 DEF Rank, P, A, B

\* Each rank from 0 on is one event's.
LEMMA RanksAreAll ==
  ASSUME NEW xdxr \in Seq(AnyEvent)
  PROVE  /\ Cardinality(Picked(xdxr)) \in Nat
         /\ Rank(xdxr) \in Surjection(Picked(xdxr), 0..(Cardinality(Picked(xdxr)) - 1))
<1> DEFINE P == Picked(xdxr)
           n == Cardinality(P)
           r == Rank(xdxr)
           T == 0..(n - 1)
<1>1. IsFiniteSet(P) /\ \A k \in P : k \in Nat /\ xdxr[k].date \in Nat
  BY PickedAre
<1>2. n \in Nat
  BY <1>1, FS_CardinalityType
<1>3. ASSUME NEW i \in P PROVE r[i] \in T
  <2> DEFINE A == Earlier(xdxr, i)
             Q == P \ {i}
  <2>1. A \subseteq Q
    <3>1. ~Sooner(xdxr, i, i)
      BY <1>1 DEF Sooner
    <3>2. QED
      BY <3>1 DEF Earlier
  <2>2. r[i] = Cardinality(A)
    BY DEF Rank
  <2> HIDE DEF P, A, r
  <2>3. IsFiniteSet(Q) /\ Cardinality(Q) = n - 1
    BY <1>1, FS_RemoveElement
  <2> HIDE DEF Q
  <2>4. IsFiniteSet(A) /\ Cardinality(A) <= n - 1
    BY <2>1, <2>3, FS_Subset
  <2>5. Cardinality(A) \in Nat
    BY <2>4, FS_CardinalityType
  <2>6. QED
    BY <1>2, <2>2, <2>4, <2>5
<1>4. DOMAIN r = P /\ r = [i \in P |-> r[i]]
  BY DEF Rank
<1>5. ASSUME NEW i \in P, NEW j \in P, i # j PROVE r[i] # r[j]
  <2>1. Sooner(xdxr, i, j) \/ Sooner(xdxr, j, i)
    <3>1. i \in Nat /\ j \in Nat /\ xdxr[i].date \in Nat /\ xdxr[j].date \in Nat
      BY <1>1
    <3>2. QED
      BY <1>5, <3>1 DEF Sooner
  <2>2. r[i] < r[j] \/ r[j] < r[i]
    BY <2>1, RanksAscend
  <2>3. r[i] \in T /\ r[j] \in T
    BY <1>3
  <2> HIDE DEF r
  <2>4. r[i] \in Int /\ r[j] \in Int
    BY <2>3
  <2>5. QED
    BY <2>2, <2>4
<1> HIDE DEF r, P
<1>6. r \in [P -> T]
  <2> HIDE DEF T
  <2> QED BY <1>3, <1>4
<1>7. r \in Injection(P, T)
  <2> HIDE DEF T
  <2> QED BY <1>5, <1>6 DEF Injection, IsInjective
<1>8. IsFiniteSet(T) /\ Cardinality(T) = n
  <2>1. 0 \in Int /\ n - 1 \in Int
    BY <1>2
  <2>2. IsFiniteSet(0..(n - 1)) /\ Cardinality(0..(n - 1)) = IF 0 > n - 1 THEN 0 ELSE (n - 1) - 0 + 1
    BY ONLY <2>1, FS_Interval
  <2>3. QED
    BY <1>2, <2>2
<1>9. r \in Surjection(P, T)
  <2> HIDE DEF T
  <2>1. Cardinality(P) = Cardinality(T)
    BY <1>8
  <2>2. QED
    BY <1>7, <1>8, <2>1, FS_Injection
<1>10. QED
  BY <1>2, <1>9 DEF P, r

\* Events are those of category 1, each once, and the first of them is of the least date.
LEMMA EventsAre ==
  ASSUME NEW xdxr \in Seq(AnyEvent)
  PROVE  \E n \in Nat : \E g \in [1..n -> DOMAIN xdxr] :
           /\ Adj!Events(xdxr) = [k \in 1..n |-> xdxr[g[k]]]
           /\ n = 0 <=> Adj!EventDates(xdxr) = {}
           /\ \A k \in 1..n : xdxr[g[k]] \in AnyEvent /\ xdxr[g[k]].date \in Nat /\ xdxr[g[k]].date \in Adj!EventDates(xdxr)
           /\ \A k, l \in 1..n : k # l => g[k] # g[l]
           /\ n > 0 => \A d \in Adj!EventDates(xdxr) : xdxr[g[1]].date <= d
<1> DEFINE P == Picked(xdxr)
           n == Cardinality(P)
           r == Rank(xdxr)
           g == [k \in 1..n |-> CHOOSE i \in P : r[i] = k - 1]
<1>1. IsFiniteSet(P) /\ P \subseteq DOMAIN xdxr /\ \A i \in DOMAIN xdxr : i \in Nat /\ xdxr[i] \in AnyEvent /\ xdxr[i].date \in Nat
  BY PickedAre
<1>2. n \in Nat /\ r \in Surjection(P, 0..(n - 1))
  BY RanksAreAll
<1>3. Adj!EventDates(xdxr) = {xdxr[i].date : i \in P}
  BY DEF Adj!EventDates, Picked
<1>4. Adj!Events(xdxr) = [k \in 1..n |-> xdxr[CHOOSE i \in P : r[i] = k - 1]]
  <2>1. Adj!Events(xdxr) = [k \in 1..Adj!Cardinality(P) |-> xdxr[CHOOSE i \in P : Adj!Cardinality(Earlier(xdxr, i)) = k - 1]]
    BY DEF Adj!Events, Picked, Earlier, Sooner
  <2>2. \A i \in P : Adj!Cardinality(Earlier(xdxr, i)) = r[i]
    BY OneCardinality DEF Rank
  <2>3. Adj!Cardinality(P) = n
    BY OneCardinality
  <2> DEFINE one(k) == CHOOSE i \in P : Adj!Cardinality(Earlier(xdxr, i)) = k - 1
             two(k) == CHOOSE i \in P : r[i] = k - 1
  <2> HIDE DEF P, r, n
  <2>4. ASSUME NEW k PROVE one(k) = two(k)
    <3>1. \A i \in P : Adj!Cardinality(Earlier(xdxr, i)) = k - 1 <=> r[i] = k - 1
      BY <2>2
    <3>2. QED
      BY <3>1
  <2>5. Adj!Events(xdxr) = [k \in 1..n |-> xdxr[one(k)]]
    BY <2>1, <2>3
  <2> HIDE DEF one, two
  <2>6. [k \in 1..n |-> xdxr[one(k)]] = [k \in 1..n |-> xdxr[two(k)]]
    BY <2>4
  <2>7. QED
    BY <2>5, <2>6 DEF two
<1>5. n = 0 <=> P = {}
  BY <1>1, FS_EmptySet
<1>6. ASSUME NEW i \in P, r[i] = 0, NEW j \in P PROVE xdxr[i].date <= xdxr[j].date
  <2>1. Earlier(xdxr, i) = {}
    <3>1. Earlier(xdxr, i) \subseteq P
      BY DEF Earlier
    <3>2. IsFiniteSet(Earlier(xdxr, i))
      BY <1>1, <3>1, FS_Subset
    <3>3. Cardinality(Earlier(xdxr, i)) = 0
      BY <1>6 DEF Rank
    <3>4. QED
      BY <3>2, <3>3, FS_EmptySet
  <2>2. ~Sooner(xdxr, j, i)
    BY <2>1 DEF Earlier
  <2>3. QED
    BY <1>1, <2>2 DEF Sooner
<1> HIDE DEF P, r, n
<1>7. ASSUME NEW k \in 1..n PROVE g[k] \in P /\ r[g[k]] = k - 1
  <2>1. k - 1 \in 0..(n - 1)
    BY <1>2
  <2>2. \E i \in P : r[i] = k - 1
    BY <1>2, <2>1 DEF Surjection
  <2>3. QED
    BY <2>2
<1>8. Adj!Events(xdxr) = [k \in 1..n |-> xdxr[g[k]]]
  BY <1>4
<1> HIDE DEF g
<1>9. g \in [1..n -> DOMAIN xdxr]
  <2>1. \A k \in 1..n : g[k] \in DOMAIN xdxr
    BY <1>1, <1>7
  <2>2. g = [k \in 1..n |-> g[k]]
    BY DEF g
  <2>3. QED
    BY <2>1, <2>2
<1>10. ASSUME NEW k \in 1..n, NEW l \in 1..n, k # l PROVE g[k] # g[l]
  <2>1. k - 1 # l - 1
    BY <1>2, <1>10
  <2>2. QED
    BY <1>7, <2>1
<1>11. \A k \in 1..n : xdxr[g[k]] \in AnyEvent /\ xdxr[g[k]].date \in Nat /\ xdxr[g[k]].date \in Adj!EventDates(xdxr)
  BY <1>1, <1>3, <1>7
<1>12. n = 0 <=> Adj!EventDates(xdxr) = {}
  BY <1>3, <1>5
<1>13. ASSUME n > 0, NEW d \in Adj!EventDates(xdxr) PROVE xdxr[g[1]].date <= d
  <2>1. 1 \in 1..n /\ 1 - 1 = 0
    BY <1>2, <1>13
  <2>2. g[1] \in P /\ r[g[1]] = 0
    BY <1>7, <2>1
  <2>3. PICK j \in P : d = xdxr[j].date
    BY <1>3
  <2>4. QED
    BY <1>6, <2>2, <2>3
<1>14. QED
  BY <1>2, <1>8, <1>9, <1>10, <1>11, <1>12, <1>13

\* Every event with a date of its own.
OwnDates(n, events) ==
  /\ n \in Nat /\ DOMAIN events = 1..n /\ \A k \in 1..n : events[k].date \in Nat
  /\ \A k, l \in 1..n : k # l => events[k].date # events[l].date

\* With a date for each event, the map has each usable one whose close is known.
MapKnows(map, event, close) ==
  IF event.usable /\ close # Adj!NoBar THEN event.date \in DOMAIN map /\ map[event.date] = Adj!Factor(event, close)
  ELSE event.date \notin DOMAIN map

LEMMA MapHas ==
  ASSUME NEW day, NEW bars, NEW context, NEW n, NEW events, OwnDates(n, events), NEW k \in 1..n
  PROVE  MapKnows(Adj!FactorMap(day, bars, context, events), events[k],
                  Adj!CloseBefore(day, bars, context, events[k].date))
<1> USE DEF OwnDates
<1> DEFINE Close(d) == Adj!CloseBefore(day, bars, context, d)
           map == Adj!FactorMap(day, bars, context, events)
           U == {i \in 1..n : events[i].usable /\ Close(events[i].date) # Adj!NoBar}
           dates == {events[i].date : i \in U}
           Final(d) == Adj!MaxOf({i \in U : events[i].date = d})
           d0 == events[k].date
<1>1. map = [d \in dates |-> Adj!Factor(events[Final(d)], Close(d))]
  BY DEF Adj!FactorMap
<1> HIDE DEF Close, map
<1>2. d0 \in dates <=> k \in U
  OBVIOUS
<1>3. ASSUME k \in U PROVE Final(d0) = k
  <2>1. {i \in U : events[i].date = d0} = {k}
    BY <1>3
  <2>2. {k} \subseteq Nat /\ k \in {k} /\ \A y \in {k} : y <= k
    OBVIOUS
  <2>3. Adj!MaxOf({k}) = k
    <3> DEFINE T == {k}
    <3>1. T \subseteq Nat /\ k \in T /\ \A y \in T : y <= k
      BY <2>2
    <3> HIDE DEF T
    <3>2. Adj!MaxOf(T) = k
      BY ONLY <3>1, GreatestIs
    <3>3. QED
      BY <3>2 DEF T
  <2>4. QED
    BY <2>1, <2>3
<1>4. k \in U <=> events[k].usable /\ Close(d0) # Adj!NoBar
  OBVIOUS
<1> HIDE DEF U, Final, dates
<1>5. DOMAIN map = dates
  BY <1>1
<1>6. ASSUME d0 \in dates PROVE map[d0] = Adj!Factor(events[k], Close(d0))
  <2>1. map[d0] = Adj!Factor(events[Final(d0)], Close(d0))
    BY <1>1, <1>6
  <2>2. QED
    BY <1>2, <1>3, <1>6, <2>1
<1> HIDE DEF d0, OwnDates
<1>7. MapKnows(map, events[k], Close(d0))
  <2>1. CASE events[k].usable /\ Close(d0) # Adj!NoBar
    BY <1>2, <1>4, <1>5, <1>6, <2>1 DEF MapKnows, d0
  <2>2. CASE ~(events[k].usable /\ Close(d0) # Adj!NoBar)
    BY <1>2, <1>4, <1>5, <2>2 DEF MapKnows, d0
  <2>3. QED
    BY <2>1, <2>2
<1>8. QED
  BY <1>7 DEF Close, map, d0

\* The oldest and the newest day from and up to a bar of a run are its own.
LEMMA DaysOfRun ==
  ASSUME NEW day \in Seq(Nat), Ascending(day), NEW a \in Nat \ {0}, NEW b \in Nat, a <= b, b <= Len(day),
         NEW i \in 1..(b - a + 1)
  PROVE  LET bars == Run(a, b)
         IN  /\ bars[i] = a + i - 1 /\ bars[i] \in DOMAIN day /\ day[bars[i]] \in Nat
             /\ Adj!MinOf({day[bars[j]] : j \in i..Len(bars)}) = day[bars[i]]
             /\ Adj!MaxOf({day[bars[j]] : j \in 1..i}) = day[bars[i]]
<1> DEFINE bars == Run(a, b)
           n == Len(day)
           S == {day[bars[j]] : j \in i..Len(bars)}
           T == {day[bars[j]] : j \in 1..i}
<1>1. n \in Nat /\ DOMAIN day = 1..n /\ \A j \in 1..n : day[j] \in Nat
  BY LenProperties, ElementOfSeq
<1>2. Len(bars) = b - a + 1 /\ \A j \in 1..(b - a + 1) : bars[j] = a + j - 1
  <2>1. a <= b + 1
    OBVIOUS
  <2>2. QED
    BY <2>1, RunHas
<1> HIDE DEF bars, n
<1>3. ASSUME NEW j \in 1..(b - a + 1) PROVE bars[j] = a + j - 1 /\ bars[j] \in 1..n /\ day[bars[j]] \in Nat
  <2>1. a + j - 1 \in 1..n
    BY <1>1 DEF n
  <2>2. QED
    BY <1>1, <1>2, <2>1
<1>4. ASSUME NEW j \in 1..(b - a + 1), NEW l \in 1..(b - a + 1), j <= l PROVE day[bars[j]] <= day[bars[l]]
  <2>1. bars[j] <= bars[l] /\ bars[j] \in 1..n /\ bars[l] \in 1..n
    BY <1>3, <1>4
  <2>2. QED
    BY <1>1, <2>1 DEF Ascending
<1>5. Adj!MinOf(S) = day[bars[i]]
  <2> DEFINE x == day[bars[i]]
  <2>1. x \in S
    BY <1>2
  <2>2. S \subseteq Nat /\ \A y \in S : x <= y
    <3>1. ASSUME NEW j \in i..Len(bars) PROVE day[bars[j]] \in Nat /\ x <= day[bars[j]]
      BY <1>2, <1>3, <1>4
    <3>2. QED
      BY <3>1
  <2> HIDE DEF S, x
  <2>3. QED
    BY <2>1, <2>2, LeastIs DEF x
<1>6. Adj!MaxOf(T) = day[bars[i]]
  <2> DEFINE x == day[bars[i]]
  <2>1. x \in T
    OBVIOUS
  <2>2. T \subseteq Nat /\ \A y \in T : y <= x
    <3>1. ASSUME NEW j \in 1..i PROVE day[bars[j]] \in Nat /\ day[bars[j]] <= x
      BY <1>2, <1>3, <1>4
    <3>2. QED
      BY <3>1
  <2> HIDE DEF T, x
  <2>3. QED
    BY <2>1, <2>2, GreatestIs DEF x
<1>7. QED
  BY <1>1, <1>3, <1>5, <1>6 DEF bars

\* What an event that is due brings in: the factor of its close, if that is known.
Piece(due, event, close) ==
  IF due /\ event.usable /\ close # Adj!NoBar THEN <<Adj!Factor(event, close)>> ELSE <<>>

FoundPieces(day, bars, context, fq, n, events) ==
  [i \in DOMAIN bars |->
     Adj!FlattenSeq([k \in 1..n |->
       Piece(Adj!Due(fq, events[k].date, day[bars[i]]), events[k],
             Adj!CloseBefore(day, bars, context, events[k].date))])]

\* Both directions multiply a bar by the pieces of the events that are due.
LEMMA AdjustIs ==
  ASSUME NEW day \in Seq(Nat), Ascending(day), NEW a \in Nat \ {0}, NEW b \in Nat, a <= b, b <= Len(day),
         NEW context, NEW fq \in {"qfq", "hfq"}, NEW n, NEW events, OwnDates(n, events),
         NEW xdxr, Adj!Events(xdxr) = events
  PROVE  Adj!Adjust(day, Run(a, b), context, xdxr, fq) = FoundPieces(day, Run(a, b), context, fq, n, events)
<1> DEFINE bars == Run(a, b)
           map == Adj!FactorMap(day, bars, context, events)
           Close(k) == Adj!CloseBefore(day, bars, context, events[k].date)
           oldest(i) == Adj!MinOf({day[bars[j]] : j \in i..Len(bars)})
           newest(i) == Adj!MaxOf({day[bars[j]] : j \in 1..i})
           Mine(i) == IF fq = "qfq" THEN {d \in DOMAIN map : d > oldest(i)} ELSE {d \in DOMAIN map : d <= newest(i)}
           Left(i, k) == IF events[k].date \in Mine(i) THEN <<map[events[k].date]>> ELSE <<>>
           Right(i, k) == Piece(Adj!Due(fq, events[k].date, day[bars[i]]), events[k], Close(k))
<1>1. Adj!Adjust(day, bars, context, xdxr, fq) = [i \in DOMAIN bars |-> Adj!FlattenSeq([k \in 1..n |-> Left(i, k)])]
  <2>1. CASE fq = "qfq"
    <3> HIDE DEF bars
    <3>1. Adj!Adjust(day, bars, context, xdxr, "qfq") =
            [i \in DOMAIN bars |-> Adj!Applied(map, events, {d \in DOMAIN map : d > oldest(i)})]
      BY DEF Adj!Adjust
    <3>2. QED
      BY <2>1, <3>1 DEF Adj!Applied, OwnDates
  <2>2. CASE fq = "hfq"
    <3> HIDE DEF bars
    <3>1. Adj!Adjust(day, bars, context, xdxr, "hfq") =
            [i \in DOMAIN bars |-> Adj!Applied(map, events, {d \in DOMAIN map : d <= newest(i)})]
      BY DEF Adj!Adjust
    <3>2. QED
      BY <2>2, <3>1 DEF Adj!Applied, OwnDates
  <2>3. QED
    BY <2>1, <2>2
<1>2. DOMAIN bars = 1..(b - a + 1)
  BY DEF Run
<1>3. ASSUME NEW i \in 1..(b - a + 1), NEW k \in 1..n PROVE Left(i, k) = Right(i, k)
  <2> DEFINE d == events[k].date
             D == day[bars[i]]
  <2>1. oldest(i) = D /\ newest(i) = D /\ D \in Nat
    BY DaysOfRun
  <2>2. MapKnows(map, events[k], Close(k))
    BY MapHas
  <2>3. d \in Nat
    BY DEF OwnDates
  <2>4. CASE fq = "qfq"
    <3>1. d \in Mine(i) <=> d \in DOMAIN map /\ d > D
      BY <2>1, <2>4
    <3>2. Adj!Due(fq, d, D) <=> d > D
      BY <2>4 DEF Adj!Due
    <3> HIDE DEF map, Close, Mine, oldest, newest, bars, D
    <3>3. CASE events[k].usable /\ Close(k) # Adj!NoBar
      <4>1. d \in DOMAIN map /\ map[d] = Adj!Factor(events[k], Close(k))
        BY <2>2, <3>3 DEF MapKnows
      <4>2. QED
        BY <3>1, <3>2, <3>3, <4>1 DEF Piece, D
    <3>4. CASE ~(events[k].usable /\ Close(k) # Adj!NoBar)
      <4>1. d \notin DOMAIN map
        BY <2>2, <3>4 DEF MapKnows
      <4>2. QED
        BY <3>1, <3>2, <3>4, <4>1 DEF Piece, D
    <3>5. QED
      BY <3>3, <3>4
  <2>5. CASE fq = "hfq"
    <3>1. d \in Mine(i) <=> d \in DOMAIN map /\ d <= D
      BY <2>1, <2>5
    <3>2. Adj!Due(fq, d, D) <=> d <= D
      BY <2>5 DEF Adj!Due
    <3> HIDE DEF map, Close, Mine, oldest, newest, bars, D
    <3>3. CASE events[k].usable /\ Close(k) # Adj!NoBar
      <4>1. d \in DOMAIN map /\ map[d] = Adj!Factor(events[k], Close(k))
        BY <2>2, <3>3 DEF MapKnows
      <4>2. QED
        BY <3>1, <3>2, <3>3, <4>1 DEF Piece, D
    <3>4. CASE ~(events[k].usable /\ Close(k) # Adj!NoBar)
      <4>1. d \notin DOMAIN map
        BY <2>2, <3>4 DEF MapKnows
      <4>2. QED
        BY <3>1, <3>2, <3>4, <4>1 DEF Piece, D
    <3>5. QED
      BY <3>3, <3>4
  <2>6. QED
    BY <2>4, <2>5
<1> HIDE DEF Left, Right
<1>4. \A i \in DOMAIN bars : [k \in 1..n |-> Left(i, k)] = [k \in 1..n |-> Right(i, k)]
  BY <1>2, <1>3
<1>5. QED
  BY <1>1, <1>4 DEF Right, FoundPieces

\* The close before a date in the whole history.
TrueClose(day, date) == IF Adj!Before(day, date) = {} THEN Adj!NoBar ELSE Adj!MaxOf(Adj!Before(day, date))

LEMMA BeforeHas ==
  ASSUME NEW day \in Seq(Nat), NEW date \in Nat, NEW x \in Adj!Before(day, date), \A y \in Adj!Before(day, date) : y <= x
  PROVE  TrueClose(day, date) = x /\ x \in 1..Len(day)
<1> DEFINE T == Adj!Before(day, date)
<1>1. T \subseteq 1..Len(day) /\ Len(day) \in Nat
  BY LenProperties DEF Adj!Before
<1>2. T \subseteq Nat /\ T # {}
  BY <1>1
<1> HIDE DEF T
<1>3. Adj!MaxOf(T) = x
  <2>1. x \in T /\ \A y \in T : y <= x
    BY DEF T
  <2>2. QED
    BY <1>2, <2>1, GreatestIs
<1>4. QED
  BY <1>1, <1>2, <1>3 DEF TrueClose, T

\* If the first of the newest bars is before the date, its close is among them.
LEMMA CloseInBars ==
  ASSUME NEW day \in Seq(Nat), Ascending(day), NEW a \in 1..Len(day), NEW date \in Nat, day[a] < date, NEW context
  PROVE  Adj!CloseBefore(day, Run(a, Len(day)), context, date) = TrueClose(day, date)
<1> DEFINE n == Len(day)
           bars == Run(a, n)
           P == {i \in DOMAIN bars : \A j \in 1..i : day[bars[j]] < date}
           m == n - a + 1
<1>1. n \in Nat /\ DOMAIN day = 1..n /\ \A i \in 1..n : day[i] \in Nat
  BY LenProperties, ElementOfSeq
<1>2. DOMAIN bars = 1..m /\ \A i \in 1..m : bars[i] = a + i - 1
  BY <1>1, RunHas
<1> HIDE DEF bars
<1>3. m \in Nat /\ 1 \in 1..m /\ \A i \in 1..m : a + i - 1 \in 1..n
  BY <1>1
<1>4. \A y, z \in 1..n : y <= z => day[y] <= day[z]
  BY <1>1 DEF Ascending
<1> HIDE DEF n, m
<1>5. P \subseteq 0..m /\ 1 \in P
  <2>1. bars[1] = a
    BY <1>2, <1>3
  <2>2. \A j \in 1..1 : day[bars[j]] < date
    BY <2>1
  <2>3. QED
    BY <1>2, <1>3, <2>2
<1>6. PICK p \in P : \A i \in P : i <= p
  <2> HIDE DEF P
  <2>1. P # {}
    BY <1>5
  <2>2. QED
    BY <1>3, <1>5, <2>1, GreatestNat
<1>7. p \in 1..m /\ bars[p] = a + p - 1 /\ a + p - 1 \in 1..n /\ day[a + p - 1] < date
  <2>1. p \in 1..m /\ \A j \in 1..p : day[bars[j]] < date
    BY <1>2, <1>6
  <2>2. p \in 1..p
    BY <2>1
  <2>3. QED
    BY <1>2, <1>3, <2>1, <2>2
<1>8. a + p - 1 \in Adj!Before(day, date)
  BY <1>1, <1>7 DEF Adj!Before
<1>9. ASSUME NEW y \in Adj!Before(day, date), y > a + p - 1 PROVE FALSE
  <2> DEFINE i == y - a + 1
  <2>1. y \in 1..n /\ day[y] < date
    BY <1>1 DEF Adj!Before
  <2>2. i \in 1..m /\ i > p /\ a + i - 1 = y
    BY <1>1, <1>7, <1>9, <2>1 DEF m, n
  <2> HIDE DEF i
  <2>3. ASSUME NEW j \in 1..i PROVE day[bars[j]] < date
    <3>1. j \in 1..m /\ bars[j] = a + j - 1 /\ a + j - 1 \in 1..n /\ a + j - 1 <= y
      BY <1>2, <1>3, <2>2
    <3>2. day[a + j - 1] <= day[y]
      BY <1>4, <2>1, <3>1
    <3>3. day[a + j - 1] \in Nat /\ day[y] \in Nat
      BY <1>1, <2>1, <3>1
    <3>4. QED
      BY <2>1, <3>1, <3>2, <3>3
  <2>4. i \in P
    BY <1>2, <2>2, <2>3
  <2>5. QED
    BY <1>6, <1>7, <2>2, <2>4
<1>10. \A y \in Adj!Before(day, date) : y <= a + p - 1
  <2>1. Adj!Before(day, date) \subseteq 1..n
    BY <1>1 DEF Adj!Before
  <2>2. QED
    BY <1>1, <1>7, <1>9, <2>1
<1>11. TrueClose(day, date) = a + p - 1
  BY <1>8, <1>10, BeforeHas
<1>12. Adj!CloseBefore(day, bars, context, date) = bars[p]
  <2>1. P # {} /\ P \subseteq Nat
    BY <1>5
  <2>2. Adj!CloseBefore(day, bars, context, date) = bars[Adj!MaxOf(P)]
    BY <2>1 DEF Adj!CloseBefore
  <2> HIDE DEF P
  <2>3. Adj!MaxOf(P) = p
    BY <1>6, <2>1, GreatestIs
  <2>4. QED
    BY <2>2, <2>3
<1>13. QED
  BY <1>7, <1>11, <1>12 DEF bars, n

\* Else it is in a context without a gap to the bars, that goes back to the first bar of the
\* history or to one before the date.
LEMMA CloseInContext ==
  ASSUME NEW day \in Seq(Nat), Ascending(day), NEW a \in 1..Len(day), NEW date \in Nat, ~(day[a] < date),
         NEW lo \in 1..a, lo = 1 \/ day[lo] < date
  PROVE  Adj!CloseBefore(day, Run(a, Len(day)), Run(lo, a - 1), date) = TrueClose(day, date)
<1> DEFINE n == Len(day)
           bars == Run(a, n)
           context == Run(lo, a - 1)
           P == {i \in DOMAIN bars : \A j \in 1..i : day[bars[j]] < date}
           Q == {i \in DOMAIN context : day[context[i]] < date}
           B == Adj!Before(day, date)
<1>1. n \in Nat /\ DOMAIN day = 1..n /\ \A i \in 1..n : day[i] \in Nat
  BY LenProperties, ElementOfSeq
<1>2. DOMAIN bars = 1..(n - a + 1) /\ \A i \in 1..(n - a + 1) : bars[i] = a + i - 1
  BY <1>1, RunHas
<1>3. DOMAIN context = 1..(a - lo) /\ \A i \in 1..(a - lo) : context[i] = lo + i - 1
  <2>1. lo \in Nat /\ a - 1 \in Nat /\ lo <= (a - 1) + 1 /\ (a - 1) - lo + 1 = a - lo
    BY <1>1
  <2> DEFINE b == a - 1
  <2> HIDE DEF b
  <2>2. DOMAIN Run(lo, b) = 1..(b - lo + 1) /\ \A i \in 1..(b - lo + 1) : Run(lo, b)[i] = lo + i - 1
    BY <2>1, RunHas DEF b
  <2>3. QED
    BY <2>1, <2>2 DEF b
<1>4. \A y, z \in 1..n : y <= z => day[y] <= day[z]
  BY <1>1 DEF Ascending
<1> HIDE DEF bars, context
<1>5. P = {}
  <2>1. 1 \in 1..(n - a + 1) /\ a + 1 - 1 = a
    BY <1>1
  <2>2. bars[1] = a
    BY <1>2, <2>1
  <2>3. ASSUME NEW i \in P PROVE FALSE
    <3>1. 1 \in 1..i
      BY <1>2
    <3>2. day[bars[1]] < date
      BY <3>1
    <3>3. QED
      BY <2>2, <3>2
  <2>4. QED
    BY <2>3
<1> HIDE DEF n
<1>6. a \in 1..n /\ lo \in 1..n /\ day[a] \in Nat
  BY <1>1 DEF n
<1>7. \A y \in B : y \in 1..n /\ y < a /\ day[y] < date
  <2> SUFFICES ASSUME NEW y \in B PROVE y \in 1..n /\ y < a /\ day[y] < date
    OBVIOUS
  <2>1. y \in 1..n /\ day[y] < date /\ day[y] \in Nat
    BY <1>1 DEF Adj!Before
  <2>2. a <= y => day[a] <= day[y]
    BY <1>4, <1>6, <2>1
  <2>3. QED
    BY <1>6, <2>1, <2>2
<1>8. ASSUME NEW y \in B, lo <= y PROVE y - lo + 1 \in Q
  <2>1. y - lo + 1 \in 1..(a - lo) /\ lo + (y - lo + 1) - 1 = y
    BY <1>6, <1>7, <1>8
  <2>2. QED
    BY <1>3, <1>7, <2>1
<1>9. ASSUME NEW i \in Q PROVE i \in 1..(a - lo) /\ context[i] = lo + i - 1 /\ lo + i - 1 \in B
  <2>1. i \in 1..(a - lo) /\ context[i] = lo + i - 1 /\ day[context[i]] < date
    BY <1>3
  <2>2. lo + i - 1 \in 1..n
    <3>1. n \in Nat /\ lo \in Nat /\ a \in Nat /\ a <= n /\ lo >= 1 /\ i >= 1 /\ i <= a - lo
      BY <1>1, <1>6, <2>1
    <3>2. QED
      BY ONLY <2>1, <3>1, SMTT(30)
  <2>3. QED
    BY <1>1, <2>1, <2>2 DEF Adj!Before
<1>10. Adj!CloseBefore(day, bars, context, date) = IF Q # {} THEN context[Adj!MaxOf(Q)] ELSE Adj!NoBar
  BY <1>5 DEF Adj!CloseBefore
<1> HIDE DEF P, Q, B
<1>11. CASE Q = {}
  <2>1. ASSUME NEW y \in B PROVE FALSE
    <3>1. y < lo /\ y \in 1..n
      BY <1>6, <1>7, <1>8, <1>11
    <3>2. lo # 1
      BY <1>6, <3>1
    <3>3. day[lo] < date
      BY <3>2
    <3>4. lo \in B
      BY <1>1, <1>6, <3>3 DEF B, Adj!Before
    <3>5. QED
      BY <1>6, <1>8, <1>11, <3>4
  <2>2. B = {}
    BY <2>1
  <2>3. QED
    BY <1>10, <1>11, <2>2 DEF TrueClose, B, bars, context, n
<1>12. CASE Q # {}
  <2>1. Q \subseteq 0..(a - lo) /\ a - lo \in Nat
    BY <1>6, <1>9
  <2>2. PICK p \in Q : \A i \in Q : i <= p
    BY <1>12, <2>1, GreatestNat
  <2>3. p \in 1..(a - lo) /\ context[p] = lo + p - 1 /\ lo + p - 1 \in B
    BY <1>9
  <2>4. ASSUME NEW y \in B PROVE y <= lo + p - 1
    <3>1. CASE lo <= y
      <4>1. y - lo + 1 <= p
        BY <1>8, <2>2, <3>1
      <4>2. QED
        BY <1>6, <1>7, <2>3, <4>1
    <3>2. CASE ~(lo <= y)
      BY <1>6, <1>7, <2>3, <3>2
    <3>3. QED
      BY <3>1, <3>2
  <2>5. TrueClose(day, date) = lo + p - 1
    BY <2>3, <2>4, BeforeHas DEF B
  <2>6. Adj!MaxOf(Q) = p
    <3>1. Q \subseteq Nat
      BY <2>1
    <3>2. QED
      BY <2>2, <3>1, GreatestIs
  <2>7. QED
    BY <1>10, <1>12, <2>3, <2>5, <2>6 DEF bars, context, n
<1>13. QED
  BY <1>11, <1>12

TruePieces(day, bars, fq, n, events) ==
  [i \in DOMAIN bars |->
     Adj!FlattenSeq([k \in 1..n |->
       Piece(Adj!Due(fq, events[k].date, day[bars[i]]), events[k], TrueClose(day, events[k].date))])]

\* The reference multiplies by the pieces of the events that are due, with their true closes.
LEMMA TrueAdjustmentIs ==
  ASSUME NEW day \in Seq(Nat), NEW bars, NEW fq, NEW n, NEW events, OwnDates(n, events),
         NEW xdxr, Adj!Events(xdxr) = events
  PROVE  Adj!TrueAdjustment(day, bars, xdxr, fq) = TruePieces(day, bars, fq, n, events)
<1> DEFINE B(k) == Adj!Before(day, events[k].date)
           Left(i, k) == IF events[k].usable /\ Adj!Due(fq, events[k].date, day[bars[i]]) /\ B(k) # {}
                         THEN <<Adj!Factor(events[k], Adj!MaxOf(B(k)))>> ELSE <<>>
           Right(i, k) == Piece(Adj!Due(fq, events[k].date, day[bars[i]]), events[k], TrueClose(day, events[k].date))
<1>1. Adj!TrueAdjustment(day, bars, xdxr, fq) = [i \in DOMAIN bars |-> Adj!FlattenSeq([k \in 1..n |-> Left(i, k)])]
  BY DEF Adj!TrueAdjustment, OwnDates
<1>2. ASSUME NEW k \in 1..n PROVE B(k) # {} <=> TrueClose(day, events[k].date) # Adj!NoBar
  <2> DEFINE date == events[k].date
             T == Adj!Before(day, date)
  <2>1. date \in Nat
    BY DEF OwnDates
  <2>2. T \subseteq 0..Len(day) /\ Len(day) \in Nat
    BY LenProperties DEF Adj!Before
  <2> HIDE DEF date
  <2>3. CASE T = {}
    BY <2>3 DEF TrueClose, date
  <2>4. CASE T # {}
    <3>1. PICK x \in T : \A y \in T : y <= x
      <4> HIDE DEF T
      <4> QED BY <2>2, <2>4, GreatestNat
    <3>2. TrueClose(day, date) = x /\ x \in 1..Len(day)
      BY <2>1, <3>1, BeforeHas
    <3>3. x # 0
      BY <2>2, <3>2
    <3>4. QED
      BY <2>4, <3>2, <3>3 DEF Adj!NoBar, date
  <2>5. QED
    BY <2>3, <2>4
<1>3. ASSUME NEW i, NEW k \in 1..n PROVE Left(i, k) = Right(i, k)
  <2> DEFINE due == Adj!Due(fq, events[k].date, day[bars[i]])
  <2> HIDE DEF due
  <2>1. CASE B(k) # {}
    <3>1. TrueClose(day, events[k].date) = Adj!MaxOf(B(k)) /\ TrueClose(day, events[k].date) # Adj!NoBar
      BY <1>2, <2>1 DEF TrueClose
    <3>2. QED
      BY <2>1, <3>1 DEF Piece, due
  <2>2. CASE B(k) = {}
    BY <1>2, <2>2 DEF Piece, due
  <2>3. QED
    BY <2>1, <2>2
<1> HIDE DEF Left, Right
<1>4. \A i \in DOMAIN bars : [k \in 1..n |-> Left(i, k)] = [k \in 1..n |-> Right(i, k)]
  BY <1>3
<1>5. QED
  BY <1>1, <1>4 DEF Right, TruePieces

\* A set of numbers from 1 on that holds all below each of its own is 1 up to its size.
LEMMA DownwardFromOne ==
  ASSUME NEW D, NEW top \in Nat, D \subseteq 1..top, \A k \in D : \A j \in 1..(k - 1) : j \in D
  PROVE  Cardinality(D) \in 0..top /\ D = 1..Cardinality(D)
<1> DEFINE D0 == D \cup {0}
           m == Cardinality(D)
<1>1. IsFiniteSet(D) /\ m \in Nat
  <2>1. IsFiniteSet(1..top)
    BY FS_Interval
  <2>2. QED
    BY <2>1, FS_Subset, FS_CardinalityType
<1>2. 0 \notin D
  OBVIOUS
<1>3. Cardinality(D0) = m + 1
  <2> HIDE DEF m
  <2>1. Cardinality(D \cup {0}) = IF 0 \in D THEN Cardinality(D) ELSE Cardinality(D) + 1
    BY ONLY <1>1, FS_AddElement
  <2>2. QED
    BY <1>2, <2>1 DEF m
<1>4. D0 \subseteq 0..top /\ \A k \in D0 : \A j \in 0..(k - 1) : j \in D0
  <2>1. D0 \subseteq 0..top
    OBVIOUS
  <2>2. ASSUME NEW k \in D0, NEW j \in 0..(k - 1) PROVE j \in D0
    <3>1. CASE j = 0
      BY <3>1
    <3>2. CASE j # 0
      <4>1. k # 0 /\ k \in D
        OBVIOUS
      <4>2. j \in 1..(k - 1)
        BY <3>2, <4>1
      <4>3. QED
        BY <4>1, <4>2
    <3>3. QED
      BY <3>1, <3>2
  <2>3. QED
    BY <2>1, <2>2
<1>5. D0 = 0..m
  <2> HIDE DEF D0, m
  <2>1. D0 = 0..(Cardinality(D0) - 1)
    BY <1>4, DownwardClosed
  <2>2. Cardinality(D0) - 1 = m
    BY <1>1, <1>3
  <2>3. QED
    BY <2>1, <2>2
<1> HIDE DEF m
<1>6. D = 1..m
  <2>1. \A x : x \in D <=> x \in 0..m /\ x # 0
    BY <1>2, <1>5
  <2>2. \A x : x \in 1..m <=> x \in 0..m /\ x # 0
    BY <1>1
  <2>3. QED
    BY <2>1, <2>2
<1>7. m <= top
  <2>1. m # 0 => m \in 1..m
    BY <1>1
  <2>2. QED
    BY <1>1, <1>6, <2>1
<1>8. QED
  BY <1>1, <1>6, <1>7 DEF m

\* Pages of the context, and the first bar of page k.
Low(day, k) == From(Len(day), k * Page + Page)

LEMMA PageIsRun ==
  ASSUME NEW day \in Seq(Nat), NEW k \in Nat
  PROVE  /\ Len(day) \in Nat /\ Page \in Nat \ {0} /\ k * Page \in Nat
         /\ k * Page >= Len(day) => Adj!BarsOf(day, k * Page, Page) = <<>>
         /\ k * Page < Len(day) =>
              /\ Low(day, k) \in 1..(Len(day) - k * Page)
              /\ Adj!BarsOf(day, k * Page, Page) = Run(Low(day, k), Len(day) - k * Page)
              /\ Adj!BarsOf(day, k * Page, Page) # <<>> /\ Adj!BarsOf(day, k * Page, Page)[1] = Low(day, k)
<1> DEFINE start == k * Page
           n == Len(day)
           a == From(n, start + Page)
           b == n - start
<1>1. Page \in Nat \ {0}
  BY ParametersAssumption
<1>2. start \in Nat
  BY <1>1
<1> HIDE DEF start
<1>3. /\ n \in Nat
      /\ start >= n => Adj!BarsOf(day, start, Page) = <<>>
      /\ start < n => a \in 1..b /\ Adj!BarsOf(day, start, Page) = Run(a, b)
  BY <1>1, <1>2, BarsAreRun
<1> HIDE DEF a, n
<1>4. ASSUME start < n PROVE Run(a, b) # <<>> /\ Run(a, b)[1] = a
  <2>1. b \in Int /\ a \in 1..b
    BY <1>2, <1>3, <1>4
  <2> HIDE DEF b
  <2>2. a \in Nat /\ b \in Nat /\ a <= b + 1 /\ 1 \in 1..(b - a + 1) /\ a + 1 - 1 = a /\ b - a + 1 # 0
    BY <2>1
  <2>3. Len(Run(a, b)) = b - a + 1 /\ \A i \in 1..(b - a + 1) : Run(a, b)[i] = a + i - 1
    BY <2>2, RunHas
  <2>4. Len(<<>>) = 0
    OBVIOUS
  <2>5. Run(a, b) # <<>>
    BY <2>2, <2>3, <2>4
  <2>6. QED
    BY <2>2, <2>3, <2>5
<1>5. QED
  BY <1>1, <1>2, <1>3, <1>4 DEF Low, a, n, b, start

\* The pages that are fetched: as many as were asked for, unless one fails, the history ends
\* or the first event is reached.
LEMMA ContextPagesAre ==
  ASSUME NEW day \in Seq(Nat), NEW pages \in Nat, NEW failing \in Nat, NEW event \in Nat
  PROVE  LET m == Cardinality(Adj!ContextPages(day, pages, failing, event))
         IN  /\ m \in 0..pages
             /\ m > 0 => m * Page < Len(day)
             /\ failing = 0 => m = pages \/ (m + 1) * Page >= Len(day) \/ (m > 0 /\ day[Low(day, m)] <= event)
<1> DEFINE batch(k) == Adj!BarsOf(day, k * Page, Page)
           Has(k) == k # failing /\ batch(k) # <<>>
           Open(k) == day[batch(k)[1]] > event
           asked == {k \in 1..pages : \A j \in 1..(k - 1) : Has(j) /\ Open(j)}
           D == {k \in asked : Has(k)}
           m == Cardinality(D)
           n == Len(day)
<1>1. Adj!ContextPages(day, pages, failing, event) = D
  BY DEF Adj!ContextPages
<1>2. \A k \in Nat : batch(k) # <<>> => k * Page < n /\ batch(k)[1] = Low(day, k)
  <2> SUFFICES ASSUME NEW k \in Nat, batch(k) # <<>> PROVE k * Page < n /\ batch(k)[1] = Low(day, k)
    OBVIOUS
  <2> DEFINE start == k * Page
  <2>1. n \in Nat /\ start \in Nat
    BY PageIsRun
  <2>2. start >= n => batch(k) = <<>>
    BY PageIsRun
  <2>3. start < n
    <3> HIDE DEF start, n, batch
    <3> QED BY <2>1, <2>2
  <2>4. batch(k)[1] = Low(day, k)
    BY <2>3, PageIsRun
  <2>5. QED
    BY <2>3, <2>4
<1>3. \A k \in Nat : batch(k) = <<>> => k * Page >= n
  <2> SUFFICES ASSUME NEW k \in Nat, batch(k) = <<>> PROVE k * Page >= n
    OBVIOUS
  <2> DEFINE start == k * Page
  <2>1. n \in Nat /\ start \in Nat /\ ~(start < n)
    BY PageIsRun
  <2> HIDE DEF start, n, batch
  <2>2. start >= n
    BY <2>1
  <2>3. QED
    BY <2>2 DEF start
<1> HIDE DEF batch
<1>4. D \subseteq 1..pages /\ \A k \in D : \A j \in 1..(k - 1) : j \in D
  <2>1. ASSUME NEW k \in D, NEW j \in 1..(k - 1) PROVE j \in D
    <3>1. j \in 1..pages /\ Has(j) /\ \A i \in 1..(j - 1) : i \in 1..(k - 1)
      OBVIOUS
    <3>2. \A i \in 1..(j - 1) : Has(i) /\ Open(i)
      BY <3>1
    <3>3. QED
      BY <3>1, <3>2
  <2>2. QED
    BY <2>1
<1>5. m \in 0..pages /\ D = 1..m
  <2> HIDE DEF D
  <2> QED BY <1>4, DownwardFromOne
<1>6. ASSUME m > 0 PROVE m * Page < n /\ Has(m) /\ batch(m)[1] = Low(day, m) /\ m \in D
  <2> HIDE DEF m
  <2>1. m \in D /\ m \in Nat
    <3> HIDE DEF D
    <3> QED BY <1>5, <1>6
  <2>2. Has(m)
    BY <2>1
  <2>3. QED
    BY <1>2, <2>1, <2>2
<1>7. ASSUME failing = 0, m # pages PROVE (m + 1) * Page >= n \/ (m > 0 /\ day[Low(day, m)] <= event)
  <2> HIDE DEF m
  <2> DEFINE k == m + 1
  <2>1. k \in 1..pages /\ k \notin D /\ k # failing /\ k - 1 = m
    BY <1>5, <1>7
  <2>2. CASE k \in asked
    <3>1. batch(k) = <<>>
      BY <2>1, <2>2
    <3>2. QED
      BY <1>3, <2>1, <3>1
  <2>3. CASE k \notin asked
    <3>1. PICK j \in 1..m : ~(Has(j) /\ Open(j))
      BY <2>1, <2>3
    <3>2. j \in D /\ Has(j)
      BY <1>5
    <3>3. ~Open(j)
      BY <3>1, <3>2
    <3>4. j = m
      <4>1. m \in D
        <5> HIDE DEF D
        <5> QED BY <1>5, <3>1
      <4>2. \A i \in 1..(m - 1) : Open(i)
        BY <4>1
      <4>3. QED
        BY <1>5, <3>1, <3>3, <4>2
    <3>5. batch(m)[1] = Low(day, m) /\ m > 0
      BY <1>5, <1>6, <3>4
    <3>6. day[Low(day, m)] \in Nat
      <4>1. m * Page < n /\ m \in Nat
        BY <1>5, <1>6, <3>5
      <4>2. Low(day, m) \in 1..(n - m * Page) /\ n \in Nat /\ m * Page \in Nat
        BY <4>1, PageIsRun
      <4> DEFINE x == m * Page
                 y == Low(day, m)
      <4> HIDE DEF x, y, n
      <4>3. y \in 1..(n - x) /\ n \in Nat /\ x \in Nat
        BY <4>2 DEF x, y
      <4>4. y \in 1..n
        BY <4>3
      <4>5. QED
        BY <4>4, ElementOfSeq DEF y, n
    <3>7. QED
      BY <3>3, <3>4, <3>5, <3>6
  <2>4. QED
    BY <2>2, <2>3
<1>8. QED
  BY <1>1, <1>5, <1>6, <1>7

\* The pages put together are the bars from the first one of the last page on.
LEMMA ContextIsRun ==
  ASSUME NEW day \in Seq(Nat), NEW m \in Nat \ {0}, m * Page < Len(day)
  PROVE  /\ FlattenSeq([i \in 1..m |-> Adj!BarsOf(day, (m + 1 - i) * Page, Page)]) = Run(Low(day, m), Len(day) - Page)
         /\ Low(day, m) \in 1..(Len(day) - Page) /\ Page < Len(day)
<1> DEFINE n == Len(day)
           L == Low(day, m)
           End(k) == n - k * Page
           ss == [i \in 1..m |-> Adj!BarsOf(day, (m + 1 - i) * Page, Page)]
           f == [i \in 0..m |-> IF i = 0 THEN <<>> ELSE Run(L, End(m + 1 - i))]
<1>1. n \in Nat /\ Page \in Nat \ {0}
  BY PageIsRun
<1>2. ASSUME NEW k \in 1..m
      PROVE  /\ End(k) \in Nat \ {0} /\ End(m) <= End(k) /\ L \in 1..End(m) /\ Low(day, k) \in 1..End(k)
             /\ Adj!BarsOf(day, k * Page, Page) = Run(Low(day, k), End(k))
             /\ k # m => Low(day, k) = End(k + 1) + 1 /\ End(k + 1) <= End(k) /\ End(k + 1) \in Nat \ {0}
  <2> DEFINE x == k * Page
             y == m * Page
             z == (k + 1) * Page
  <2>1. x \in Nat /\ y \in Nat /\ x <= y
    BY <1>1, ProductsAscend
  <2>2. x < n /\ y < n
    BY <1>1, <2>1
  <2>3. Low(day, k) \in 1..(n - x) /\ Adj!BarsOf(day, x, Page) = Run(Low(day, k), n - x)
    BY <2>2, PageIsRun
  <2>4. L \in 1..(n - y)
    BY <2>2, PageIsRun
  <2>5. k + 1 \in Int /\ (k + 1) - 1 = k /\ Page \in Int
    BY <1>1
  <2>6. z = x + Page
    <3> DEFINE j == k + 1
    <3> HIDE DEF j
    <3>1. j * Page = (j - 1) * Page + Page
      BY <2>5, NextProduct DEF j
    <3>2. QED
      BY <2>5, <3>1 DEF j
  <2>7. k # m => z <= y
    <3> DEFINE j == k + 1
    <3>1. k # m => j \in Nat /\ j <= m
      OBVIOUS
    <3> HIDE DEF j
    <3>2. k # m => j * Page <= y
      BY <1>1, <3>1, ProductsAscend
    <3>3. QED
      BY <3>2 DEF j
  <2>8. Low(day, k) = From(n, x + Page)
    BY DEF Low
  <2> HIDE DEF n, x, y, z, L
  <2>9. k # m => From(n, x + Page) = n - z + 1 /\ n - z \in Nat \ {0} /\ n - z <= n - x
    <3> SUFFICES ASSUME k # m PROVE From(n, x + Page) = n - z + 1 /\ n - z \in Nat \ {0} /\ n - z <= n - x
      OBVIOUS
    <3>1. z <= y /\ z = x + Page /\ z < n /\ z \in Nat
      BY <1>1, <2>1, <2>2, <2>6, <2>7
    <3>2. From(n, z) = n - z + 1
      BY <3>1 DEF From
    <3>3. QED
      BY <1>1, <2>1, <3>1, <3>2
  <2>10. n - x \in Nat \ {0} /\ n - y <= n - x
    BY <1>1, <2>1, <2>2
  <2>11. QED
    BY <2>3, <2>4, <2>8, <2>9, <2>10 DEF x, y, z, n
<1> HIDE DEF End, L
<1>3. ss \in Seq(Seq(Nat)) /\ Len(ss) = m /\ \A i \in 1..m : ss[i] = Run(Low(day, m + 1 - i), End(m + 1 - i))
  <2>1. ASSUME NEW i \in 1..m
        PROVE  /\ Adj!BarsOf(day, (m + 1 - i) * Page, Page) = Run(Low(day, m + 1 - i), End(m + 1 - i))
               /\ Adj!BarsOf(day, (m + 1 - i) * Page, Page) \in Seq(Nat)
    <3> DEFINE k == m + 1 - i
    <3>1. k \in 1..m
      OBVIOUS
    <3> HIDE DEF k
    <3>2. Adj!BarsOf(day, k * Page, Page) = Run(Low(day, k), End(k)) /\ Low(day, k) \in 1..End(k) /\ End(k) \in Nat \ {0}
      BY <1>2, <3>1
    <3>3. Low(day, k) \in Nat /\ End(k) \in Nat /\ Low(day, k) <= End(k) + 1
      BY <3>2
    <3>4. Run(Low(day, k), End(k)) \in Seq(Nat)
      BY <3>3, RunHas
    <3>5. QED
      BY <3>2, <3>4 DEF k
  <2> DEFINE Of(i) == Adj!BarsOf(day, (m + 1 - i) * Page, Page)
  <2> HIDE DEF Of
  <2>2. ss = [i \in 1..m |-> Of(i)]
    BY DEF Of
  <2>3. \A i \in 1..m : Of(i) \in Seq(Nat) /\ Of(i) = Run(Low(day, m + 1 - i), End(m + 1 - i))
    BY <2>1 DEF Of
  <2> HIDE DEF ss
  <2>4. ss \in [1..m -> Seq(Nat)]
    BY <2>2, <2>3
  <2>5. ss \in Seq(Seq(Nat)) /\ Len(ss) = m
    BY <2>2, <2>4
  <2>6. QED
    BY <2>2, <2>3, <2>5
<1>4. ASSUME NEW i \in 1..m PROVE f[i] = Run(L, End(m + 1 - i)) /\ f[i] \in Seq(Nat)
  <2> DEFINE k == m + 1 - i
  <2>1. k \in 1..m /\ i # 0 /\ i \in 0..m
    OBVIOUS
  <2>2. f[i] = Run(L, End(k))
    BY <2>1
  <2> HIDE DEF k, f
  <2>3. End(k) \in Nat \ {0} /\ End(m) <= End(k) /\ L \in 1..End(m)
    BY <1>2, <2>1
  <2>4. End(m) \in Nat \ {0}
    BY <1>2
  <2>5. L \in Nat /\ End(k) \in Nat /\ L <= End(k) + 1
    BY <2>3, <2>4
  <2>6. Run(L, End(k)) \in Seq(Nat)
    BY <2>5, RunHas
  <2>7. QED
    BY <2>2, <2>6 DEF k
<1>5. f[0] = <<>> /\ f \in [0..m -> Seq(Nat)]
  <2>1. f[0] = <<>> /\ <<>> \in Seq(Nat)
    OBVIOUS
  <2>2. \A i \in 0..m : i = 0 \/ i \in 1..m
    OBVIOUS
  <2>3. \A i \in 0..m : f[i] \in Seq(Nat)
    <3> HIDE DEF f
    <3> QED BY <1>4, <2>1, <2>2
  <2>4. f = [i \in 0..m |-> f[i]]
    OBVIOUS
  <2> HIDE DEF f
  <2>5. QED
    BY <2>1, <2>3, <2>4
<1> HIDE DEF f, ss
<1>6. ASSUME NEW i \in 1..m PROVE f[i] = f[i - 1] \o ss[i]
  <2> DEFINE k == m + 1 - i
  <2>1. k \in 1..m /\ f[i] = Run(L, End(k)) /\ ss[i] = Run(Low(day, k), End(k))
    BY <1>3, <1>4
  <2>2. CASE i = 1
    <3>1. k = m /\ i - 1 = 0
      BY <2>2
    <3>2. f[i - 1] = <<>> /\ ss[i] = f[i]
      BY <1>5, <2>1, <3>1 DEF L
    <3>3. f[i] \in Seq(Nat)
      BY <1>4
    <3>4. QED
      BY <3>2, <3>3, ConcatEmptySeq
  <2>3. CASE i # 1
    <3>1. i - 1 \in 1..m /\ m + 1 - (i - 1) = k + 1 /\ k # m
      BY <2>3
    <3>2. f[i - 1] = Run(L, End(k + 1))
      BY <1>4, <3>1
    <3> HIDE DEF k
    <3>3. Low(day, k) = End(k + 1) + 1 /\ End(k + 1) <= End(k) /\ End(k + 1) \in Nat \ {0} /\ End(k) \in Nat \ {0}
      BY <1>2, <2>1, <3>1
    <3>4. k + 1 \in 1..m
      BY <2>1, <3>1
    <3>5. End(m) <= End(k + 1) /\ L \in 1..End(m) /\ End(m) \in Nat \ {0}
      BY <1>2, <3>4
    <3> DEFINE b == End(k + 1)
               c == End(k)
    <3> HIDE DEF b, c
    <3>6. b \in Nat /\ c \in Nat /\ b <= c /\ L \in Nat /\ L <= b + 1
      BY <3>3, <3>5 DEF b, c
    <3>7. Run(L, b) \o Run(b + 1, c) = Run(L, c)
      BY <3>6, RunsJoin
    <3>8. QED
      BY <2>1, <3>2, <3>3, <3>7 DEF b, c
  <2>4. QED
    BY <2>2, <2>3
<1>7. FlattenSeq(ss) = f[m]
  BY <1>3, <1>5, <1>6, FlattenIs
<1>8. f[m] = Run(L, n - Page) /\ L \in 1..(n - Page) /\ Page < n
  <2>1. m \in 1..m /\ m + 1 - m = 1 /\ 1 \in 1..m
    OBVIOUS
  <2>2. f[m] = Run(L, End(1))
    BY <1>4, <2>1
  <2>3. 1 * Page = Page
    BY <1>1
  <2>4. End(1) = n - Page
    BY <2>3 DEF End
  <2>5. L \in 1..End(m) /\ End(m) <= End(1) /\ End(1) \in Nat \ {0} /\ End(m) \in Nat \ {0}
    BY <1>2, <2>1
  <2> HIDE DEF n
  <2>6. L \in 1..End(1) /\ Page < n
    BY <1>1, <2>4, <2>5
  <2>7. QED
    BY <2>2, <2>4, <2>6
<1>9. QED
  BY <1>7, <1>8 DEF ss, L


\* The context of the newest bars, of which the first is a, when the first event is on the day
\* first: pages of older bars, but none if there is no bar before that day to be missed.
ContextReaches(day, a, first, pages, failing, context) ==
  \/ day[a] <= first /\ context = <<>>
  \/ /\ ~(day[a] <= first)
     /\ \E m \in 0..pages :
          /\ m = 0 => context = <<>>
          /\ m > 0 => /\ context = Run(Low(day, m), Len(day) - Page)
                      /\ Low(day, m) \in 1..(Len(day) - Page) /\ Page < Len(day)
          /\ failing = 0 => m = pages \/ (m + 1) * Page >= Len(day) \/ (m > 0 /\ day[Low(day, m)] <= first)

LEMMA FetchIs ==
  ASSUME NEW day \in Seq(Nat), NEW a \in 1..Len(day), NEW xdxr, NEW first \in Adj!EventDates(xdxr),
         Adj!EventDates(xdxr) \subseteq Nat, \A d \in Adj!EventDates(xdxr) : first <= d,
         NEW pages \in Nat, NEW failing \in Nat
  PROVE  ContextReaches(day, a, first, pages, failing,
                        Adj!FetchContext(day, Run(a, Len(day)), xdxr, pages, failing))
<1> DEFINE n == Len(day)
           bars == Run(a, n)
           T == Adj!EventDates(xdxr)
           m == Cardinality(Adj!ContextPages(day, pages, failing, first))
           ss == [i \in 1..m |-> Adj!BarsOf(day, (m + 1 - i) * Page, Page)]
           context == Adj!FetchContext(day, bars, xdxr, pages, failing)
<1>1. n \in Nat /\ first \in Nat /\ T # {}
  BY LenProperties
<1>2. bars # <<>> /\ bars[1] = a
  <2>1. Len(bars) = n - a + 1 /\ a <= n + 1 /\ 1 \in 1..(n - a + 1) /\ a + 1 - 1 = a
    BY <1>1, RunHas
  <2>2. \A i \in 1..(n - a + 1) : bars[i] = a + i - 1
    BY <1>1, <2>1, RunHas
  <2> HIDE DEF bars
  <2>3. Len(bars) # 0
    BY <1>1, <2>1
  <2>4. QED
    BY <2>1, <2>2, <2>3
<1>3. Adj!MinOf(T) = first
  <2> HIDE DEF T
  <2>1. T \subseteq Nat /\ first \in T /\ \A y \in T : first <= y
    BY DEF T
  <2>2. QED
    BY <2>1, LeastIs
<1> HIDE DEF bars
<1>4. context = IF day[a] <= first THEN <<>> ELSE FlattenSeq(ss)
  <2> DEFINE c == Adj!Cardinality(Adj!ContextPages(day, pages, failing, first))
  <2>1. c = m
    BY OneCardinality
  <2> HIDE DEF c, m
  <2>2. context = IF day[a] <= first THEN <<>>
                  ELSE Adj!FlattenSeq([i \in 1..c |-> Adj!BarsOf(day, (c + 1 - i) * Page, Page)])
    BY <1>1, <1>2, <1>3 DEF Adj!FetchContext, c
  <2>3. QED
    BY <2>1, <2>2, OneFlatten
<1>5. /\ m \in 0..pages
      /\ m > 0 => m * Page < n
      /\ failing = 0 => m = pages \/ (m + 1) * Page >= n \/ (m > 0 /\ day[Low(day, m)] <= first)
  BY <1>1, ContextPagesAre
<1>6. m = 0 => FlattenSeq(ss) = <<>>
  <2>1. <<>> \in Seq(Seq(Nat)) /\ \A i \in 1..Len(<<>>) : <<>>[i] = <<>>
    OBVIOUS
  <2>2. FlattenSeq(<<>>) = <<>>
    BY <2>1, FlattenNone
  <2> HIDE DEF m
  <2>3. m = 0 => ss = <<>>
    OBVIOUS
  <2>4. QED
    BY <2>2, <2>3
<1>7. m > 0 => FlattenSeq(ss) = Run(Low(day, m), n - Page) /\ Low(day, m) \in 1..(n - Page) /\ Page < n
  <2> HIDE DEF m
  <2>1. m > 0 => m \in Nat \ {0} /\ m * Page < Len(day)
    BY <1>5
  <2>2. QED
    BY <2>1, ContextIsRun
<1> HIDE DEF ss, m
<1>8. CASE day[a] <= first
  BY <1>4, <1>8 DEF ContextReaches, bars
<1>9. CASE ~(day[a] <= first)
  <2>1. context = FlattenSeq(ss)
    BY <1>4, <1>9
  <2>2. (m = 0 => context = <<>>) /\ (m > 0 => context = Run(Low(day, m), n - Page) /\ Low(day, m) \in 1..(n - Page) /\ Page < n)
    BY <1>6, <1>7, <2>1
  <2> HIDE DEF context
  <2>3. ContextReaches(day, a, first, pages, failing, context)
    BY <1>5, <1>9, <2>2 DEF ContextReaches
  <2>4. QED
    BY <2>3 DEF context, bars
<1>10. QED
  BY <1>8, <1>9

\* All three clients adjust the bars by the same context.
FetchedFor(q) ==
  Adj!FetchContext(q.day, Adj!BarsOf(q.day, q.start, q.count), q.xdxr, Adj!TierPages(q.tier), q.failing)

LEMMA AdjustedIs ==
  ASSUME NEW client \in {"sync", "async", "direct"}, NEW q, q.fq # 0, ~q.eventsFail
  PROVE  /\ Adj!AdjustedBy(client, q).bars = Adj!BarsOf(q.day, q.start, q.count)
         /\ Adj!AdjustedBy(client, q).context = FetchedFor(q)
         /\ Adj!AdjustedBy(client, q).factors =
              Adj!Adjust(q.day, Adj!BarsOf(q.day, q.start, q.count), FetchedFor(q), q.xdxr, Adj!FqType(q.fq))
<1> DEFINE bars == Adj!BarsOf(q.day, q.start, q.count)
<1>1. Adj!ContextOf(q, bars, FetchedFor(q)) = FetchedFor(q)
  BY DEF Adj!ContextOf
<1>2. Adj!SyncContext(q, bars) = FetchedFor(q) /\ Adj!AsyncContext(q, bars) = FetchedFor(q) /\ Adj!DirectContext(q, bars) = FetchedFor(q)
  BY DEF Adj!SyncContext, Adj!AsyncContext, Adj!DirectContext, FetchedFor
<1>3. Adj!AdjustedBy(client, q) = Adj!Adjusted(q, bars, FetchedFor(q))
  <2>1. CASE client = "sync"
    BY <1>1, <1>2, <2>1 DEF Adj!AdjustedBy, Adj!SyncAdjusted
  <2>2. CASE client = "async"
    BY <1>1, <1>2, <2>2 DEF Adj!AdjustedBy, Adj!AsyncAdjusted
  <2>3. CASE client = "direct"
    BY <1>1, <1>2, <2>3 DEF Adj!AdjustedBy, Adj!DirectAdjusted
  <2>4. QED
    BY <2>1, <2>2, <2>3
<1>4. Adj!Adjusted(q, bars, FetchedFor(q)) =
        [bars |-> bars, context |-> FetchedFor(q),
         factors |-> Adj!Adjust(q.day, bars, FetchedFor(q), q.xdxr, Adj!FqType(q.fq))]
  BY DEF Adj!Adjusted
<1>5. QED
  BY <1>3, <1>4

\* The newest bars are a run that ends with the last.
LEMMA NewestBars ==
  ASSUME NEW q \in AnyCall, q.start = 0
  PROVE  /\ Len(q.day) \in Nat \ {0} /\ q.day \in Seq(Nat) /\ q.count \in Nat \ {0} /\ q.failing \in Nat
         /\ From(Len(q.day), q.count) \in 1..Len(q.day)
         /\ Adj!BarsOf(q.day, q.start, q.count) = Run(From(Len(q.day), q.count), Len(q.day))
<1> DEFINE n == Len(q.day)
<1>1. q.day \in Seq(Nat) /\ q.day # <<>> /\ q.count \in Nat \ {0} /\ q.failing \in Nat
  BY DEF AnyCall
<1>2. n \in Nat /\ n # 0
  BY <1>1, LenProperties, EmptySeq
<1>3. 0 + q.count = q.count /\ n - 0 = n /\ 0 < n /\ 0 \in Nat
  BY <1>1, <1>2
<1>4. From(n, 0 + q.count) \in 1..(n - 0) /\ Adj!BarsOf(q.day, 0, q.count) = Run(From(n, 0 + q.count), n - 0)
  BY <1>1, <1>3, BarsAreRun
<1>5. QED
  BY <1>1, <1>2, <1>3, <1>4

\* What is needed of the events if each has a date of its own.
LEMMA EventsOwnDates ==
  ASSUME NEW xdxr \in Seq(AnyEvent), Adj!Distinct(xdxr)
  PROVE  /\ Adj!EventDates(xdxr) \subseteq Nat
         /\ \E n \in Nat :
              /\ OwnDates(n, Adj!Events(xdxr))
              /\ n = 0 <=> Adj!EventDates(xdxr) = {}
              /\ \A k \in 1..n : /\ Adj!Events(xdxr)[k] \in AnyEvent /\ Adj!Events(xdxr)[k].date \in Nat
                                 /\ Adj!Events(xdxr)[k].date \in Adj!EventDates(xdxr)
                                 /\ \E i \in DOMAIN xdxr : Adj!Events(xdxr)[k] = xdxr[i]
              /\ n > 0 => \A d \in Adj!EventDates(xdxr) : Adj!Events(xdxr)[1].date <= d
<1> DEFINE E == Adj!EventDates(xdxr)
           events == Adj!Events(xdxr)
<1>1. E \subseteq Nat
  <2>1. \A i \in DOMAIN xdxr : xdxr[i].date \in Nat
    BY PickedAre
  <2>2. QED
    BY <2>1 DEF Adj!EventDates
<1>2. PICK n \in Nat : \E g \in [1..n -> DOMAIN xdxr] :
        /\ events = [k \in 1..n |-> xdxr[g[k]]]
        /\ n = 0 <=> E = {}
        /\ \A k \in 1..n : xdxr[g[k]] \in AnyEvent /\ xdxr[g[k]].date \in Nat /\ xdxr[g[k]].date \in E
        /\ \A k, l \in 1..n : k # l => g[k] # g[l]
        /\ n > 0 => \A d \in E : xdxr[g[1]].date <= d
  BY EventsAre
<1>3. PICK g \in [1..n -> DOMAIN xdxr] :
        /\ events = [k \in 1..n |-> xdxr[g[k]]]
        /\ n = 0 <=> E = {}
        /\ \A k \in 1..n : xdxr[g[k]] \in AnyEvent /\ xdxr[g[k]].date \in Nat /\ xdxr[g[k]].date \in E
        /\ \A k, l \in 1..n : k # l => g[k] # g[l]
        /\ n > 0 => \A d \in E : xdxr[g[1]].date <= d
  BY <1>2
<1> HIDE DEF E, events
<1>4. \A k \in 1..n : events[k] = xdxr[g[k]] /\ g[k] \in DOMAIN xdxr
  BY <1>3
<1>5. DOMAIN events = 1..n
  BY <1>3
<1>6. ASSUME NEW k \in 1..n, NEW l \in 1..n, k # l PROVE events[k].date # events[l].date
  <2>1. g[k] # g[l]
    BY <1>3, <1>6
  <2>2. xdxr[g[k]].date # xdxr[g[l]].date
    BY <1>4, <2>1 DEF Adj!Distinct
  <2>3. QED
    BY <1>4, <2>2
<1>7. OwnDates(n, events)
  <2>1. \A k \in 1..n : events[k].date \in Nat
    BY <1>3, <1>4
  <2>2. QED
    BY <1>5, <1>6, <2>1 DEF OwnDates
<1>8. \A k \in 1..n : /\ events[k] \in AnyEvent /\ events[k].date \in Nat /\ events[k].date \in E
                      /\ \E i \in DOMAIN xdxr : events[k] = xdxr[i]
  BY <1>3, <1>4
<1>9. n > 0 => \A d \in E : events[1].date <= d
  <2>1. n > 0 => 1 \in 1..n
    OBVIOUS
  <2>2. QED
    BY <1>3, <1>4, <2>1
<1>10. n = 0 <=> E = {}
  BY <1>3
<1>11. QED
  BY <1>1, <1>7, <1>8, <1>9, <1>10 DEF E, events

\* The close of every event that is due is the one in the whole history.
ClosesRight(day, a, context, fq, n, events) ==
  \A k \in 1..n : \A i \in 1..(Len(day) - a + 1) :
    Adj!Due(fq, events[k].date, day[Run(a, Len(day))[i]]) =>
      Adj!CloseBefore(day, Run(a, Len(day)), context, events[k].date) = TrueClose(day, events[k].date)

\* Bars are adjusted as they should be if the close of every event that is due is.
LEMMA ExactIfCloses ==
  ASSUME NEW day \in Seq(Nat), Ascending(day), NEW a \in 1..Len(day), NEW context,
         NEW fq \in {"qfq", "hfq"}, NEW n, NEW events, OwnDates(n, events),
         NEW xdxr, Adj!Events(xdxr) = events,
         ClosesRight(day, a, context, fq, n, events)
  PROVE  Adj!Adjust(day, Run(a, Len(day)), context, xdxr, fq) = Adj!TrueAdjustment(day, Run(a, Len(day)), xdxr, fq)
<1> DEFINE b == Len(day)
           bars == Run(a, b)
           Left(i, k) == Piece(Adj!Due(fq, events[k].date, day[bars[i]]), events[k], Adj!CloseBefore(day, bars, context, events[k].date))
           Right(i, k) == Piece(Adj!Due(fq, events[k].date, day[bars[i]]), events[k], TrueClose(day, events[k].date))
<1>1. b \in Nat /\ a \in Nat \ {0} /\ a <= b /\ b <= Len(day)
  BY LenProperties
<1>2. DOMAIN bars = 1..(b - a + 1)
  BY DEF Run
<1>3. Adj!Adjust(day, bars, context, xdxr, fq) = FoundPieces(day, bars, context, fq, n, events)
  <2> HIDE DEF b
  <2> QED BY <1>1, AdjustIs
<1>4. Adj!TrueAdjustment(day, bars, xdxr, fq) = TruePieces(day, bars, fq, n, events)
  BY TrueAdjustmentIs
<1>5. ASSUME NEW i \in 1..(b - a + 1), NEW k \in 1..n PROVE Left(i, k) = Right(i, k)
  <2> DEFINE due == Adj!Due(fq, events[k].date, day[bars[i]])
  <2>1. due => Adj!CloseBefore(day, bars, context, events[k].date) = TrueClose(day, events[k].date)
    BY DEF ClosesRight
  <2> HIDE DEF bars, due
  <2>2. CASE due
    BY <2>1, <2>2 DEF Piece, due
  <2>3. CASE ~due
    BY <2>3 DEF Piece, due
  <2>4. QED
    BY <2>2, <2>3
<1> HIDE DEF Left, Right
<1>6. \A i \in DOMAIN bars : [k \in 1..n |-> Left(i, k)] = [k \in 1..n |-> Right(i, k)]
  BY <1>2, <1>5
<1>7. FoundPieces(day, bars, context, fq, n, events) = TruePieces(day, bars, fq, n, events)
  <2>1. FoundPieces(day, bars, context, fq, n, events) = [i \in DOMAIN bars |-> Adj!FlattenSeq([k \in 1..n |-> Left(i, k)])]
    BY DEF FoundPieces, Left
  <2>2. TruePieces(day, bars, fq, n, events) = [i \in DOMAIN bars |-> Adj!FlattenSeq([k \in 1..n |-> Right(i, k)])]
    BY DEF TruePieces, Right
  <2>3. QED
    BY <1>6, <2>1, <2>2
<1>8. QED
  BY <1>3, <1>4, <1>7

\* Forward adjustment is by events after a bar, and so after the first of the bars.
LEMMA ForwardIsExact ==
  ASSUME NEW client \in {"sync", "async", "direct"}, NEW q \in AnyCall, Ascending(q.day)
  PROVE  Adj!ForwardExact(client, q)
<1> DEFINE got == Adj!AdjustedBy(client, q)
           day == q.day
           n == Len(day)
           a == From(n, q.count)
           bars == Adj!BarsOf(q.day, q.start, q.count)
           events == Adj!Events(q.xdxr)
<1> SUFFICES ASSUME Adj!FqType(q.fq) = "qfq", q.start = 0, ~q.eventsFail, Adj!Distinct(q.xdxr)
             PROVE  got.factors = Adj!TrueAdjustment(q.day, got.bars, q.xdxr, "qfq")
  BY DEF Adj!ForwardExact
<1>1. q.fq # 0
  BY DEF Adj!FqType
<1>2. got.bars = bars /\ got.factors = Adj!Adjust(q.day, bars, FetchedFor(q), q.xdxr, "qfq")
  BY <1>1, AdjustedIs
<1>3. n \in Nat \ {0} /\ day \in Seq(Nat) /\ a \in 1..n /\ bars = Run(a, n)
  BY NewestBars
<1>4. q.xdxr \in Seq(AnyEvent)
  BY DEF AnyCall
<1>5. PICK m \in Nat : OwnDates(m, events)
  BY <1>4, EventsOwnDates
<1> HIDE DEF got, day, a, bars, events
<1>6. ASSUME NEW k \in 1..m, NEW i \in 1..(n - a + 1), Adj!Due("qfq", events[k].date, day[Run(a, n)[i]])
      PROVE  Adj!CloseBefore(day, Run(a, n), FetchedFor(q), events[k].date) = TrueClose(day, events[k].date)
  <2>1. a \in Nat /\ n \in Nat /\ a <= n + 1
    BY <1>3
  <2>2. Run(a, n)[i] = a + i - 1
    BY <2>1, RunHas
  <2>3. a + i - 1 \in 1..n /\ a <= a + i - 1
    BY <1>3
  <2>4. events[k].date > day[a + i - 1]
    BY <1>6, <2>2 DEF Adj!Due
  <2>5. DOMAIN day = 1..n /\ day[a] \in Nat /\ day[a + i - 1] \in Nat
    BY <1>3, <2>3, LenProperties, ElementOfSeq
  <2>6. day[a] <= day[a + i - 1]
    BY <1>3, <2>3, <2>5 DEF Ascending, day
  <2>7. events[k].date \in Nat
    BY <1>5 DEF OwnDates
  <2>8. day[a] < events[k].date
    BY <2>4, <2>5, <2>6, <2>7
  <2>9. Ascending(day)
    BY DEF day
  <2>10. QED
    BY <1>3, <2>7, <2>8, <2>9, CloseInBars
<1>7. Adj!Adjust(day, Run(a, n), FetchedFor(q), q.xdxr, "qfq") = Adj!TrueAdjustment(day, Run(a, n), q.xdxr, "qfq")
  <2>1. Ascending(day) /\ Adj!Events(q.xdxr) = events
    BY DEF day, events
  <2>2. ClosesRight(day, a, FetchedFor(q), "qfq", m, events)
    BY <1>6 DEF ClosesRight
  <2>3. QED
    BY <1>3, <1>5, <2>1, <2>2, ExactIfCloses
<1>8. QED
  BY <1>2, <1>3, <1>7 DEF day

LEMMA TiersHavePages ==
  ASSUME NEW tier \in {"low", "mid", "high"}
  PROVE  /\ Adj!TierPages(tier) \in Nat /\ LowPages \in Nat
         /\ tier = "low" => Adj!TierPages(tier) = LowPages
         /\ tier = "mid" => Adj!TierPages(tier) = 2 * LowPages
         /\ tier = "high" => Adj!TierPages(tier) = 3 * LowPages
<1>1. LowPages \in Nat
  BY ParametersAssumption
<1>2. CASE tier = "low"
  BY <1>1, <1>2 DEF Adj!TierPages
<1>3. CASE tier = "mid"
  BY <1>1, <1>3 DEF Adj!TierPages
<1>4. CASE tier = "high"
  BY <1>1, <1>4 DEF Adj!TierPages
<1>5. QED
  BY <1>2, <1>3, <1>4

\* With a page of bars, and pages behind it that cover the history, the context has no gap to
\* the bars, and goes back to the first bar or to the day of the first event.
LEMMA ContextHasNoGap ==
  ASSUME NEW day \in Seq(Nat), NEW n \in Nat \ {0}, n = Len(day), NEW a, a = From(n, Page),
         NEW first \in Nat, NEW pages \in Nat, Page + pages * Page >= n,
         NEW context, ContextReaches(day, a, first, pages, 0, context)
  PROVE  \E lo \in 1..a : context = Run(lo, a - 1) /\ (lo = 1 \/ day[lo] <= first)
<1>1. Page \in Nat \ {0}
  BY ParametersAssumption
<1>2. a \in 1..n /\ (Page < n => a = n - Page + 1) /\ (Page >= n => a = 1)
  BY <1>1 DEF From
<1>3. ASSUME NEW b \in 1..n PROVE Run(b, b - 1) = <<>> /\ b \in 1..b
  <2>1. 1..((b - 1) - b + 1) = {}
    OBVIOUS
  <2>2. DOMAIN Run(b, b - 1) = {}
    BY <2>1 DEF Run
  <2> DEFINE c == b - 1
  <2>3. b \in Nat /\ c \in Nat /\ b <= c + 1 /\ c - b + 1 = 0
    OBVIOUS
  <2> HIDE DEF c
  <2>4. Run(b, c) \in Seq(Nat) /\ Len(Run(b, c)) = 0
    BY <2>3, RunHas
  <2>5. Run(b, c) = <<>>
    BY <2>4
  <2>6. QED
    BY <2>5 DEF c
<1>4. CASE day[a] <= first /\ context = <<>>
  BY <1>2, <1>3, <1>4
<1>5. CASE ~(day[a] <= first /\ context = <<>>)
  <2>1. PICK m \in 0..pages :
          /\ m = 0 => context = <<>>
          /\ m > 0 => /\ context = Run(Low(day, m), Len(day) - Page)
                      /\ Low(day, m) \in 1..(Len(day) - Page) /\ Page < Len(day)
          /\ m = pages \/ (m + 1) * Page >= Len(day) \/ (m > 0 /\ day[Low(day, m)] <= first)
    BY <1>5 DEF ContextReaches
  <2> DEFINE x == m * Page
  <2>2. m \in Nat /\ x \in Nat
    BY <1>1, ProductsAscend
  <2>3. (m + 1) * Page = x + Page
    <3> DEFINE j == m + 1
    <3>1. j \in Int /\ j - 1 = m /\ Page \in Int
      BY <1>1, <2>2
    <3> HIDE DEF j
    <3>2. j * Page = (j - 1) * Page + Page
      BY <3>1, NextProduct
    <3>3. QED
      BY <3>1, <3>2 DEF j
  <2>4. Low(day, m) = From(n, x + Page)
    BY DEF Low
  <2>5. m = pages => x + Page >= n
    <3>1. pages * Page \in Nat
      BY <1>1, ProductsAscend
    <3>2. Page + pages * Page = pages * Page + Page
      BY <1>1, <3>1
    <3>3. QED
      BY <3>2
  <2> HIDE DEF x
  <2>6. x + Page >= n \/ (m > 0 /\ day[Low(day, m)] <= first)
    BY <2>1, <2>3, <2>5
  <2>7. x + Page >= n => Low(day, m) = 1
    BY <1>1, <2>2, <2>4 DEF From
  <2>8. CASE m = 0
    <3>1. x = 0
      BY <1>1, <2>8 DEF x
    <3>2. Page >= n
      BY <1>1, <2>6, <2>8, <3>1
    <3>3. a = 1 /\ context = <<>>
      BY <1>2, <2>1, <2>8, <3>2
    <3>4. QED
      BY <1>2, <1>3, <3>3
  <2>9. CASE m # 0
    <3>1. m > 0
      BY <2>2, <2>9
    <3>2. context = Run(Low(day, m), n - Page) /\ Low(day, m) \in 1..(n - Page) /\ Page < n
      BY <2>1, <3>1
    <3>3. a - 1 = n - Page /\ Low(day, m) \in 1..a
      BY <1>1, <1>2, <3>2
    <3>4. Low(day, m) = 1 \/ day[Low(day, m)] <= first
      BY <2>6, <2>7
    <3>5. QED
      BY <3>2, <3>3, <3>4
  <2>10. QED
    BY <2>8, <2>9
<1>6. QED
  BY <1>4, <1>5

LEMMA BackwardIsExact ==
  ASSUME NEW client \in {"sync", "async", "direct"}, NEW q \in AnyCall, Ascending(q.day)
  PROVE  Adj!BackwardExact(client, q)
<1> DEFINE got == Adj!AdjustedBy(client, q)
           day == q.day
           n == Len(day)
           a == From(n, Page)
           bars == Adj!BarsOf(q.day, q.start, q.count)
           events == Adj!Events(q.xdxr)
           known == got.context \o got.bars
           pages == Adj!TierPages(q.tier)
<1> SUFFICES ASSUME Adj!FqType(q.fq) = "hfq", q.start = 0, ~q.eventsFail, q.failing = 0, Adj!Distinct(q.xdxr),
                    q.count = Page, Page + pages * Page >= n,
                    \A i \in DOMAIN q.xdxr : q.xdxr[i].date # day[known[1]]
             PROVE  got.factors = Adj!TrueAdjustment(q.day, got.bars, q.xdxr, "hfq")
  BY DEF Adj!BackwardExact
<1>1. q.fq # 0
  BY DEF Adj!FqType
<1>2. got.bars = bars /\ got.context = FetchedFor(q) /\ got.factors = Adj!Adjust(q.day, bars, FetchedFor(q), q.xdxr, "hfq")
  BY <1>1, AdjustedIs
<1>3. n \in Nat \ {0} /\ day \in Seq(Nat) /\ a \in 1..n /\ bars = Run(a, n)
  BY NewestBars
<1>4. q.xdxr \in Seq(AnyEvent) /\ pages \in Nat
  BY TiersHavePages DEF AnyCall
<1>5. Adj!EventDates(q.xdxr) \subseteq Nat
  BY <1>4, EventsOwnDates
<1>6. PICK m \in Nat :
        /\ OwnDates(m, events)
        /\ m = 0 <=> Adj!EventDates(q.xdxr) = {}
        /\ \A k \in 1..m : /\ events[k] \in AnyEvent /\ events[k].date \in Nat /\ events[k].date \in Adj!EventDates(q.xdxr)
                           /\ \E i \in DOMAIN q.xdxr : events[k] = q.xdxr[i]
        /\ m > 0 => \A d \in Adj!EventDates(q.xdxr) : events[1].date <= d
  BY <1>4, EventsOwnDates
<1>7. Ascending(day) /\ Adj!Events(q.xdxr) = events
  OBVIOUS
<1>8. \A k \in 1..m : events[k].date # day[known[1]]
  BY <1>6
<1> HIDE DEF got, n, a, bars, events, known, pages
<1>9. ASSUME NEW k \in 1..m
      PROVE  Adj!CloseBefore(day, Run(a, n), FetchedFor(q), events[k].date) = TrueClose(day, events[k].date)
  <2> DEFINE E == Adj!EventDates(q.xdxr)
             first == events[1].date
             date == events[k].date
  <2>1. m > 0 /\ 1 \in 1..m
    OBVIOUS
  <2>2. first \in E /\ first \in Nat /\ (\A d \in E : first <= d) /\ date \in Nat /\ date \in E
    BY <1>6, <2>1
  <2> HIDE DEF E, first, date
  <2>3. ContextReaches(day, a, first, pages, 0, FetchedFor(q))
    <3>1. FetchedFor(q) = Adj!FetchContext(day, Run(a, Len(day)), q.xdxr, pages, 0)
      BY <1>3 DEF FetchedFor, bars, pages, n
    <3>2. a \in 1..Len(day) /\ 0 \in Nat
      BY <1>3 DEF n
    <3>3. first \in Adj!EventDates(q.xdxr) /\ \A d \in Adj!EventDates(q.xdxr) : first <= d
      BY <2>2 DEF E
    <3>4. ContextReaches(day, a, first, pages, 0, Adj!FetchContext(day, Run(a, Len(day)), q.xdxr, pages, 0))
      BY <1>3, <1>4, <1>5, <3>2, <3>3, FetchIs
    <3>5. QED
      BY <3>1, <3>4
  <2>4. PICK lo \in 1..a : FetchedFor(q) = Run(lo, a - 1) /\ (lo = 1 \/ day[lo] <= first)
    <3>1. n = Len(day) /\ a = From(n, Page)
      BY DEF n, a
    <3>2. QED
      BY <1>3, <1>4, <2>2, <2>3, <3>1, ContextHasNoGap, SMTT(30)
  <2>5. known[1] = lo
    <3> DEFINE b == a - 1
    <3>1. lo \in Nat /\ b \in Nat /\ n \in Nat /\ lo <= b + 1 /\ b <= n /\ b + 1 = a /\ lo <= n + 1 /\ 1 \in 1..(n - lo + 1)
          /\ lo + 1 - 1 = lo
      BY <1>3
    <3> HIDE DEF b
    <3>2. Run(lo, b) \o Run(b + 1, n) = Run(lo, n)
      BY <3>1, RunsJoin
    <3>3. Run(lo, n)[1] = lo + 1 - 1
      BY <3>1, RunHas
    <3>4. known = Run(lo, a - 1) \o Run(a, n)
      BY <1>2, <1>3, <2>4 DEF known
    <3>5. QED
      BY <3>1, <3>2, <3>3, <3>4 DEF b
  <2>6. lo = 1 \/ day[lo] < date
    <3>1. date # day[lo]
      BY <1>8, <2>5 DEF date
    <3>2. lo \in 1..n
      BY <1>3
    <3>3. day[lo] \in Nat
      BY <1>3, <3>2, LenProperties, ElementOfSeq DEF n
    <3>4. first <= date
      BY <2>2
    <3>5. QED
      BY <2>2, <2>4, <3>1, <3>3, <3>4
  <2>7. CASE day[a] < date
    <3>1. a \in 1..Len(day)
      BY <1>3 DEF n
    <3>2. QED
      BY <1>3, <1>7, <2>2, <2>7, <3>1, CloseInBars DEF date, n
  <2>8. CASE ~(day[a] < date)
    <3>1. a \in 1..Len(day)
      BY <1>3 DEF n
    <3>2. Adj!CloseBefore(day, Run(a, Len(day)), Run(lo, a - 1), date) = TrueClose(day, date)
      BY <1>3, <1>7, <2>2, <2>6, <2>8, <3>1, CloseInContext
    <3>3. QED
      BY <2>4, <3>2 DEF date, n
  <2>9. QED
    BY <2>7, <2>8
<1>10. Adj!Adjust(day, Run(a, n), FetchedFor(q), q.xdxr, "hfq") = Adj!TrueAdjustment(day, Run(a, n), q.xdxr, "hfq")
  <2>1. ClosesRight(day, a, FetchedFor(q), "hfq", m, events)
    BY <1>9 DEF ClosesRight, n
  <2>2. a \in 1..Len(day) /\ day \in Seq(Nat)
    BY <1>3 DEF n
  <2>3. OwnDates(m, events)
    BY <1>6
  <2>4. Adj!Adjust(day, Run(a, Len(day)), FetchedFor(q), q.xdxr, "hfq") = Adj!TrueAdjustment(day, Run(a, Len(day)), q.xdxr, "hfq")
    <3> HIDE DEF day
    <3> QED BY <1>7, <2>1, <2>2, <2>3, ExactIfCloses
  <2>5. QED
    BY <2>4 DEF n
<1>11. QED
  BY <1>2, <1>3, <1>10

\* The factors of events up to a day, of a sequence of factors.
KeepOne(top, x) == IF x.event.date <= top THEN <<x>> ELSE <<>>
Keeps(top, s) == [i \in 1..Len(s) |-> KeepOne(top, s[i])]
Kept(top, s) == FlattenSeq(Keeps(top, s))

LEMMA KeepsType ==
  ASSUME NEW S, NEW top, NEW s \in Seq(S)
  PROVE  /\ Len(s) \in Nat /\ Keeps(top, s) \in Seq(Seq(S)) /\ Len(Keeps(top, s)) = Len(s)
         /\ \A i \in 1..Len(s) : Keeps(top, s)[i] = KeepOne(top, s[i])
         /\ Kept(top, s) \in Seq(S)
<1> DEFINE n == Len(s)
           ss == Keeps(top, s)
<1>1. n \in Nat /\ \A i \in 1..n : s[i] \in S
  BY LenProperties, ElementOfSeq
<1>2. ASSUME NEW i \in 1..n PROVE KeepOne(top, s[i]) \in Seq(S)
  <2>1. s[i] \in S
    BY <1>1
  <2> DEFINE x == s[i]
  <2> HIDE DEF x
  <2>2. x \in S => <<x>> \in Seq(S) /\ <<>> \in Seq(S)
    OBVIOUS
  <2>3. QED
    BY <2>1, <2>2 DEF KeepOne, x
<1>3. ss = [i \in 1..n |-> KeepOne(top, s[i])]
  BY DEF Keeps
<1> HIDE DEF n, ss
<1>4. ss \in [1..n -> Seq(S)]
  BY <1>2, <1>3
<1>5. ss \in Seq(Seq(S)) /\ Len(ss) = n
  BY <1>1, <1>4
<1>6. FlattenSeq(ss) \in Seq(S)
  BY <1>5, FlattenType
<1>7. QED
  BY <1>1, <1>3, <1>5, <1>6 DEF n, ss, Kept

LEMMA KeptOfBoth ==
  ASSUME NEW S, NEW top, NEW a \in Seq(S), NEW b \in Seq(S)
  PROVE  Kept(top, a \o b) = Kept(top, a) \o Kept(top, b)
<1> DEFINE c == a \o b
           m == Len(a)
           n == Len(b)
           fa == Keeps(top, a)
           fb == Keeps(top, b)
           fc == Keeps(top, c)
<1>1. m \in Nat /\ n \in Nat
  BY LenProperties
<1>2. c \in Seq(S) /\ Len(c) = m + n /\ \A i \in 1..(m + n) : c[i] = IF i <= m THEN a[i] ELSE b[i - m]
  BY ConcatProperties
<1> HIDE DEF c
<1>3. fa \in Seq(Seq(S)) /\ Len(fa) = m /\ \A i \in 1..m : fa[i] = KeepOne(top, a[i])
  BY KeepsType
<1>4. fb \in Seq(Seq(S)) /\ Len(fb) = n /\ \A i \in 1..n : fb[i] = KeepOne(top, b[i])
  BY KeepsType
<1>5. fc \in Seq(Seq(S)) /\ Len(fc) = m + n /\ \A i \in 1..(m + n) : fc[i] = KeepOne(top, c[i])
  <2>1. fc \in Seq(Seq(S)) /\ Len(fc) = Len(c) /\ \A i \in 1..Len(c) : fc[i] = KeepOne(top, c[i])
    <3>1. c \in Seq(S)
      BY <1>2
    <3>2. /\ Keeps(top, c) \in Seq(Seq(S)) /\ Len(Keeps(top, c)) = Len(c)
          /\ \A i \in 1..Len(c) : Keeps(top, c)[i] = KeepOne(top, c[i])
      BY <3>1, KeepsType
    <3>3. QED
      BY <3>2
  <2> HIDE DEF m, n, fc
  <2>2. QED
    BY <1>2, <2>1
<1> HIDE DEF m, n, fa, fb, fc
<1>6. /\ fa \o fb \in Seq(Seq(S)) /\ Len(fa \o fb) = m + n
      /\ \A i \in 1..(m + n) : (fa \o fb)[i] = IF i <= m THEN fa[i] ELSE fb[i - m]
  BY <1>3, <1>4, ConcatProperties
<1>7. ASSUME NEW i \in 1..(m + n) PROVE fc[i] = (fa \o fb)[i]
  <2>1. CASE i <= m
    <3>1. i \in 1..m
      BY <1>1, <2>1
    <3>2. QED
      BY <1>2, <1>3, <1>5, <1>6, <2>1, <3>1
  <2>2. CASE ~(i <= m)
    <3>1. i - m \in 1..n
      BY <1>1, <2>2
    <3>2. QED
      BY <1>2, <1>4, <1>5, <1>6, <2>2, <3>1
  <2>3. QED
    BY <2>1, <2>2
<1>8. fc = fa \o fb
  <2> DEFINE fd == fa \o fb
  <2>1. fd \in Seq(Seq(S)) /\ Len(fd) = Len(fc) /\ \A i \in 1..Len(fc) : fc[i] = fd[i]
    BY <1>5, <1>6, <1>7
  <2> HIDE DEF fd
  <2>2. fc = fd
    BY <1>5, <2>1, SeqEqual
  <2>3. QED
    BY <2>2 DEF fd
<1>9. FlattenSeq(fa \o fb) = FlattenSeq(fa) \o FlattenSeq(fb)
  BY <1>3, <1>4, FlattenConcat
<1>10. QED
  BY <1>8, <1>9 DEF Kept, c, fa, fb, fc

LEMMA KeptOfNone == \A top : Kept(top, <<>>) = <<>>
<1>1. <<>> \in Seq(Seq(Nat)) /\ \A i \in 1..Len(<<>>) : <<>>[i] = <<>>
  OBVIOUS
<1>2. FlattenSeq(<<>>) = <<>>
  BY <1>1, FlattenNone
<1>3. \A top : Keeps(top, <<>>) = <<>>
  BY DEF Keeps
<1>4. QED
  BY <1>2, <1>3 DEF Kept

\* The sequence of one sequence is that one.
LEMMA FlattenOne ==
  ASSUME NEW S, NEW s \in Seq(S)
  PROVE  FlattenSeq(<<s>>) = s
<1> DEFINE ss == <<s>>
           f == [i \in 0..1 |-> IF i = 0 THEN <<>> ELSE s]
<1>1. ss \in Seq(Seq(S)) /\ Len(ss) = 1 /\ ss[1] = s
  OBVIOUS
<1>2. f[0] = <<>> /\ f[1] = s /\ f \in [0..1 -> Seq(S)]
  OBVIOUS
<1> HIDE DEF ss, f
<1>3. <<>> \o s = s
  BY ConcatEmptySeq
<1>4. \A i \in 1..1 : f[i] = f[i - 1] \o ss[i]
  BY <1>1, <1>2, <1>3
<1>5. f \in [0..Len(ss) -> Seq(S)] /\ \A i \in 1..Len(ss) : f[i] = f[i - 1] \o ss[i]
  BY <1>1, <1>2, <1>4
<1>6. FlattenSeq(ss) = f[Len(ss)]
  BY <1>1, <1>2, <1>5, FlattenIs
<1>7. QED
  BY <1>1, <1>2, <1>6 DEF ss

LEMMA KeptOfOne ==
  ASSUME NEW S, NEW top, NEW x \in S
  PROVE  Kept(top, <<x>>) = KeepOne(top, x)
<1> DEFINE s == <<x>>
<1>1. s \in Seq(S) /\ Len(s) = 1 /\ s[1] = x
  OBVIOUS
<1>2. KeepOne(top, x) \in Seq(S)
  <2>1. <<x>> \in Seq(S) /\ <<>> \in Seq(S)
    OBVIOUS
  <2>2. QED
    BY <2>1 DEF KeepOne
<1>3. Keeps(top, s) = <<KeepOne(top, x)>>
  <2> HIDE DEF s
  <2>1. Keeps(top, s) = [i \in 1..1 |-> KeepOne(top, s[i])]
    BY <1>1 DEF Keeps
  <2>2. QED
    BY <1>1, <2>1
<1>4. QED
  BY <1>2, <1>3, FlattenOne DEF Kept

KeptEach(top, n, ss) == [k \in 1..n |-> Kept(top, ss[k])]

\* What is kept of sequences put together is what is kept of each.
LEMMA KeptOfAll ==
  ASSUME NEW S, NEW top, NEW n \in Nat, NEW ss, ss \in [1..n -> Seq(S)]
  PROVE  Kept(top, FlattenSeq(ss)) = FlattenSeq(KeptEach(top, n, ss))
<1> DEFINE tt == [k \in 1..n |-> Kept(top, ss[k])]
<1>1. ss \in Seq(Seq(S)) /\ Len(ss) = n /\ \A k \in 1..n : ss[k] \in Seq(S)
  OBVIOUS
<1>2. PICK f \in [0..n -> Seq(S)] : f[0] = <<>> /\ (\A i \in 1..n : f[i] = f[i - 1] \o ss[i]) /\ FlattenSeq(ss) = f[n]
  BY <1>1, FlattenSteps
<1> DEFINE h == [i \in 0..n |-> Kept(top, f[i])]
<1>3. \A k \in 1..n : Kept(top, ss[k]) \in Seq(S)
  BY <1>1, KeepsType
<1>4. \A i \in 0..n : f[i] \in Seq(S) /\ h[i] = Kept(top, f[i]) /\ Kept(top, f[i]) \in Seq(S)
  <2>1. \A i \in 0..n : f[i] \in Seq(S) /\ h[i] = Kept(top, f[i])
    OBVIOUS
  <2>2. QED
    BY <2>1, KeepsType
<1>5. h = [i \in 0..n |-> h[i]]
  OBVIOUS
<1>6. tt \in Seq(Seq(S)) /\ Len(tt) = n /\ \A k \in 1..n : tt[k] = Kept(top, ss[k])
  <2>1. \A k \in 1..n : tt[k] = Kept(top, ss[k])
    OBVIOUS
  <2>2. tt = [k \in 1..n |-> tt[k]]
    OBVIOUS
  <2> HIDE DEF tt
  <2>3. tt \in [1..n -> Seq(S)]
    BY <1>3, <2>1, <2>2
  <2>4. QED
    BY <2>1, <2>3
<1> HIDE DEF h, tt
<1>7. h \in [0..n -> Seq(S)]
  BY <1>4, <1>5
<1>8. h[0] = <<>>
  BY <1>2, <1>4, KeptOfNone
<1>9. ASSUME NEW i \in 1..n PROVE h[i] = h[i - 1] \o tt[i]
  <2>1. i \in 0..n /\ i - 1 \in 0..n
    OBVIOUS
  <2>2. f[i - 1] \in Seq(S) /\ ss[i] \in Seq(S) /\ f[i] = f[i - 1] \o ss[i]
    BY <1>1, <1>2, <1>4, <2>1
  <2>3. Kept(top, f[i - 1] \o ss[i]) = Kept(top, f[i - 1]) \o Kept(top, ss[i])
    <3> DEFINE x == f[i - 1]
               y == ss[i]
    <3>1. x \in Seq(S) /\ y \in Seq(S)
      BY <2>2
    <3> HIDE DEF x, y
    <3>2. Kept(top, x \o y) = Kept(top, x) \o Kept(top, y)
      BY <3>1, KeptOfBoth, SMTT(30)
    <3>3. QED
      BY <3>2 DEF x, y
  <2>4. QED
    BY <1>4, <1>6, <2>1, <2>2, <2>3
<1>10. FlattenSeq(tt) = h[n]
  BY <1>6, <1>7, <1>8, <1>9, FlattenIs
<1>11. n \in 0..n
  OBVIOUS
<1>12. QED
  BY <1>2, <1>4, <1>10, <1>11 DEF tt, KeptEach

\* The factors that are listed are those that the newest bar is multiplied by.
LEMMA FactorsDoAgree ==
  ASSUME NEW client \in {"sync", "async", "direct"}, NEW q \in AnyCall, Ascending(q.day)
  PROVE  Adj!FactorsAgree(client, q)
<1> DEFINE got == Adj!AdjustedBy(client, q)
           all == Adj!FactorsBy(client, q)
           day == q.day
           bars == Adj!BarsOf(q.day, q.start, q.count)
           context == FetchedFor(q)
           events == Adj!Events(q.xdxr)
           b == Len(day) - q.start
           a == From(Len(day), q.start + q.count)
           size == b - a + 1
           top == day[bars[size]]
<1> SUFFICES ASSUME Adj!FqType(q.fq) = "hfq", got.bars # <<>>, ~q.eventsFail, Adj!Distinct(q.xdxr),
                    \A i \in DOMAIN q.xdxr : q.xdxr[i].usable, AllPages = Adj!TierPages(q.tier)
             PROVE  got.factors[Len(got.bars)] =
                      Adj!FlattenSeq([i \in DOMAIN all |->
                        IF all[i].event.date <= q.day[got.bars[Len(got.bars)]] THEN <<all[i]>> ELSE <<>>])
  BY DEF Adj!FactorsAgree
<1>1. q.fq # 0
  BY DEF Adj!FqType
<1>2. got.bars = bars /\ got.factors = Adj!Adjust(day, bars, context, q.xdxr, "hfq")
  BY <1>1, AdjustedIs
<1>3. day \in Seq(Nat) /\ q.start \in Nat /\ q.count \in Nat \ {0} /\ q.xdxr \in Seq(AnyEvent) /\ Len(day) \in Nat
  BY LenProperties DEF AnyCall
<1>4. a \in 1..b /\ b \in Nat /\ b <= Len(day) /\ bars = Run(a, b)
  <2>1. ~(q.start >= Len(day))
    BY <1>2, <1>3, BarsAreRun
  <2>2. q.start < Len(day)
    BY <1>3, <2>1
  <2>3. a \in 1..b /\ bars = Run(a, b)
    BY <1>3, <2>2, BarsAreRun
  <2> HIDE DEF a, bars
  <2>4. b \in Nat /\ b <= Len(day)
    BY <1>3, <2>2
  <2>5. QED
    BY <2>3, <2>4
<1>5. all = Adj!CalcFactors(day, bars, context, q.xdxr)
  <2>1. Adj!SyncFactorContext(q, bars) = context /\ Adj!DirectFactorContext(q, bars) = context
    BY DEF Adj!SyncFactorContext, Adj!DirectFactorContext, FetchedFor
  <2> HIDE DEF context
  <2>2. QED
    BY <2>1 DEF Adj!FactorsBy
<1>6. PICK m \in Nat : OwnDates(m, events) /\ \A k \in 1..m : \E i \in DOMAIN q.xdxr : events[k] = q.xdxr[i]
  BY <1>3, EventsOwnDates
<1>7. \A k \in 1..m : events[k].usable
  BY <1>6
<1>8. DOMAIN events = 1..m
  BY <1>6 DEF OwnDates
<1>9. Ascending(day) /\ Adj!Events(q.xdxr) = events
  OBVIOUS
<1> HIDE DEF got, all, a, b, bars, context, events, day
<1>10. Len(bars) = size /\ size \in 1..size /\ DOMAIN bars = 1..size /\ size \in Nat
  <2>1. a \in Nat /\ a <= b + 1 /\ size \in 1..size /\ size \in Nat
    BY <1>4
  <2>2. QED
    BY <1>4, <2>1, RunHas
<1>11. a \in Nat \ {0} /\ a <= b
  BY <1>4
<1> HIDE DEF size
<1> DEFINE Close(k) == Adj!CloseBefore(day, bars, context, events[k].date)
           F(k) == Adj!Factor(events[k], Close(k))
           S == {F(k) : k \in 1..m}
           One(k) == IF Close(k) # Adj!NoBar THEN <<F(k)>> ELSE <<>>
           ss == [k \in 1..m |-> One(k)]
           Mine(k) == Piece(Adj!Due("hfq", events[k].date, top), events[k], Close(k))
<1>12. all = FlattenSeq(ss)
  <2>1. all = Adj!FlattenSeq(ss)
    BY <1>5, <1>8, <1>9 DEF Adj!CalcFactors
  <2>2. QED
    BY <2>1, OneFlatten
<1>13. got.factors[size] = FlattenSeq([k \in 1..m |-> Mine(k)])
  <2>1. Adj!Adjust(day, bars, context, q.xdxr, "hfq") = FoundPieces(day, bars, context, "hfq", m, events)
    <3>1. day \in Seq(Nat) /\ b \in Nat /\ b <= Len(day) /\ OwnDates(m, events)
      BY <1>3, <1>4, <1>6
    <3>2. Adj!Adjust(day, Run(a, b), context, q.xdxr, "hfq") = FoundPieces(day, Run(a, b), context, "hfq", m, events)
      <4> DEFINE x == q.xdxr
      <4>1. Ascending(day) /\ Adj!Events(x) = events /\ "hfq" \in {"qfq", "hfq"}
        BY <1>9
      <4> HIDE DEF x
      <4>2. Adj!Adjust(day, Run(a, b), context, x, "hfq") = FoundPieces(day, Run(a, b), context, "hfq", m, events)
        BY ONLY <1>11, <3>1, <4>1, AdjustIs
      <4>3. QED
        BY <4>2 DEF x
    <3>3. QED
      BY <1>4, <3>2
  <2>2. FoundPieces(day, bars, context, "hfq", m, events)[size] = Adj!FlattenSeq([k \in 1..m |-> Mine(k)])
    BY <1>10 DEF FoundPieces
  <2>3. QED
    BY <1>2, <2>1, <2>2, OneFlatten
<1> HIDE DEF Close, F
<1>14. ASSUME NEW k \in 1..m PROVE F(k) \in S /\ One(k) \in Seq(S) /\ F(k).event = events[k]
  <2>1. F(k) \in S
    OBVIOUS
  <2>2. F(k).event = events[k]
    BY DEF F, Adj!Factor
  <2> DEFINE x == F(k)
  <2> HIDE DEF S, x
  <2>3. x \in S
    BY <2>1 DEF x
  <2>4. <<x>> \in Seq(S) /\ <<>> \in Seq(S)
    BY <2>3
  <2>5. QED
    BY <2>1, <2>2, <2>4 DEF x
<1>15. ss \in [1..m -> Seq(S)]
  <2> HIDE DEF S, One
  <2> QED BY <1>14
<1>16. FlattenSeq(ss) \in Seq(S)
  <2>1. ss \in Seq(Seq(S))
    <3> HIDE DEF ss, S
    <3> QED BY <1>15
  <2> HIDE DEF ss, S
  <2>2. QED
    BY <2>1, FlattenType
<1>17. DOMAIN all = 1..Len(all)
  <2> HIDE DEF S, ss
  <2> QED BY <1>12, <1>16
<1>18. Adj!FlattenSeq([i \in DOMAIN all |-> IF all[i].event.date <= top THEN <<all[i]>> ELSE <<>>]) = Kept(top, all)
  <2>1. [i \in DOMAIN all |-> IF all[i].event.date <= top THEN <<all[i]>> ELSE <<>>] = Keeps(top, all)
    BY <1>17 DEF Keeps, KeepOne
  <2>2. QED
    BY <2>1, OneFlatten DEF Kept
<1> HIDE DEF top
<1>19. Kept(top, all) = FlattenSeq(KeptEach(top, m, ss))
  <2> HIDE DEF ss, S
  <2> QED BY <1>12, <1>15, KeptOfAll
<1>20. ASSUME NEW k \in 1..m PROVE Kept(top, ss[k]) = Mine(k)
  <2>1. ss[k] = One(k)
    OBVIOUS
  <2>2. Adj!Due("hfq", events[k].date, top) <=> events[k].date <= top
    BY DEF Adj!Due
  <2>3. CASE Close(k) # Adj!NoBar
    <3>1. Kept(top, <<F(k)>>) = KeepOne(top, F(k))
      <4> DEFINE x == F(k)
      <4>1. x \in S
        BY <1>14
      <4> HIDE DEF S, x
      <4>2. Kept(top, <<x>>) = KeepOne(top, x)
        BY <4>1, KeptOfOne
      <4>3. QED
        BY <4>2 DEF x
    <3>2. KeepOne(top, F(k)) = IF events[k].date <= top THEN <<F(k)>> ELSE <<>>
      BY <1>14 DEF KeepOne
    <3>3. CASE events[k].date <= top
      BY <1>7, <2>1, <2>2, <2>3, <3>1, <3>2, <3>3 DEF Piece, F
    <3>4. CASE ~(events[k].date <= top)
      BY <2>1, <2>2, <2>3, <3>1, <3>2, <3>4 DEF Piece
    <3>5. QED
      BY <3>3, <3>4
  <2>4. CASE ~(Close(k) # Adj!NoBar)
    <3>1. ss[k] = <<>> /\ Mine(k) = <<>>
      BY <2>1, <2>4 DEF Piece
    <3>2. QED
      BY <3>1, KeptOfNone
  <2>5. QED
    BY <2>3, <2>4
<1>21. FlattenSeq(KeptEach(top, m, ss)) = FlattenSeq([k \in 1..m |-> Mine(k)])
  <2> DEFINE K(k) == Kept(top, ss[k])
  <2>1. \A k \in 1..m : K(k) = Mine(k)
    BY <1>20
  <2> HIDE DEF K, Mine
  <2>2. [k \in 1..m |-> K(k)] = [k \in 1..m |-> Mine(k)]
    BY <2>1
  <2>3. QED
    BY <2>2 DEF K, KeptEach
<1>22. got.factors[Len(got.bars)] = Kept(top, all)
  BY <1>2, <1>10, <1>13, <1>19, <1>21
<1>23. top = q.day[got.bars[Len(got.bars)]]
  BY <1>2, <1>10 DEF top, day
<1>24. QED
  BY <1>18, <1>22, <1>23

\* The pages of the detected tier, for an event three decades back at most.
LEMMA TierCovers ==
  ASSUME NEW events, events # <<>>, events[1].date \in Nat, NEW now \in Nat, events[1].date <= now,
         now - events[1].date <= 3 * (LowPages * Page)
  PROVE  LET tier == Adj!DetectTier(events, now, LowPages * Page)
         IN tier \in {"low", "mid", "high"} /\ Adj!TierPages(tier) \in Nat /\ now - events[1].date <= Adj!TierPages(tier) * Page
<1> DEFINE decade == LowPages * Page
           d == events[1].date
           back == IF now > d THEN now - d ELSE 0
           tier == Adj!DetectTier(events, now, decade)
<1>1. LowPages \in Nat /\ Page \in Nat
  BY ParametersAssumption
<1>2. decade \in Nat /\ (2 * LowPages) * Page = 2 * decade /\ (3 * LowPages) * Page = 3 * decade
  BY <1>1
<1>3. tier = IF back <= decade THEN "low" ELSE IF back <= 2 * decade THEN "mid" ELSE "high"
  BY DEF Adj!DetectTier
<1> HIDE DEF decade, tier
<1>4. back \in Nat /\ now - d <= back /\ back <= 3 * decade
  BY <1>2 DEF decade
<1> HIDE DEF back, d
<1>5. CASE back <= decade
  <2>1. tier = "low" /\ Adj!TierPages(tier) = LowPages
    BY <1>3, <1>5, TiersHavePages
  <2>2. now - d <= decade
    BY <1>2, <1>4, <1>5 DEF d
  <2>3. QED
    BY <1>1, <2>1, <2>2 DEF decade, tier, d
<1>6. CASE ~(back <= decade) /\ back <= 2 * decade
  <2>1. tier = "mid" /\ Adj!TierPages(tier) = 2 * LowPages
    BY <1>3, <1>6, TiersHavePages
  <2>2. now - d <= 2 * decade
    BY <1>2, <1>4, <1>6 DEF d
  <2>3. now - d <= Adj!TierPages(tier) * Page /\ Adj!TierPages(tier) \in Nat
    BY <1>1, <1>2, <2>1, <2>2
  <2>4. QED
    BY <2>1, <2>3 DEF decade, tier, d
<1>7. CASE ~(back <= decade) /\ ~(back <= 2 * decade)
  <2>1. tier = "high" /\ Adj!TierPages(tier) = 3 * LowPages
    BY <1>3, <1>7, TiersHavePages
  <2>2. now - d <= 3 * decade
    BY <1>2, <1>4, <1>7 DEF d
  <2>3. now - d <= Adj!TierPages(tier) * Page /\ Adj!TierPages(tier) \in Nat
    BY <1>1, <1>2, <2>1, <2>2
  <2>4. QED
    BY <2>1, <2>3 DEF decade, tier, d
<1>8. QED
  BY <1>5, <1>6, <1>7

LEMMA DetectedTierDoesReach ==
  ASSUME NEW client \in {"sync", "async", "direct"}, NEW q \in AnyCall, Ascending(q.day)
  PROVE  Adj!DetectedTierReaches(client, q)
<1> DEFINE day == q.day
           n == Len(day)
           events == Adj!Events(q.xdxr)
           E == Adj!EventDates(q.xdxr)
           first == Adj!MinOf(E)
           tier == Adj!DetectTier(events, day[n], LowPages * Page)
           p == [q EXCEPT !.tier = tier]
           got == Adj!AdjustedBy(client, p)
           known == got.context \o got.bars
           a == From(n, q.count)
           pages == Adj!TierPages(tier)
           context == FetchedFor(p)
<1> SUFFICES ASSUME day = [i \in 1..n |-> i], E # {}, first \in DOMAIN day, n - first <= 3 * (LowPages * Page),
                    q.fq # 0, ~q.eventsFail, q.failing = 0, q.start = 0, q.count >= Page \/ n > Page
             PROVE  day[known[1]] <= first
  BY DEF Adj!DetectedTierReaches
<1>1. /\ n \in Nat \ {0} /\ day \in Seq(Nat) /\ q.count \in Nat \ {0} /\ a \in 1..n
      /\ Adj!BarsOf(q.day, q.start, q.count) = Run(a, n)
  BY NewestBars
<1>2. q.xdxr \in Seq(AnyEvent) /\ Page \in Nat \ {0}
  BY ParametersAssumption DEF AnyCall
<1>3. E \subseteq Nat
  <2>1. \A i \in DOMAIN q.xdxr : q.xdxr[i].date \in Nat
    BY <1>2, PickedAre
  <2>2. QED
    BY <2>1 DEF Adj!EventDates
<1>4. first \in E /\ \A d \in E : first <= d
  <2> HIDE DEF E
  <2>1. PICK x \in E : \A y \in E : x <= y
    BY <1>3, LeastNat
  <2>2. Adj!MinOf(E) = x
    BY <1>3, <2>1, LeastIs
  <2>3. QED
    BY <2>1, <2>2
<1>5. events # <<>> /\ events[1].date = first
  <2>1. PICK m \in Nat : \E g \in [1..m -> DOMAIN q.xdxr] :
          /\ Adj!Events(q.xdxr) = [k \in 1..m |-> q.xdxr[g[k]]]
          /\ m = 0 <=> Adj!EventDates(q.xdxr) = {}
          /\ \A k \in 1..m : q.xdxr[g[k]] \in AnyEvent /\ q.xdxr[g[k]].date \in Nat /\ q.xdxr[g[k]].date \in Adj!EventDates(q.xdxr)
          /\ \A k, l \in 1..m : k # l => g[k] # g[l]
          /\ m > 0 => \A d \in Adj!EventDates(q.xdxr) : q.xdxr[g[1]].date <= d
    BY <1>2, EventsAre
  <2>2. PICK g \in [1..m -> DOMAIN q.xdxr] :
          /\ Adj!Events(q.xdxr) = [k \in 1..m |-> q.xdxr[g[k]]]
          /\ m = 0 <=> Adj!EventDates(q.xdxr) = {}
          /\ \A k \in 1..m : q.xdxr[g[k]] \in AnyEvent /\ q.xdxr[g[k]].date \in Nat /\ q.xdxr[g[k]].date \in Adj!EventDates(q.xdxr)
          /\ \A k, l \in 1..m : k # l => g[k] # g[l]
          /\ m > 0 => \A d \in Adj!EventDates(q.xdxr) : q.xdxr[g[1]].date <= d
    BY <2>1
  <2> HIDE DEF events, E, first
  <2>3. m # 0
    BY <2>2 DEF E
  <2>4. m > 0 /\ 1 \in 1..m
    BY <2>3
  <2>5. events[1] = q.xdxr[g[1]] /\ DOMAIN events = 1..m
    BY <2>2, <2>4 DEF events
  <2>6. events[1].date \in Nat /\ events[1].date \in E /\ \A d \in E : events[1].date <= d
    BY <2>2, <2>4, <2>5 DEF E
  <2>7. events # <<>>
    BY <2>4, <2>5
  <2>8. events[1].date <= first /\ first <= events[1].date /\ first \in Nat
    BY <1>3, <1>4, <2>6
  <2>9. QED
    BY <2>6, <2>7, <2>8
<1>6. DOMAIN day = 1..n /\ \A i \in 1..n : day[i] = i
  <2> DEFINE N == 1..n
  <2> HIDE DEF N
  <2>1. day = [i \in N |-> i]
    BY DEF N
  <2> HIDE DEF day
  <2>2. DOMAIN day = N /\ \A i \in N : day[i] = i
    BY <2>1
  <2>3. QED
    BY <2>2 DEF N
<1>7. first \in 1..n /\ day[n] = n
  BY <1>1, <1>6
<1>8. tier \in {"low", "mid", "high"} /\ pages \in Nat /\ n - first <= pages * Page
  <2> DEFINE now == day[n]
  <2>1. now = n /\ now \in Nat /\ events[1].date \in Nat /\ events[1].date <= now
    BY <1>1, <1>5, <1>7
  <2> HIDE DEF events, now, n, first
  <2>2. now - events[1].date <= 3 * (LowPages * Page)
    BY <1>5, <2>1
  <2>3. LET t == Adj!DetectTier(events, now, LowPages * Page)
        IN t \in {"low", "mid", "high"} /\ Adj!TierPages(t) \in Nat /\ now - events[1].date <= Adj!TierPages(t) * Page
    BY <1>5, <2>1, <2>2, TierCovers
  <2>4. QED
    BY <1>5, <2>1, <2>3 DEF now
<1> HIDE DEF first, events, tier, known, got
<1>9. /\ p.day = q.day /\ p.start = 0 /\ p.count = q.count /\ p.xdxr = q.xdxr /\ p.fq # 0 /\ ~p.eventsFail
      /\ p.failing = 0 /\ p.tier = tier
  BY DEF AnyCall
<1> HIDE DEF p
<1>10. got.bars = Run(a, n) /\ got.context = context
  <2>1. got.bars = Adj!BarsOf(p.day, p.start, p.count) /\ got.context = context
    BY <1>9, AdjustedIs DEF got
  <2>2. QED
    BY <1>1, <1>9, <2>1
<1>11. ContextReaches(day, a, first, pages, 0, context)
  <2>1. context = Adj!FetchContext(day, Run(a, Len(day)), q.xdxr, pages, 0)
    BY <1>1, <1>9 DEF FetchedFor
  <2>2. a \in 1..Len(day) /\ 0 \in Nat /\ first \in Adj!EventDates(q.xdxr) /\ Adj!EventDates(q.xdxr) \subseteq Nat
        /\ \A d \in Adj!EventDates(q.xdxr) : first <= d
    BY <1>1, <1>3, <1>4
  <2> HIDE DEF day, a, pages, context
  <2>3. ContextReaches(day, a, first, pages, 0, Adj!FetchContext(day, Run(a, Len(day)), q.xdxr, pages, 0))
    BY <1>1, <1>8, <2>2, FetchIs
  <2>4. QED
    BY <2>1, <2>3
<1>12. known = context \o Run(a, n)
  BY <1>10 DEF known
<1>13. a \in 1..n /\ day[a] = a /\ a = IF n > q.count THEN n - q.count + 1 ELSE 1
  BY <1>1, <1>6 DEF From
<1>14. first \in 1..n /\ n \in Nat /\ q.count \in Nat \ {0} /\ day \in Seq(Nat)
  BY <1>1, <1>7
<1>15. Len(day) = n
  OBVIOUS
<1> HIDE DEF a, context, pages, n, day
<1>16. Run(a, n) \in Seq(Nat) /\ Run(a, n)[1] = a
  <2>1. a \in Nat /\ a <= n + 1 /\ 1 \in 1..(n - a + 1) /\ a + 1 - 1 = a
    BY <1>13, <1>14
  <2>2. QED
    BY <1>14, <2>1, RunHas
<1>17. CASE day[a] <= first /\ context = <<>>
  <2>1. known = Run(a, n)
    BY <1>12, <1>16, <1>17, ConcatEmptySeq
  <2>2. QED
    BY <1>16, <1>17, <2>1
<1>18. CASE ~(day[a] <= first /\ context = <<>>)
  <2>1. PICK m \in 0..pages :
          /\ m = 0 => context = <<>>
          /\ m > 0 => /\ context = Run(Low(day, m), Len(day) - Page)
                      /\ Low(day, m) \in 1..(Len(day) - Page) /\ Page < Len(day)
          /\ m = pages \/ (m + 1) * Page >= Len(day) \/ (m > 0 /\ day[Low(day, m)] <= first)
    BY <1>11, <1>18 DEF ContextReaches
  <2>2. ~(day[a] <= first)
    BY <1>11, <1>18 DEF ContextReaches
  <2> DEFINE x == m * Page
             lo == Low(day, m)
  <2>3. m \in Nat /\ x \in Nat
    BY <1>2, <1>8, ProductsAscend
  <2>4. (m + 1) * Page = x + Page
    <3> DEFINE j == m + 1
    <3>1. j \in Int /\ j - 1 = m /\ Page \in Int
      BY <1>2, <2>3
    <3> HIDE DEF j
    <3>2. j * Page = (j - 1) * Page + Page
      BY <3>1, NextProduct
    <3>3. QED
      BY <3>1, <3>2 DEF j
  <2>5. m = pages => n - first <= x
    BY <1>8
  <2>6. lo = From(n, x + Page)
    BY <1>15 DEF Low
  <2> HIDE DEF x, lo
  <2>7. n > q.count /\ a = n - q.count + 1 /\ a > first
    BY <1>13, <1>14, <2>2
  <2>8. m # 0
    <3> SUFFICES ASSUME m = 0 PROVE FALSE
      OBVIOUS
    <3>1. x = 0
      BY <1>2 DEF x
    <3>2. CASE m = pages
      BY <1>13, <1>14, <2>5, <2>7, <3>1, <3>2
    <3>3. CASE x + Page >= n
      BY <1>2, <1>14, <2>7, <3>1, <3>3
    <3>4. m = pages \/ x + Page >= n
      <4>1. ~(m > 0)
        OBVIOUS
      <4>2. m = pages \/ (m + 1) * Page >= n
        BY <1>15, <2>1, <4>1
      <4>3. QED
        BY <2>4, <4>2
    <3>5. QED
      BY <3>2, <3>3, <3>4
  <2>9. context = Run(lo, n - Page) /\ lo \in 1..(n - Page) /\ Page < n
    <3>1. m > 0
      BY <2>3, <2>8
    <3>2. context = Run(Low(day, m), Len(day) - Page) /\ Low(day, m) \in 1..(Len(day) - Page) /\ Page < Len(day)
      BY <2>1, <3>1
    <3>3. QED
      BY <1>15, <3>2 DEF lo
  <2>10. context \in Seq(Nat) /\ Len(context) > 0 /\ context[1] = lo
    <3> DEFINE e == n - Page
    <3>1. lo \in Nat /\ e \in Nat /\ lo <= e + 1 /\ 1 \in 1..(e - lo + 1) /\ lo + 1 - 1 = lo /\ e - lo + 1 > 0
      BY <1>2, <1>14, <2>9
    <3> HIDE DEF e
    <3>2. Run(lo, e) \in Seq(Nat) /\ Len(Run(lo, e)) = e - lo + 1 /\ Run(lo, e)[1] = lo + 1 - 1
      BY <3>1, RunHas
    <3>3. QED
      BY <2>9, <3>1, <3>2 DEF e
  <2>11. known[1] = lo
    <3> DEFINE t == Run(a, n)
    <3>1. t \in Seq(Nat) /\ Len(t) \in Nat /\ Len(context) \in Nat
      BY <1>16, <2>10, LenProperties
    <3> HIDE DEF t
    <3>2. 1 \in 1..(Len(context) + Len(t)) /\ 1 <= Len(context)
      BY <2>10, <3>1
    <3>3. (context \o t)[1] = context[1]
      BY <2>10, <3>1, <3>2, ConcatProperties
    <3>4. QED
      BY <1>12, <2>10, <3>3 DEF t
  <2>12. day[lo] = lo
    <3>1. lo \in 1..n
      BY <1>2, <1>14, <2>9
    <3>2. QED
      BY <1>6, <3>1
  <2>13. CASE m = pages
    <3>1. n - first <= x
      BY <2>5, <2>13
    <3>2. lo <= first
      BY <1>2, <1>14, <2>3, <2>6, <3>1 DEF From
    <3>3. QED
      BY <2>11, <2>12, <3>2
  <2>14. CASE x + Page >= n
    <3>1. lo = 1
      BY <1>2, <1>14, <2>3, <2>6, <2>14 DEF From
    <3>2. QED
      BY <1>14, <2>11, <2>12, <3>1
  <2>15. CASE day[lo] <= first
    BY <2>11, <2>15
  <2>16. QED
    BY <1>15, <2>1, <2>4, <2>13, <2>14, <2>15 DEF lo
<1>19. QED
  BY <1>17, <1>18

\* Adjusted bars are multiplied by the factors of the whole history, where enough of it is
\* fetched: forward always, backward if the context has no gap; the factors listed are those
\* of the newest bar; and the detected tier reaches the first event (adjust_security_bars,
\* fetch_context_bars, calc_factors, auto_detect_tier), for histories and events of any length.
THEOREM AdjustmentIsRight == Inputs => []AdjustmentIsExact
<1>1. Begin => AdjustmentIsExact
  BY DEF Begin, AdjustmentIsExact
<1>2. AdjustmentIsExact /\ [OneInput]_job => AdjustmentIsExact'
  <2> SUFFICES ASSUME AdjustmentIsExact, [OneInput]_job PROVE AdjustmentIsExact'
    OBVIOUS
  <2>1. CASE UNCHANGED job
    BY <2>1 DEF AdjustmentIsExact
  <2>2. CASE OneInput
    <3>1. ASSUME NEW c \in Calls, job' = [job |-> "adjust", client |-> c.client, q |-> c.q] PROVE AdjustmentIsExact'
      <4>1. c.client \in {"sync", "async", "direct"} /\ c.q \in AnyCall /\ Ascending(c.q.day)
        BY InputsAssumption
      <4>2. Adj!AdjustmentExact(c.client, c.q)
        BY <4>1, ForwardIsExact, BackwardIsExact, FactorsDoAgree, DetectedTierDoesReach DEF Adj!AdjustmentExact
      <4>3. QED
        BY <3>1, <4>2 DEF AdjustmentIsExact
    <3>2. CASE job'.job # "adjust"
      BY <3>2 DEF AdjustmentIsExact
    <3>3. QED
      BY <2>2, <3>1, <3>2, JobsAreInputs
  <2>3. QED
    BY <2>1, <2>2
<1>3. QED
  BY <1>1, <1>2, PTL DEF Inputs

-----------------------------------------------------------------------------
(* Requests *)

\* The bytes of a packet add up field by field.
LEMMA SizeSteps ==
  ASSUME NEW fields, Len(fields) \in Nat, \A i \in 1..Len(fields) : fields[i].width \in Nat
  PROVE  \E g : g[0] = 0 /\ (\A i \in 1..Len(fields) : g[i] = g[i - 1] + fields[i].width) /\ Req!Size(fields) = g[Len(fields)]
<1> DEFINE n == Len(fields)
           w(i) == fields[i].width
           Steps(k) == \E f \in [0..k -> Nat] : f[0] = 0 /\ \A i \in 1..k : f[i] = f[i - 1] + w(i)
           T == {k \in 0..n : ~Steps(k)}
           Adds(g) == g = [i \in 0..n |-> IF i = 0 THEN 0 ELSE g[i - 1] + w(i)]
           sum == CHOOSE g : Adds(g)
<1>1. n \in Nat /\ \A i \in 1..n : w(i) \in Nat
  OBVIOUS
<1>2. Req!Size(fields) = sum[n]
  BY DEF Req!Size
<1> HIDE DEF n, w
<1>3. Steps(0)
  <2> DEFINE f == [i \in 0..0 |-> 0]
  <2>1. f \in [0..0 -> Nat] /\ f[0] = 0 /\ \A i \in 1..0 : FALSE
    OBVIOUS
  <2> HIDE DEF f
  <2>2. QED
    BY <2>1
<1>4. T = {}
  <2> SUFFICES ASSUME T # {} PROVE FALSE
    OBVIOUS
  <2> HIDE DEF Steps
  <2>1. PICK x \in T : \A y \in T : x <= y
    <3>1. T \subseteq Nat
      BY <1>1
    <3> HIDE DEF T
    <3> QED BY <3>1, LeastNat
  <2>2. x \in 1..n /\ x - 1 \in 0..n /\ ~Steps(x) /\ Steps(x - 1)
    <3>1. x \in 0..n /\ ~Steps(x) /\ \A y \in 0..n : ~Steps(y) => x <= y
      BY <2>1
    <3>2. x # 0
      BY <1>3, <3>1
    <3>3. x - 1 \in 0..n /\ x \in 1..n
      BY <1>1, <3>1, <3>2
    <3>4. QED
      BY <3>1, <3>3
  <2>3. PICK f \in [0..(x - 1) -> Nat] : f[0] = 0 /\ \A i \in 1..(x - 1) : f[i] = f[i - 1] + w(i)
    BY <2>2 DEF Steps
  <2> DEFINE g == [i \in 0..x |-> IF i < x THEN f[i] ELSE f[x - 1] + w(x)]
  <2>4. g \in [0..x -> Nat] /\ g[0] = 0
    BY <1>1, <2>2, <2>3
  <2>5. ASSUME NEW i \in 1..x PROVE g[i] = g[i - 1] + w(i)
    <3>1. i \in 0..x /\ i - 1 \in 0..x /\ i - 1 < x /\ g[i - 1] = f[i - 1]
      BY <1>1, <2>2
    <3>2. CASE i = x
      BY <3>1, <3>2
    <3>3. CASE i # x
      <4>1. i < x /\ i \in 1..(x - 1) /\ g[i] = f[i]
        BY <1>1, <2>2, <3>1, <3>3
      <4>2. QED
        BY <2>3, <3>1, <4>1
    <3>4. QED
      BY <3>2, <3>3
  <2>6. Steps(x)
    <3> HIDE DEF g
    <3> QED BY <2>4, <2>5 DEF Steps
  <2>7. QED
    BY <2>2, <2>6
<1>5. PICK f \in [0..n -> Nat] : f[0] = 0 /\ \A i \in 1..n : f[i] = f[i - 1] + w(i)
  <2>1. Steps(n)
    <3> HIDE DEF Steps
    <3> QED BY <1>1, <1>4
  <2>2. QED
    BY <2>1
<1>6. Adds(f)
  <2>1. f = [i \in 0..n |-> f[i]]
    OBVIOUS
  <2>2. ASSUME NEW i \in 0..n PROVE f[i] = IF i = 0 THEN 0 ELSE f[i - 1] + w(i)
    BY <1>1, <1>5
  <2>3. QED
    BY <2>1, <2>2
<1>7. Adds(sum)
  <2> HIDE DEF Adds
  <2> QED BY <1>6
<1> HIDE DEF sum
<1>8. sum[0] = 0 /\ \A i \in 1..n : sum[i] = sum[i - 1] + w(i)
  <2>1. \A i \in 0..n : sum[i] = IF i = 0 THEN 0 ELSE sum[i - 1] + w(i)
    BY <1>7
  <2> HIDE DEF Adds
  <2>2. 0 \in 0..n /\ \A i \in 1..n : i \in 0..n /\ i # 0
    BY <1>1
  <2>3. QED
    BY <2>1, <2>2
<1>9. QED
  BY <1>2, <1>8 DEF n, w

\* What the server finds in a packet of the declared length.
LEMMA AskedIs ==
  ASSUME NEW p, NEW cmd, NEW at, p.fields[1].value = cmd, Req!Size(p.fields) = p.declared,
         Req!Positions[cmd] = at
  PROVE  LET q == Req!Asked(p)
         IN q.cmd = cmd /\ DOMAIN q.args = DOMAIN at /\ \A x \in DOMAIN at : q.args[x] = p.fields[at[x]].value
<1> DEFINE args == [x \in DOMAIN at |-> p.fields[at[x]].value]
<1>1. Req!Asked(p) = [cmd |-> cmd, args |-> args]
  BY DEF Req!Asked
<1>2. DOMAIN args = DOMAIN at /\ \A x \in DOMAIN at : args[x] = p.fields[at[x]].value
  OBVIOUS
<1> HIDE DEF args
<1>3. QED
  BY <1>1, <1>2

\* A well-formed code is sent as it is.
LEMMA CodeAsItIs ==
  ASSUME NEW code \in AnyCode, Req!Strict(code)
  PROVE  Req!CodeBytes(code) = code
<1>1. Len(code) = 6 /\ DOMAIN code = 1..6 /\ code = [i \in 1..6 |-> code[i]]
  BY DEF Req!Strict, AnyCode
<1>2. QED
  BY <1>1 DEF Req!CodeBytes

\* What the server is asked for is what the call was given, packet by packet.
LEMMA BarsAsked ==
  ASSUME NEW a \in AnyArguments, Req!Strict(a.code), a.start < Width
  PROVE  LET q == Req!Asked(Req!BarsPacket(a))
         IN /\ q.cmd = "bars"
            /\ DOMAIN q.args = {"market", "code", "category", "start", "count"}
            /\ \A x \in DOMAIN q.args : q.args[x] = a[x]
<1> DEFINE p == Req!BarsPacket(a)
           at == [market |-> 2, code |-> 3, category |-> 4, start |-> 6, count |-> 7]
           q == Req!Asked(p)
<1>1. Req!CodeBytes(a.code) = a.code /\ a.start % Width = a.start
  BY CodeAsItIs, ParametersAssumption DEF AnyArguments
<1>2. /\ Len(p.fields) = 10 /\ p.declared = 28
      /\ p.fields[1] = Req!Field(2, "bars") /\ p.fields[2] = Req!Field(2, a.market)
      /\ p.fields[3] = Req!Field(6, a.code) /\ p.fields[4] = Req!Field(2, a.category)
      /\ p.fields[5] = Req!Field(2, 1) /\ p.fields[6] = Req!Field(2, a.start)
      /\ p.fields[7] = Req!Field(2, a.count) /\ p.fields[8] = Req!Field(4, 0)
      /\ p.fields[9] = Req!Field(4, 0) /\ p.fields[10] = Req!Field(2, 0)
  BY <1>1 DEF Req!BarsPacket, Req!Packet
<1> HIDE DEF p
<1>3. p.fields[1].width = 2 /\ p.fields[2].width = 2 /\ p.fields[3].width = 6 /\ p.fields[4].width = 2 /\ p.fields[5].width = 2
      /\ p.fields[6].width = 2 /\ p.fields[7].width = 2 /\ p.fields[8].width = 4 /\ p.fields[9].width = 4 /\ p.fields[10].width = 2
  BY <1>2 DEF Req!Field
<1>4. p.fields[1].value = "bars" /\ p.fields[2].value = a.market /\ p.fields[3].value = a.code /\ p.fields[4].value = a.category /\ p.fields[6].value = a.start /\ p.fields[7].value = a.count
  BY <1>2 DEF Req!Field
<1>5. Req!Size(p.fields) = 28
  <2>1. Len(p.fields) \in Nat /\ \A i \in 1..Len(p.fields) : p.fields[i].width \in Nat
    BY <1>2, <1>3
  <2>2. PICK g : g[0] = 0 /\ (\A i \in 1..Len(p.fields) : g[i] = g[i - 1] + p.fields[i].width) /\ Req!Size(p.fields) = g[Len(p.fields)]
    BY <2>1, SizeSteps
  <2>3. g[1] = g[0] + 2 /\ g[2] = g[1] + 2 /\ g[3] = g[2] + 6 /\ g[4] = g[3] + 2 /\ g[5] = g[4] + 2
        /\ g[6] = g[5] + 2 /\ g[7] = g[6] + 2 /\ g[8] = g[7] + 4 /\ g[9] = g[8] + 4 /\ g[10] = g[9] + 2
    BY <1>2, <1>3, <2>2
  <2>4. g[10] = 28
    BY <2>2, <2>3
  <2>5. QED
    BY <1>2, <2>2, <2>4
<1>6. Req!Positions["bars"] = at
  BY DEF Req!Positions
<1>7. /\ at["market"] = 2 /\ at["code"] = 3 /\ at["category"] = 4 /\ at["start"] = 6 /\ at["count"] = 7
      /\ DOMAIN at = {"market", "code", "category", "start", "count"}
  OBVIOUS
<1> HIDE DEF at
<1>8. Req!Size(p.fields) = p.declared /\ p.fields[1].value = "bars"
  BY <1>2, <1>4, <1>5
<1>9. q.cmd = "bars" /\ DOMAIN q.args = DOMAIN at /\ \A x \in DOMAIN at : q.args[x] = p.fields[at[x]].value
  BY <1>6, <1>8, AskedIs
<1> HIDE DEF q
<1>10. \A x \in DOMAIN q.args : q.args[x] = a[x]
  BY <1>4, <1>7, <1>9
<1>11. QED
  BY <1>7, <1>9, <1>10 DEF p, q

LEMMA HistoryAsked ==
  ASSUME NEW a \in AnyArguments, Req!Strict(a.code)
  PROVE  LET q == Req!Asked(Req!HistoryPacket("history_minutes", a))
         IN /\ q.cmd = "history_minutes"
            /\ DOMAIN q.args = {"date", "market", "code"}
            /\ \A x \in DOMAIN q.args : q.args[x] = a[x]
<1> DEFINE p == Req!HistoryPacket("history_minutes", a)
           at == [date |-> 2, market |-> 3, code |-> 4]
           q == Req!Asked(p)
<1>1. Req!CodeBytes(a.code) = a.code
  BY CodeAsItIs DEF AnyArguments
<1>2. /\ Len(p.fields) = 4 /\ p.declared = 13
      /\ p.fields[1] = Req!Field(2, "history_minutes") /\ p.fields[2] = Req!Field(4, a.date)
      /\ p.fields[3] = Req!Field(1, a.market) /\ p.fields[4] = Req!Field(6, a.code)
  BY <1>1 DEF Req!HistoryPacket, Req!Packet
<1> HIDE DEF p
<1>3. p.fields[1].width = 2 /\ p.fields[2].width = 4 /\ p.fields[3].width = 1 /\ p.fields[4].width = 6
  BY <1>2 DEF Req!Field
<1>4. p.fields[1].value = "history_minutes" /\ p.fields[2].value = a.date /\ p.fields[3].value = a.market /\ p.fields[4].value = a.code
  BY <1>2 DEF Req!Field
<1>5. Req!Size(p.fields) = 13
  <2>1. Len(p.fields) \in Nat /\ \A i \in 1..Len(p.fields) : p.fields[i].width \in Nat
    BY <1>2, <1>3
  <2>2. PICK g : g[0] = 0 /\ (\A i \in 1..Len(p.fields) : g[i] = g[i - 1] + p.fields[i].width) /\ Req!Size(p.fields) = g[Len(p.fields)]
    BY <2>1, SizeSteps
  <2>3. g[1] = g[0] + 2 /\ g[2] = g[1] + 4 /\ g[3] = g[2] + 1 /\ g[4] = g[3] + 6
    BY <1>2, <1>3, <2>2
  <2>4. g[4] = 13
    BY <2>2, <2>3
  <2>5. QED
    BY <1>2, <2>2, <2>4
<1>6. Req!Positions["history_minutes"] = at
  BY DEF Req!Positions
<1>7. /\ at["date"] = 2 /\ at["market"] = 3 /\ at["code"] = 4
      /\ DOMAIN at = {"date", "market", "code"}
  OBVIOUS
<1> HIDE DEF at
<1>8. Req!Size(p.fields) = p.declared /\ p.fields[1].value = "history_minutes"
  BY <1>2, <1>4, <1>5
<1>9. q.cmd = "history_minutes" /\ DOMAIN q.args = DOMAIN at /\ \A x \in DOMAIN at : q.args[x] = p.fields[at[x]].value
  BY <1>6, <1>8, AskedIs
<1> HIDE DEF q
<1>10. \A x \in DOMAIN q.args : q.args[x] = a[x]
  BY <1>4, <1>7, <1>9
<1>11. QED
  BY <1>7, <1>9, <1>10 DEF p, q

LEMMA TicksAsked ==
  ASSUME NEW a \in AnyArguments, Req!Strict(a.code)
  PROVE  LET q == Req!Asked(Req!TicksPacket("ticks", a))
         IN /\ q.cmd = "ticks"
            /\ DOMAIN q.args = {"market", "code", "start", "count"}
            /\ \A x \in DOMAIN q.args : q.args[x] = a[x]
<1> DEFINE p == Req!TicksPacket("ticks", a)
           at == [market |-> 2, code |-> 3, start |-> 4, count |-> 5]
           q == Req!Asked(p)
<1>1. Req!CodeBytes(a.code) = a.code
  BY CodeAsItIs DEF AnyArguments
<1>2. /\ Len(p.fields) = 5 /\ p.declared = 14
      /\ p.fields[1] = Req!Field(2, "ticks") /\ p.fields[2] = Req!Field(2, a.market)
      /\ p.fields[3] = Req!Field(6, a.code) /\ p.fields[4] = Req!Field(2, a.start)
      /\ p.fields[5] = Req!Field(2, a.count)
  BY <1>1 DEF Req!TicksPacket, Req!Packet
<1> HIDE DEF p
<1>3. p.fields[1].width = 2 /\ p.fields[2].width = 2 /\ p.fields[3].width = 6 /\ p.fields[4].width = 2 /\ p.fields[5].width = 2
  BY <1>2 DEF Req!Field
<1>4. p.fields[1].value = "ticks" /\ p.fields[2].value = a.market /\ p.fields[3].value = a.code /\ p.fields[4].value = a.start /\ p.fields[5].value = a.count
  BY <1>2 DEF Req!Field
<1>5. Req!Size(p.fields) = 14
  <2>1. Len(p.fields) \in Nat /\ \A i \in 1..Len(p.fields) : p.fields[i].width \in Nat
    BY <1>2, <1>3
  <2>2. PICK g : g[0] = 0 /\ (\A i \in 1..Len(p.fields) : g[i] = g[i - 1] + p.fields[i].width) /\ Req!Size(p.fields) = g[Len(p.fields)]
    BY <2>1, SizeSteps
  <2>3. g[1] = g[0] + 2 /\ g[2] = g[1] + 2 /\ g[3] = g[2] + 6 /\ g[4] = g[3] + 2 /\ g[5] = g[4] + 2
    BY <1>2, <1>3, <2>2
  <2>4. g[5] = 14
    BY <2>2, <2>3
  <2>5. QED
    BY <1>2, <2>2, <2>4
<1>6. Req!Positions["ticks"] = at
  BY DEF Req!Positions
<1>7. /\ at["market"] = 2 /\ at["code"] = 3 /\ at["start"] = 4 /\ at["count"] = 5
      /\ DOMAIN at = {"market", "code", "start", "count"}
  OBVIOUS
<1> HIDE DEF at
<1>8. Req!Size(p.fields) = p.declared /\ p.fields[1].value = "ticks"
  BY <1>2, <1>4, <1>5
<1>9. q.cmd = "ticks" /\ DOMAIN q.args = DOMAIN at /\ \A x \in DOMAIN at : q.args[x] = p.fields[at[x]].value
  BY <1>6, <1>8, AskedIs
<1> HIDE DEF q
<1>10. \A x \in DOMAIN q.args : q.args[x] = a[x]
  BY <1>4, <1>7, <1>9
<1>11. QED
  BY <1>7, <1>9, <1>10 DEF p, q

LEMMA HistoryTicksAsked ==
  ASSUME NEW a \in AnyArguments, Req!Strict(a.code)
  PROVE  LET q == Req!Asked(Req!HistoryTicksPacket("history_ticks", a))
         IN /\ q.cmd = "history_ticks"
            /\ DOMAIN q.args = {"date", "market", "code", "start", "count"}
            /\ \A x \in DOMAIN q.args : q.args[x] = a[x]
<1> DEFINE p == Req!HistoryTicksPacket("history_ticks", a)
           at == [date |-> 2, market |-> 3, code |-> 4, start |-> 5, count |-> 6]
           q == Req!Asked(p)
<1>1. Req!CodeBytes(a.code) = a.code
  BY CodeAsItIs DEF AnyArguments
<1>2. /\ Len(p.fields) = 6 /\ p.declared = 18
      /\ p.fields[1] = Req!Field(2, "history_ticks") /\ p.fields[2] = Req!Field(4, a.date)
      /\ p.fields[3] = Req!Field(2, a.market) /\ p.fields[4] = Req!Field(6, a.code)
      /\ p.fields[5] = Req!Field(2, a.start) /\ p.fields[6] = Req!Field(2, a.count)
  BY <1>1 DEF Req!HistoryTicksPacket, Req!Packet
<1> HIDE DEF p
<1>3. p.fields[1].width = 2 /\ p.fields[2].width = 4 /\ p.fields[3].width = 2 /\ p.fields[4].width = 6 /\ p.fields[5].width = 2
      /\ p.fields[6].width = 2
  BY <1>2 DEF Req!Field
<1>4. p.fields[1].value = "history_ticks" /\ p.fields[2].value = a.date /\ p.fields[3].value = a.market /\ p.fields[4].value = a.code /\ p.fields[5].value = a.start /\ p.fields[6].value = a.count
  BY <1>2 DEF Req!Field
<1>5. Req!Size(p.fields) = 18
  <2>1. Len(p.fields) \in Nat /\ \A i \in 1..Len(p.fields) : p.fields[i].width \in Nat
    BY <1>2, <1>3
  <2>2. PICK g : g[0] = 0 /\ (\A i \in 1..Len(p.fields) : g[i] = g[i - 1] + p.fields[i].width) /\ Req!Size(p.fields) = g[Len(p.fields)]
    BY <2>1, SizeSteps
  <2>3. g[1] = g[0] + 2 /\ g[2] = g[1] + 4 /\ g[3] = g[2] + 2 /\ g[4] = g[3] + 6 /\ g[5] = g[4] + 2
        /\ g[6] = g[5] + 2
    BY <1>2, <1>3, <2>2
  <2>4. g[6] = 18
    BY <2>2, <2>3
  <2>5. QED
    BY <1>2, <2>2, <2>4
<1>6. Req!Positions["history_ticks"] = at
  BY DEF Req!Positions
<1>7. /\ at["date"] = 2 /\ at["market"] = 3 /\ at["code"] = 4 /\ at["start"] = 5 /\ at["count"] = 6
      /\ DOMAIN at = {"date", "market", "code", "start", "count"}
  OBVIOUS
<1> HIDE DEF at
<1>8. Req!Size(p.fields) = p.declared /\ p.fields[1].value = "history_ticks"
  BY <1>2, <1>4, <1>5
<1>9. q.cmd = "history_ticks" /\ DOMAIN q.args = DOMAIN at /\ \A x \in DOMAIN at : q.args[x] = p.fields[at[x]].value
  BY <1>6, <1>8, AskedIs
<1> HIDE DEF q
<1>10. \A x \in DOMAIN q.args : q.args[x] = a[x]
  BY <1>4, <1>7, <1>9
<1>11. QED
  BY <1>7, <1>9, <1>10 DEF p, q

LEMMA OneStockAsked ==
  ASSUME NEW a \in AnyArguments, NEW op \in {"finance", "xdxr"}, Req!Strict(a.code)
  PROVE  LET q == Req!Asked(Req!OneStockPacket(op, a))
         IN /\ q.cmd = op
            /\ DOMAIN q.args = {"market", "code"}
            /\ \A x \in DOMAIN q.args : q.args[x] = a[x]
<1> DEFINE p == Req!OneStockPacket(op, a)
           at == [market |-> 3, code |-> 4]
           q == Req!Asked(p)
<1>1. Req!CodeBytes(a.code) = a.code
  BY CodeAsItIs DEF AnyArguments
<1>2. /\ Len(p.fields) = 4 /\ p.declared = 11
      /\ p.fields[1] = Req!Field(2, op) /\ p.fields[2] = Req!Field(2, 1)
      /\ p.fields[3] = Req!Field(1, a.market) /\ p.fields[4] = Req!Field(6, a.code)
  BY <1>1 DEF Req!OneStockPacket, Req!Packet
<1> HIDE DEF p
<1>3. p.fields[1].width = 2 /\ p.fields[2].width = 2 /\ p.fields[3].width = 1 /\ p.fields[4].width = 6
  BY <1>2 DEF Req!Field
<1>4. p.fields[1].value = op /\ p.fields[3].value = a.market /\ p.fields[4].value = a.code
  BY <1>2 DEF Req!Field
<1>5. Req!Size(p.fields) = 11
  <2>1. Len(p.fields) \in Nat /\ \A i \in 1..Len(p.fields) : p.fields[i].width \in Nat
    BY <1>2, <1>3
  <2>2. PICK g : g[0] = 0 /\ (\A i \in 1..Len(p.fields) : g[i] = g[i - 1] + p.fields[i].width) /\ Req!Size(p.fields) = g[Len(p.fields)]
    BY <2>1, SizeSteps
  <2>3. g[1] = g[0] + 2 /\ g[2] = g[1] + 2 /\ g[3] = g[2] + 1 /\ g[4] = g[3] + 6
    BY <1>2, <1>3, <2>2
  <2>4. g[4] = 11
    BY <2>2, <2>3
  <2>5. QED
    BY <1>2, <2>2, <2>4
<1>6. Req!Positions[op] = at
  BY DEF Req!Positions
<1>7. /\ at["market"] = 3 /\ at["code"] = 4
      /\ DOMAIN at = {"market", "code"}
  OBVIOUS
<1> HIDE DEF at
<1>8. Req!Size(p.fields) = p.declared /\ p.fields[1].value = op
  BY <1>2, <1>4, <1>5
<1>9. q.cmd = op /\ DOMAIN q.args = DOMAIN at /\ \A x \in DOMAIN at : q.args[x] = p.fields[at[x]].value
  BY <1>6, <1>8, AskedIs
<1> HIDE DEF q
<1>10. \A x \in DOMAIN q.args : q.args[x] = a[x]
  BY <1>4, <1>7, <1>9
<1>11. QED
  BY <1>7, <1>9, <1>10 DEF p, q

LEMMA ListAsked ==
  ASSUME NEW a \in AnyArguments
  PROVE  LET q == Req!Asked(Req!ListPacket("list", a))
         IN /\ q.cmd = "list"
            /\ DOMAIN q.args = {"market", "start"}
            /\ \A x \in DOMAIN q.args : q.args[x] = a[x]
<1> DEFINE p == Req!ListPacket("list", a)
           at == [market |-> 2, start |-> 3]
           q == Req!Asked(p)
<1>1. /\ Len(p.fields) = 3 /\ p.declared = 6
      /\ p.fields[1] = Req!Field(2, "list") /\ p.fields[2] = Req!Field(2, a.market)
      /\ p.fields[3] = Req!Field(2, a.start)
  BY DEF Req!ListPacket, Req!Packet
<1> HIDE DEF p
<1>2. p.fields[1].width = 2 /\ p.fields[2].width = 2 /\ p.fields[3].width = 2
  BY <1>1 DEF Req!Field
<1>3. p.fields[1].value = "list" /\ p.fields[2].value = a.market /\ p.fields[3].value = a.start
  BY <1>1 DEF Req!Field
<1>4. Req!Size(p.fields) = 6
  <2>1. Len(p.fields) \in Nat /\ \A i \in 1..Len(p.fields) : p.fields[i].width \in Nat
    BY <1>1, <1>2
  <2>2. PICK g : g[0] = 0 /\ (\A i \in 1..Len(p.fields) : g[i] = g[i - 1] + p.fields[i].width) /\ Req!Size(p.fields) = g[Len(p.fields)]
    BY <2>1, SizeSteps
  <2>3. g[1] = g[0] + 2 /\ g[2] = g[1] + 2 /\ g[3] = g[2] + 2
    BY <1>1, <1>2, <2>2
  <2>4. g[3] = 6
    BY <2>2, <2>3
  <2>5. QED
    BY <1>1, <2>2, <2>4
<1>5. Req!Positions["list"] = at
  BY DEF Req!Positions
<1>6. /\ at["market"] = 2 /\ at["start"] = 3
      /\ DOMAIN at = {"market", "start"}
  OBVIOUS
<1> HIDE DEF at
<1>7. Req!Size(p.fields) = p.declared /\ p.fields[1].value = "list"
  BY <1>1, <1>3, <1>4
<1>8. q.cmd = "list" /\ DOMAIN q.args = DOMAIN at /\ \A x \in DOMAIN at : q.args[x] = p.fields[at[x]].value
  BY <1>5, <1>7, AskedIs
<1> HIDE DEF q
<1>9. \A x \in DOMAIN q.args : q.args[x] = a[x]
  BY <1>3, <1>6, <1>8
<1>10. QED
  BY <1>6, <1>8, <1>9 DEF p, q

LEMMA CountAsked ==
  ASSUME NEW a \in AnyArguments
  PROVE  LET q == Req!Asked(Req!CountPacket("count", a))
         IN /\ q.cmd = "count"
            /\ DOMAIN q.args = {"market"}
            /\ \A x \in DOMAIN q.args : q.args[x] = a[x]
<1> DEFINE p == Req!CountPacket("count", a)
           at == [market |-> 2]
           q == Req!Asked(p)
<1>1. /\ Len(p.fields) = 3 /\ p.declared = 8
      /\ p.fields[1] = Req!Field(2, "count") /\ p.fields[2] = Req!Field(2, a.market)
      /\ p.fields[3] = Req!Field(4, 0)
  BY DEF Req!CountPacket, Req!Packet
<1> HIDE DEF p
<1>2. p.fields[1].width = 2 /\ p.fields[2].width = 2 /\ p.fields[3].width = 4
  BY <1>1 DEF Req!Field
<1>3. p.fields[1].value = "count" /\ p.fields[2].value = a.market
  BY <1>1 DEF Req!Field
<1>4. Req!Size(p.fields) = 8
  <2>1. Len(p.fields) \in Nat /\ \A i \in 1..Len(p.fields) : p.fields[i].width \in Nat
    BY <1>1, <1>2
  <2>2. PICK g : g[0] = 0 /\ (\A i \in 1..Len(p.fields) : g[i] = g[i - 1] + p.fields[i].width) /\ Req!Size(p.fields) = g[Len(p.fields)]
    BY <2>1, SizeSteps
  <2>3. g[1] = g[0] + 2 /\ g[2] = g[1] + 2 /\ g[3] = g[2] + 4
    BY <1>1, <1>2, <2>2
  <2>4. g[3] = 8
    BY <2>2, <2>3
  <2>5. QED
    BY <1>1, <2>2, <2>4
<1>5. Req!Positions["count"] = at
  BY DEF Req!Positions
<1>6. /\ at["market"] = 2
      /\ DOMAIN at = {"market"}
  OBVIOUS
<1> HIDE DEF at
<1>7. Req!Size(p.fields) = p.declared /\ p.fields[1].value = "count"
  BY <1>1, <1>3, <1>4
<1>8. q.cmd = "count" /\ DOMAIN q.args = DOMAIN at /\ \A x \in DOMAIN at : q.args[x] = p.fields[at[x]].value
  BY <1>5, <1>7, AskedIs
<1> HIDE DEF q
<1>9. \A x \in DOMAIN q.args : q.args[x] = a[x]
  BY <1>3, <1>6, <1>8
<1>10. QED
  BY <1>6, <1>8, <1>9 DEF p, q

LEMMA MetaAsked ==
  ASSUME NEW a \in AnyArguments
  PROVE  LET q == Req!Asked(Req!MetaPacket("meta", a))
         IN /\ q.cmd = "meta"
            /\ DOMAIN q.args = {"file"}
            /\ \A x \in DOMAIN q.args : q.args[x] = a[x]
<1> DEFINE p == Req!MetaPacket("meta", a)
           at == [file |-> 2]
           q == Req!Asked(p)
<1>1. /\ Len(p.fields) = 2 /\ p.declared = 42
      /\ p.fields[1] = Req!Field(2, "meta") /\ p.fields[2] = Req!Field(40, a.file)
  BY DEF Req!MetaPacket, Req!Packet
<1> HIDE DEF p
<1>2. p.fields[1].width = 2 /\ p.fields[2].width = 40
  BY <1>1 DEF Req!Field
<1>3. p.fields[1].value = "meta" /\ p.fields[2].value = a.file
  BY <1>1 DEF Req!Field
<1>4. Req!Size(p.fields) = 42
  <2>1. Len(p.fields) \in Nat /\ \A i \in 1..Len(p.fields) : p.fields[i].width \in Nat
    BY <1>1, <1>2, SMTT(30)
  <2>2. PICK g : g[0] = 0 /\ (\A i \in 1..Len(p.fields) : g[i] = g[i - 1] + p.fields[i].width) /\ Req!Size(p.fields) = g[Len(p.fields)]
    BY <2>1, SizeSteps
  <2>3. g[1] = g[0] + 2 /\ g[2] = g[1] + 40
    BY <1>1, <1>2, <2>2
  <2>4. g[2] = 42
    BY <2>2, <2>3
  <2>5. QED
    BY <1>1, <2>2, <2>4
<1>5. Req!Positions["meta"] = at
  BY DEF Req!Positions
<1>6. /\ at["file"] = 2
      /\ DOMAIN at = {"file"}
  OBVIOUS
<1> HIDE DEF at
<1>7. Req!Size(p.fields) = p.declared /\ p.fields[1].value = "meta"
  BY <1>1, <1>3, <1>4
<1>8. q.cmd = "meta" /\ DOMAIN q.args = DOMAIN at /\ \A x \in DOMAIN at : q.args[x] = p.fields[at[x]].value
  BY <1>5, <1>7, AskedIs
<1> HIDE DEF q
<1>9. \A x \in DOMAIN q.args : q.args[x] = a[x]
  BY <1>3, <1>6, <1>8
<1>10. QED
  BY <1>6, <1>8, <1>9 DEF p, q

LEMMA BlockAsked ==
  ASSUME NEW a \in AnyArguments
  PROVE  LET q == Req!Asked(Req!BlockPacket("block", a))
         IN /\ q.cmd = "block"
            /\ DOMAIN q.args = {"start", "count", "file"}
            /\ \A x \in DOMAIN q.args : q.args[x] = a[x]
<1> DEFINE p == Req!BlockPacket("block", a)
           at == [start |-> 2, count |-> 3, file |-> 4]
           q == Req!Asked(p)
<1>1. /\ Len(p.fields) = 4 /\ p.declared = 110
      /\ p.fields[1] = Req!Field(2, "block") /\ p.fields[2] = Req!Field(4, a.start)
      /\ p.fields[3] = Req!Field(4, a.count) /\ p.fields[4] = Req!Field(100, a.file)
  BY DEF Req!BlockPacket, Req!Packet
<1> HIDE DEF p
<1>2. p.fields[1].width = 2 /\ p.fields[2].width = 4 /\ p.fields[3].width = 4 /\ p.fields[4].width = 100
  BY <1>1 DEF Req!Field
<1>3. p.fields[1].value = "block" /\ p.fields[2].value = a.start /\ p.fields[3].value = a.count /\ p.fields[4].value = a.file
  BY <1>1 DEF Req!Field
<1>4. Req!Size(p.fields) = 110
  <2>1. Len(p.fields) \in Nat /\ \A i \in 1..Len(p.fields) : p.fields[i].width \in Nat
    BY <1>1, <1>2
  <2>2. PICK g : g[0] = 0 /\ (\A i \in 1..Len(p.fields) : g[i] = g[i - 1] + p.fields[i].width) /\ Req!Size(p.fields) = g[Len(p.fields)]
    BY <2>1, SizeSteps
  <2>3. g[1] = g[0] + 2 /\ g[2] = g[1] + 4 /\ g[3] = g[2] + 4 /\ g[4] = g[3] + 100
    BY <1>1, <1>2, <2>2
  <2>4. g[4] = 110
    BY <2>2, <2>3
  <2>5. QED
    BY <1>1, <2>2, <2>4
<1>5. Req!Positions["block"] = at
  BY DEF Req!Positions
<1>6. /\ at["start"] = 2 /\ at["count"] = 3 /\ at["file"] = 4
      /\ DOMAIN at = {"start", "count", "file"}
  OBVIOUS
<1> HIDE DEF at
<1>7. Req!Size(p.fields) = p.declared /\ p.fields[1].value = "block"
  BY <1>1, <1>3, <1>4
<1>8. q.cmd = "block" /\ DOMAIN q.args = DOMAIN at /\ \A x \in DOMAIN at : q.args[x] = p.fields[at[x]].value
  BY <1>5, <1>7, AskedIs
<1> HIDE DEF q
<1>9. \A x \in DOMAIN q.args : q.args[x] = a[x]
  BY <1>3, <1>6, <1>8
<1>10. QED
  BY <1>6, <1>8, <1>9 DEF p, q

\* The answer to a request for K-lines goes to the parser of the layout it comes in.
LEMMA BarsParsed ==
  ASSUME NEW a \in AnyArguments, Req!Strict(a.code), a.start < Width, NEW op \in {"bars", "index"}
  PROVE  LET q == Req!Asked(Req!BarsPacket(a))
         IN /\ q.cmd # "garbled"
            /\ \A x \in DOMAIN q.args : q.args[x] = a[x]
            /\ Req!ParserOf(op, a) = Req!WrittenAs(q, op = "index")
<1> DEFINE q == Req!Asked(Req!BarsPacket(a))
<1>1. q.cmd = "bars" /\ \A x \in DOMAIN q.args : q.args[x] = a[x]
  BY BarsAsked
<1>2. q.args.category = a.category
  BY BarsAsked
<1> HIDE DEF q
<1>3. Req!ParserOf(op, a) = Req!WrittenAs(q, op = "index")
  BY <1>1, <1>2 DEF Req!ParserOf, Req!WrittenAs
<1>4. QED
  BY <1>1, <1>3 DEF q

\* Requests with one code, for the history of today where minutes are asked for.
LEMMA StockParsed ==
  ASSUME NEW a \in AnyArguments, Req!Strict(a.code), NEW op \in Req!StockOps
  PROVE  LET q == Req!Asked(Req!StockPacket(op, a))
             b == IF op = "minutes" THEN [a EXCEPT !.date = a.today] ELSE a
         IN /\ q.cmd # "garbled"
            /\ \A x \in DOMAIN q.args : q.args[x] = b[x]
            /\ Req!ParserOf(op, a) = Req!WrittenAs(q, FALSE)
<1> DEFINE q == Req!Asked(Req!StockPacket(op, a))
           b == IF op = "minutes" THEN [a EXCEPT !.date = a.today] ELSE a
           Said == q.cmd = Req!ParserOf(op, a) /\ \A x \in DOMAIN q.args : q.args[x] = b[x]
<1>1. op \in {"history_minutes", "minutes", "ticks", "history_ticks", "finance", "xdxr"}
  BY DEF Req!StockOps
<1>2. b \in AnyArguments /\ Req!Strict(b.code)
  BY DEF AnyArguments
<1>3. ASSUME op \in {"history_minutes", "minutes"} PROVE Said
  <2>1. Req!StockPacket(op, a) = Req!HistoryPacket("history_minutes", b)
    BY <1>3 DEF Req!StockPacket
  <2>2. Req!ParserOf(op, a) = "history_minutes"
    BY <1>3 DEF Req!ParserOf
  <2> HIDE DEF b
  <2>3. QED
    BY <1>2, <2>1, <2>2, HistoryAsked
<1>4. ASSUME op = "ticks" PROVE Said
  <2>1. Req!StockPacket(op, a) = Req!TicksPacket("ticks", b) /\ Req!ParserOf(op, a) = "ticks"
    BY <1>4 DEF Req!StockPacket, Req!ParserOf
  <2> HIDE DEF b
  <2>2. QED
    BY <1>2, <2>1, TicksAsked
<1>5. ASSUME op = "history_ticks" PROVE Said
  <2>1. Req!StockPacket(op, a) = Req!HistoryTicksPacket("history_ticks", b) /\ Req!ParserOf(op, a) = "history_ticks"
    BY <1>5 DEF Req!StockPacket, Req!ParserOf
  <2> HIDE DEF b
  <2>2. QED
    BY <1>2, <2>1, HistoryTicksAsked
<1>6. ASSUME op \in {"finance", "xdxr"} PROVE Said
  <2>1. Req!StockPacket(op, a) = Req!OneStockPacket(op, b) /\ Req!ParserOf(op, a) = op
    BY <1>6 DEF Req!StockPacket, Req!ParserOf
  <2> HIDE DEF b
  <2>2. QED
    BY <1>2, <1>6, <2>1, OneStockAsked
<1>7. Said
  BY <1>1, <1>3, <1>4, <1>5, <1>6
<1>8. Req!ParserOf(op, a) \in {"history_minutes", "ticks", "history_ticks", "finance", "xdxr"}
  BY <1>1 DEF Req!ParserOf
<1> HIDE DEF q, b
<1>9. q.cmd # "garbled" /\ Req!WrittenAs(q, FALSE) = q.cmd
  BY <1>7, <1>8 DEF Req!WrittenAs
<1>10. QED
  BY <1>7, <1>9 DEF q, b

\* A fund's code is no block's.
LEMMA FundNoBlock ==
  ASSUME NEW market \in Nat, NEW code \in AnyCode, Req!IsFund(market, code)
  PROVE  ~Req!IsBlockCode(code)
<1>1. code \in Seq(Int)
  BY CodeType
<1>2. \A p : Req!IsPrefix(p, code) <=> Fund!IsPrefix(p, code)
  BY DEF Req!IsPrefix, Fund!IsPrefix
<1>3. PICK x \in {1, 5}, y \in {0, 1, 5, 6} : Fund!IsPrefix(<<x, y>>, code)
  <2>1. PICK p \in {<<5, 0>>, <<5, 1>>, <<1, 5>>, <<1, 6>>} : Req!IsPrefix(p, code)
    BY DEF Req!IsFund, Req!Starts
  <2>2. \E x \in {1, 5}, y \in {0, 1, 5, 6} : p = <<x, y>>
    OBVIOUS
  <2>3. QED
    BY <1>2, <2>1, <2>2
<1>4. code[1] # 8
  <2>1. x \in Int /\ y \in Int /\ x # 8
    OBVIOUS
  <2>2. x = code[1]
    BY <1>1, <1>3, <2>1, PairsDiffer
  <2>3. QED
    BY <2>1, <2>2
<1>5. ~Req!IsPrefix(<<8, 8>>, code)
  <2>1. ~Fund!IsPrefix(<<8, 8>>, code)
    BY <1>1, <1>4, PairsDiffer
  <2>2. QED
    BY <1>2, <2>1
<1>6. ~Req!Starts(code, {<<8, 8>>})
  BY <1>5 DEF Req!Starts
<1>7. QED
  BY <1>6 DEF Req!IsBlockCode, Req!ClassifyCode

\* What a call of one of the three clients sends that take every operation.
LEMMA SentByMost ==
  ASSUME NEW client \in {"sync", "async", "direct"}, NEW op \in Req!OpsOf(client), NEW a \in AnyArguments
  PROVE  Req!Sent(client, op, a) =
           IF op \in {"bars", "index"}
             THEN IF \/ client # "async" /\ Req!IsBlockCode(a.code)
                     \/ client = "sync" /\ op = "bars" /\ ~Req!Strict(a.code)
                    THEN Req!NoPacket ELSE Req!BarsPacket(a)
           ELSE IF op = "list" THEN Req!ListPacket(op, a)
           ELSE IF op = "count" THEN Req!CountPacket(op, a)
           ELSE IF op = "meta" THEN Req!MetaPacket(op, a)
           ELSE IF op = "block" THEN Req!BlockPacket(op, a)
           ELSE IF client = "sync" /\ ~Req!Strict(a.code) THEN Req!NoPacket ELSE Req!StockPacket(op, a)
<1>1. op \in {"bars", "index", "list", "count", "meta", "block"} \cup Req!StockOps
  BY DEF Req!OpsOf
<1>2. client = "async" => op \notin {"meta", "block"}
  BY DEF Req!OpsOf, Req!StockOps
<1>3. op \in Req!StockOps => op \notin {"bars", "index", "list", "count", "meta", "block"}
  BY DEF Req!StockOps
<1>4. CASE op \in {"bars", "index"}
  BY <1>4 DEF Req!Sent, Req!SyncBars, Req!AsyncBars, Req!DirectBars, Req!Unless
<1>5. CASE op \in {"list", "count"}
  BY <1>5 DEF Req!Sent, Req!SyncMarketData, Req!AsyncMarketData, Req!DirectMarketData, Req!MarketPacket
<1>6. CASE op \in {"meta", "block"}
  BY <1>2, <1>6 DEF Req!Sent, Req!SyncBlockInfo, Req!DirectBlockInfo, Req!FilePacket
<1>7. CASE op \in Req!StockOps
  BY <1>3, <1>7 DEF Req!Sent, Req!SyncStockData, Req!AsyncStockData, Req!DirectStockData, Req!Unless
<1>8. QED
  BY <1>1, <1>4, <1>5, <1>6, <1>7

LEMMA MalformedIsRefused ==
  ASSUME NEW op \in Req!OpsOf("sync"), NEW a \in AnyArguments
  PROVE  Req!SyncRefusesMalformed(op, a)
<1> SUFFICES ASSUME op # "index", op \in Req!StockOps \cup {"bars", "index"}, ~Req!Strict(a.code)
             PROVE  Req!Sent("sync", op, a) = Req!NoPacket
  BY DEF Req!SyncRefusesMalformed, Req!MalformedRefused, Req!Refused0
<1>1. op \in Req!StockOps => op \notin {"bars", "index", "list", "count", "meta", "block"}
  BY DEF Req!StockOps
<1>2. QED
  BY <1>1, SentByMost

\* The arguments meant: today's date for minutes, a block's market and bounded count.
LEMMA MeantIs ==
  ASSUME NEW client \in Req!Clients, client # "block", NEW op, NEW a \in AnyArguments
  PROVE  Req!Meant(client, op, a) = IF op = "minutes" THEN [a EXCEPT !.date = a.today] ELSE a
BY DEF Req!Meant

\* What a request of each group asks arrives, if it is sent.
LEMMA BarsArrive ==
  ASSUME NEW client \in Req!Clients, client # "block", NEW op \in {"bars", "index"}, NEW a \in AnyArguments,
         Req!Strict(a.code), a.start < Width, Req!Sent(client, op, a) = Req!BarsPacket(a)
  PROVE  Req!Arrives(client, op, a)
<1>1. Req!Meant(client, op, a) = a
  BY MeantIs
<1>2. QED
  BY <1>1, BarsParsed DEF Req!Arrives

LEMMA StockArrives ==
  ASSUME NEW client \in Req!Clients, client # "block", NEW op \in Req!StockOps, NEW a \in AnyArguments,
         Req!Strict(a.code), Req!Sent(client, op, a) = Req!StockPacket(op, a)
  PROVE  Req!Arrives(client, op, a)
<1> DEFINE q == Req!Asked(Req!StockPacket(op, a))
           b == IF op = "minutes" THEN [a EXCEPT !.date = a.today] ELSE a
<1>1. q.cmd # "garbled" /\ (\A x \in DOMAIN q.args : q.args[x] = b[x]) /\ Req!ParserOf(op, a) = Req!WrittenAs(q, FALSE)
  BY StockParsed
<1>2. Req!Meant(client, op, a) = b
  BY MeantIs
<1>3. (op = "index") = FALSE
  BY DEF Req!StockOps
<1>4. Req!Asked(Req!Sent(client, op, a)) = q
  OBVIOUS
<1> HIDE DEF q, b
<1>5. QED
  BY <1>1, <1>2, <1>3, <1>4 DEF Req!Arrives

LEMMA OthersArrive ==
  ASSUME NEW client \in Req!Clients, client # "block", NEW op \in {"list", "count", "meta", "block"}, NEW a \in AnyArguments,
         Req!Sent(client, op, a) = CASE op = "list"  -> Req!ListPacket("list", a)
                                     [] op = "count" -> Req!CountPacket("count", a)
                                     [] op = "meta"  -> Req!MetaPacket("meta", a)
                                     [] op = "block" -> Req!BlockPacket("block", a)
  PROVE  Req!Arrives(client, op, a)
<1> DEFINE q == Req!Asked(Req!Sent(client, op, a))
<1>1. Req!Meant(client, op, a) = a
  BY MeantIs
<1>2. q.cmd = op /\ \A x \in DOMAIN q.args : q.args[x] = a[x]
  <2>1. ASSUME op = "list" PROVE q.cmd = op /\ \A x \in DOMAIN q.args : q.args[x] = a[x]
    <3>1. Req!Sent(client, op, a) = Req!ListPacket("list", a)
      BY <2>1
    <3>2. QED
      BY <2>1, <3>1, ListAsked
  <2>2. ASSUME op = "count" PROVE q.cmd = op /\ \A x \in DOMAIN q.args : q.args[x] = a[x]
    <3>1. Req!Sent(client, op, a) = Req!CountPacket("count", a)
      BY <2>2
    <3>2. QED
      BY <2>2, <3>1, CountAsked
  <2>3. ASSUME op = "meta" PROVE q.cmd = op /\ \A x \in DOMAIN q.args : q.args[x] = a[x]
    <3>1. Req!Sent(client, op, a) = Req!MetaPacket("meta", a)
      BY <2>3
    <3>2. QED
      BY <2>3, <3>1, MetaAsked
  <2>4. ASSUME op = "block" PROVE q.cmd = op /\ \A x \in DOMAIN q.args : q.args[x] = a[x]
    <3>1. Req!Sent(client, op, a) = Req!BlockPacket("block", a)
      BY <2>4
    <3>2. QED
      BY <2>4, <3>1, BlockAsked
  <2>5. QED
    BY <2>1, <2>2, <2>3, <2>4
<1> HIDE DEF q
<1>3. q.cmd # "garbled" /\ Req!ParserOf(op, a) = Req!WrittenAs(q, op = "index")
  BY <1>2 DEF Req!ParserOf, Req!WrittenAs
<1>4. QED
  BY <1>1, <1>2, <1>3 DEF q, Req!Arrives

\* The block client's K-lines, as many as it allows.
LEMMA BlockBarsArrive ==
  ASSUME NEW a \in AnyArguments, Req!Strict(a.code), a.start < Width, a.category \notin {7, 8}
  PROVE  Req!Arrives("block", "index", a)
<1> DEFINE limit == Req!KlineLimit(a.category)
           count == IF a.count = 0 THEN limit.default ELSE IF a.count < limit.max THEN a.count ELSE limit.max
           b == [a EXCEPT !.market = Req!SH, !.count = count]
           q == Req!Asked(Req!BarsPacket(b))
<1>1. limit.max \in Nat \ {0} /\ limit.default \in Nat
  BY DEF Req!KlineLimit, AnyArguments
<1>2. count \in Nat
  BY <1>1 DEF AnyArguments
<1>3. Req!Sent("block", "index", a) = Req!BarsPacket(b)
  BY <1>1 DEF Req!Sent, Req!BlockBars, Req!Unless
<1>4. Req!Meant("block", "index", a) = b
  <2>1. count = IF a.count = 0 THEN limit.default ELSE IF a.count > limit.max THEN limit.max ELSE a.count
    BY <1>1 DEF AnyArguments
  <2> HIDE DEF count
  <2>2. QED
    BY <2>1 DEF Req!Meant
<1> HIDE DEF limit, count
<1>5. b \in AnyArguments /\ Req!Strict(b.code) /\ b.start < Width
  BY <1>2 DEF AnyArguments, Req!SH
<1> HIDE DEF b
<1>6. /\ q.cmd # "garbled" /\ (\A x \in DOMAIN q.args : q.args[x] = b[x])
      /\ Req!ParserOf("index", b) = Req!WrittenAs(q, "index" = "index")
  BY <1>5, BarsParsed
<1>7. Req!ParserOf("index", b) = Req!ParserOf("index", a)
  BY DEF Req!ParserOf
<1>8. QED
  BY <1>3, <1>4, <1>6, <1>7 DEF Req!Arrives

\* Every call arrives as meant, or is refused as it should be.
LEMMA CallsArrive ==
  ASSUME NEW client \in Req!Clients, NEW op \in Req!OpsOf(client), NEW a \in AnyArguments
  PROVE  Req!CallArrives(client, op, a)
<1> DEFINE refused == \/ client \in {"sync", "direct"} /\ op \in {"bars", "index"} /\ Req!IsBlockCode(a.code)
                      \/ client = "block" /\ a.category \in {7, 8}
                      \/ client = "fund" /\ ~Req!IsFund(a.market, a.code)
           Right == IF refused THEN Req!Sent(client, op, a) = Req!NoPacket ELSE Req!Arrives(client, op, a)
<1> SUFFICES ASSUME Req!Strict(a.code), a.start < Width PROVE Right
  BY DEF Req!CallArrives, Req!Refused0
<1>1. client \in {"sync", "async", "direct", "finance", "block", "fund"}
  BY DEF Req!Clients
<1>2. a.market \in Nat /\ a.code \in AnyCode
  BY DEF AnyArguments
<1>3. ASSUME client \in {"sync", "async", "direct"} PROVE Right
  <2>1. op \in {"bars", "index", "list", "count", "meta", "block"} \cup Req!StockOps
    BY <1>3 DEF Req!OpsOf
  <2>2. op \in Req!StockOps => op \notin {"bars", "index", "list", "count", "meta", "block"}
    BY DEF Req!StockOps
  <2>3. ASSUME op \in {"bars", "index"} PROVE Right
    <3>1. Req!Sent(client, op, a) = IF refused THEN Req!NoPacket ELSE Req!BarsPacket(a)
      BY <1>3, <2>3, SentByMost
    <3>2. QED
      BY <1>3, <2>3, <3>1, BarsArrive
  <2>4. ASSUME op \in {"list", "count", "meta", "block"} PROVE Right
    <3>1. ~refused
      BY <1>3, <2>4
    <3>2. Req!Sent(client, op, a) = CASE op = "list"  -> Req!ListPacket("list", a)
                                      [] op = "count" -> Req!CountPacket("count", a)
                                      [] op = "meta"  -> Req!MetaPacket("meta", a)
                                      [] op = "block" -> Req!BlockPacket("block", a)
      BY <1>3, <2>4, SentByMost
    <3>3. QED
      BY <1>3, <2>4, <3>1, <3>2, OthersArrive
  <2>5. ASSUME op \in Req!StockOps PROVE Right
    <3>1. ~refused
      BY <1>3, <2>2, <2>5
    <3>2. Req!Sent(client, op, a) = Req!StockPacket(op, a)
      BY <1>3, <2>2, <2>5, SentByMost
    <3>3. QED
      BY <1>3, <2>5, <3>1, <3>2, StockArrives
  <2>6. QED
    BY <2>1, <2>3, <2>4, <2>5
<1>4. ASSUME client = "finance" PROVE Right
  <2>1. op \in Req!StockOps
    BY <1>4 DEF Req!OpsOf, Req!StockOps
  <2>2. ~refused /\ Req!Sent(client, op, a) = Req!StockPacket(op, a)
    BY <1>4 DEF Req!Sent, Req!FinanceStockData
  <2>3. QED
    BY <1>4, <2>1, <2>2, StockArrives
<1>5. ASSUME client = "block" PROVE Right
  <2>1. op = "index"
    BY <1>5 DEF Req!OpsOf
  <2>2. CASE a.category \in {7, 8}
    BY <1>5, <2>2 DEF Req!Sent, Req!BlockBars, Req!KlineLimit, Req!Unless
  <2>3. CASE a.category \notin {7, 8}
    BY <1>5, <2>1, <2>3, BlockBarsArrive
  <2>4. QED
    BY <2>2, <2>3
<1>6. ASSUME client = "fund" PROVE Right
  <2>1. op \in {"bars"} \cup Req!StockOps
    BY <1>6 DEF Req!OpsOf
  <2>2. CASE ~Req!IsFund(a.market, a.code)
    BY <1>6, <2>2 DEF Req!Sent, Req!FundCall, Req!Unless
  <2>3. CASE Req!IsFund(a.market, a.code)
    <3>1. ~refused /\ ~Req!IsBlockCode(a.code)
      BY <1>2, <1>6, <2>3, FundNoBlock
    <3>2. Req!Sent(client, op, a) = IF op = "bars" THEN Req!BarsPacket(a) ELSE Req!StockPacket(op, a)
      BY <1>6, <2>3, <3>1 DEF Req!Sent, Req!FundCall, Req!SyncBars, Req!SyncStockData, Req!Unless
    <3>3. CASE op = "bars"
      BY <1>6, <3>1, <3>2, <3>3, BarsArrive
    <3>4. CASE op # "bars"
      BY <1>6, <2>1, <3>1, <3>2, <3>4, StockArrives
    <3>5. QED
      BY <3>3, <3>4
  <2>4. QED
    BY <2>2, <2>3
<1>7. QED
  BY <1>1, <1>3, <1>4, <1>5, <1>6

\* What holds at 0 and with each number for the next holds for all of them.
LEMMA Upwards ==
  ASSUME NEW n \in Nat, NEW T, 0 \in T, \A i \in 1..n : i - 1 \in T => i \in T
  PROVE  \A i \in 0..n : i \in T
<1> DEFINE M == {i \in 0..n : i \notin T}
<1>1. M = {}
  <2> SUFFICES ASSUME M # {} PROVE FALSE
    OBVIOUS
  <2>1. PICK x \in M : \A y \in M : x <= y
    <3>1. M \subseteq Nat
      OBVIOUS
    <3> HIDE DEF M
    <3> QED BY <3>1, LeastNat
  <2>2. x # 0 /\ x \in 0..n /\ x \notin T
    BY <2>1
  <2>3. x - 1 \in 0..n /\ x \in 1..n /\ ~(x <= x - 1)
    BY <2>2
  <2>4. x - 1 \in T
    BY <2>1, <2>3
  <2>5. QED
    BY <2>2, <2>3, <2>4
<1>2. QED
  BY <1>1

\* Pairs put together are found at odd and even places.
LEMMA PairsFlatten ==
  ASSUME NEW S, NEW ss \in Seq(Seq(S)), \A i \in 1..Len(ss) : Len(ss[i]) = 2
  PROVE  /\ FlattenSeq(ss) \in Seq(S) /\ Len(FlattenSeq(ss)) = 2 * Len(ss)
         /\ \A i \in 1..Len(ss) : FlattenSeq(ss)[2 * i - 1] = ss[i][1] /\ FlattenSeq(ss)[2 * i] = ss[i][2]
<1> DEFINE n == Len(ss)
<1>1. n \in Nat /\ \A i \in 1..n : ss[i] \in Seq(S) /\ Len(ss[i]) = 2
  BY LenProperties, ElementOfSeq
<1>2. PICK f \in [0..n -> Seq(S)] : f[0] = <<>> /\ (\A i \in 1..n : f[i] = f[i - 1] \o ss[i]) /\ FlattenSeq(ss) = f[n]
  BY FlattenSteps
<1> HIDE DEF n
<1> DEFINE T == {k \in 0..n : /\ Len(f[k]) = 2 * k
                              /\ \A i \in 1..k : f[k][2 * i - 1] = ss[i][1] /\ f[k][2 * i] = ss[i][2]}
<1>3. 0 \in T
  BY <1>1, <1>2
<1>4. ASSUME NEW k \in 1..n, k - 1 \in T PROVE k \in T
  <2>1. k - 1 \in 0..n /\ k \in 0..n /\ f[k - 1] \in Seq(S) /\ ss[k] \in Seq(S) /\ Len(ss[k]) = 2
    BY <1>1, <1>2
  <2>2. Len(f[k - 1]) = 2 * (k - 1) /\ \A i \in 1..(k - 1) : f[k - 1][2 * i - 1] = ss[i][1] /\ f[k - 1][2 * i] = ss[i][2]
    BY <1>4
  <2>3. /\ Len(f[k]) = 2 * (k - 1) + 2
        /\ \A j \in 1..(2 * (k - 1) + 2) :
             f[k][j] = IF j <= 2 * (k - 1) THEN f[k - 1][j] ELSE ss[k][j - 2 * (k - 1)]
    <3>1. f[k] = f[k - 1] \o ss[k]
      BY <1>2
    <3> DEFINE one == f[k - 1]
               two == ss[k]
    <3>2. /\ Len(one \o two) = Len(one) + Len(two)
          /\ \A j \in 1..(Len(one) + Len(two)) : (one \o two)[j] = IF j <= Len(one) THEN one[j] ELSE two[j - Len(one)]
      <4> HIDE DEF one, two
      <4> QED BY <2>1, ConcatProperties DEF one, two
    <3>3. Len(one) = 2 * (k - 1) /\ Len(two) = 2 /\ f[k] = one \o two
      BY <2>1, <2>2, <3>1
    <3> HIDE DEF one, two
    <3>4. QED
      BY <3>2, <3>3 DEF one, two
  <2>4. Len(f[k]) = 2 * k
    BY <2>1, <2>3
  <2>5. ASSUME NEW i \in 1..k PROVE f[k][2 * i - 1] = ss[i][1] /\ f[k][2 * i] = ss[i][2]
    <3>1. 2 * i - 1 \in 1..(2 * (k - 1) + 2) /\ 2 * i \in 1..(2 * (k - 1) + 2)
      BY <2>1
    <3>2. CASE i < k
      <4>1. i \in 1..(k - 1) /\ 2 * i <= 2 * (k - 1) /\ 2 * i - 1 <= 2 * (k - 1)
        BY <2>1, <3>2
      <4>2. QED
        BY <2>2, <2>3, <3>1, <4>1
    <3>3. CASE i = k
      <4>1. /\ ~(2 * i <= 2 * (k - 1)) /\ ~(2 * i - 1 <= 2 * (k - 1))
            /\ 2 * i - 2 * (k - 1) = 2 /\ 2 * i - 1 - 2 * (k - 1) = 1
        BY <2>1, <3>3
      <4>2. QED
        BY <2>3, <3>1, <3>3, <4>1
    <3>4. QED
      BY <2>1, <3>2, <3>3
  <2>6. QED
    BY <2>1, <2>4, <2>5
<1>5. n \in T
  <2> HIDE DEF T
  <2>1. \A k \in 0..n : k \in T
    BY <1>1, <1>3, <1>4, Upwards
  <2>2. QED
    BY <1>1, <2>1
<1>6. f[n] \in Seq(S) /\ Len(f[n]) = 2 * n /\ \A i \in 1..n : f[n][2 * i - 1] = ss[i][1] /\ f[n][2 * i] = ss[i][2]
  BY <1>1, <1>2, <1>5
<1>7. QED
  BY <1>2, <1>6 DEF n

\* A request for quotes asks for every stock.
LEMMA QuotesAreAsked ==
  ASSUME NEW stocks \in Seq(AnyStock)
  PROVE  Req!QuotesAsked(stocks)
<1> DEFINE n == Len(stocks)
           market(i) == Req!Field(1, stocks[i][1])
           code(i) == Req!Field(6, Req!CodeBytes(stocks[i][2]))
           S == {market(i) : i \in 1..n} \cup {code(i) : i \in 1..n}
           ss == [i \in 1..n |-> <<market(i), code(i)>>]
           all == FlattenSeq(ss)
           a1 == Req!Field(4, "quotes")
           a2 == Req!Field(4, 0)
           a3 == Req!Field(2, 0)
           a4 == Req!Field(2, n)
           head == <<a1, a2, a3, a4>>
           R == S \cup {a1, a2, a3, a4}
           fields == head \o all
<1>1. n \in Nat /\ DOMAIN stocks = 1..n /\ \A i \in 1..n : stocks[i] \in AnyStock
  BY LenProperties, ElementOfSeq
<1>2. Req!QuotesPacket(stocks) = [declared |-> 7 * n + 12, fields |-> fields]
  <2>1. Req!FlattenSeq(ss) = all
    BY DEF FlattenSeq, Req!FlattenSeq
  <2>2. [i \in DOMAIN stocks |-> <<market(i), code(i)>>] = ss
    BY <1>1
  <2>3. Req!QuotesPacket(stocks)
          = [declared |-> 7 * n + 12, fields |-> head \o Req!FlattenSeq([i \in DOMAIN stocks |-> <<market(i), code(i)>>])]
    BY DEF Req!QuotesPacket, Req!Packet
  <2> HIDE DEF all, n, head, market, code, ss
  <2>4. QED
    BY <2>1, <2>2, <2>3
<1> HIDE DEF n
<1>3. ss \in Seq(Seq(S)) /\ Len(ss) = n /\ \A i \in 1..n : Len(ss[i]) = 2 /\ ss[i][1] = market(i) /\ ss[i][2] = code(i)
  <2>1. \A i \in 1..n : market(i) \in S /\ code(i) \in S
    OBVIOUS
  <2> HIDE DEF S, market, code
  <2>2. \A i \in 1..n : <<market(i), code(i)>> \in Seq(S) /\ Len(<<market(i), code(i)>>) = 2
    BY <2>1
  <2>3. ss \in [1..n -> Seq(S)]
    BY <2>2
  <2>4. ss \in Seq(Seq(S)) /\ Len(ss) = n
    BY <1>1, <2>3
  <2>5. QED
    BY <2>2, <2>4
<1> HIDE DEF S, market, code, ss
<1>4. all \in Seq(S) /\ Len(all) = 2 * n /\ \A i \in 1..n : all[2 * i - 1] = market(i) /\ all[2 * i] = code(i)
  BY <1>3, PairsFlatten
<1> HIDE DEF all, a1, a2, a3, a4
<1>5. head \in Seq(R) /\ Len(head) = 4 /\ head[1] = a1 /\ head[2] = a2 /\ head[3] = a3 /\ head[4] = a4
  OBVIOUS
<1>6. all \in Seq(R)
  <2>1. S \subseteq R
    OBVIOUS
  <2> HIDE DEF R
  <2>2. QED
    BY <1>4, <2>1
<1> HIDE DEF head, R
<1>7. /\ Len(fields) = 4 + 2 * n
      /\ \A j \in 1..(4 + 2 * n) : fields[j] = IF j <= 4 THEN head[j] ELSE all[j - 4]
  <2>1. /\ Len(fields) = Len(head) + Len(all)
        /\ \A j \in 1..(Len(head) + Len(all)) : fields[j] = IF j <= Len(head) THEN head[j] ELSE all[j - Len(head)]
    BY <1>5, <1>6, ConcatProperties
  <2> HIDE DEF fields
  <2>2. QED
    BY <1>4, <1>5, <2>1
<1> HIDE DEF fields
<1>8. fields[1] = a1 /\ fields[2] = a2 /\ fields[3] = a3 /\ fields[4] = a4
  BY <1>1, <1>5, <1>7
<1>9. ASSUME NEW i \in 1..n PROVE fields[3 + 2 * i] = market(i) /\ fields[4 + 2 * i] = code(i)
  <2>1. /\ 3 + 2 * i \in 1..(4 + 2 * n) /\ 4 + 2 * i \in 1..(4 + 2 * n) /\ ~(3 + 2 * i <= 4) /\ ~(4 + 2 * i <= 4)
        /\ 3 + 2 * i - 4 = 2 * i - 1 /\ 4 + 2 * i - 4 = 2 * i
    BY <1>1
  <2>2. QED
    BY <1>4, <1>7, <2>1, SMTT(30)
<1>10. /\ fields[1].width = 4 /\ fields[2].width = 4 /\ fields[3].width = 2 /\ fields[4].width = 2 /\ fields[4].value = n
       /\ \A i \in 1..n : /\ fields[3 + 2 * i].width = 1 /\ fields[4 + 2 * i].width = 6
                          /\ fields[3 + 2 * i].value = stocks[i][1]
                          /\ fields[4 + 2 * i].value = Req!CodeBytes(stocks[i][2])
  <2>1. fields[1].width = 4 /\ fields[2].width = 4 /\ fields[3].width = 2 /\ fields[4].width = 2 /\ fields[4].value = n
    BY <1>8 DEF a1, a2, a3, a4, Req!Field
  <2>2. ASSUME NEW i \in 1..n
        PROVE  /\ fields[3 + 2 * i].width = 1 /\ fields[4 + 2 * i].width = 6
               /\ fields[3 + 2 * i].value = stocks[i][1]
               /\ fields[4 + 2 * i].value = Req!CodeBytes(stocks[i][2])
    <3>1. fields[3 + 2 * i] = market(i) /\ fields[4 + 2 * i] = code(i)
      BY <1>9
    <3>2. market(i).width = 1 /\ market(i).value = stocks[i][1] /\ code(i).width = 6 /\ code(i).value = Req!CodeBytes(stocks[i][2])
      BY DEF market, code, Req!Field
    <3>3. QED
      BY <3>1, <3>2
  <2>3. QED
    BY <2>1, <2>2
<1>11. Req!Size(fields) = 7 * n + 12
  <2>1. \A j \in 1..(4 + 2 * n) : fields[j].width \in Nat
    <3> SUFFICES ASSUME NEW j \in 1..(4 + 2 * n) PROVE fields[j].width \in Nat
      OBVIOUS
    <3>1. \/ j \in 1..4
          \/ \E i \in 1..n : j = 3 + 2 * i \/ j = 4 + 2 * i
      <4>1. CASE j > 4
        <5> DEFINE i == (j - 3) \div 2
        <5>1. i \in 1..n /\ (j = 3 + 2 * i \/ j = 4 + 2 * i)
          BY <1>1, <4>1
        <5>2. QED
          BY <5>1
      <4>2. QED
        BY <1>1, <4>1
    <3>2. QED
      BY <1>10, <3>1, SMTT(30)
  <2>2. Len(fields) \in Nat /\ \A j \in 1..Len(fields) : fields[j].width \in Nat
    BY <1>1, <1>7, <2>1
  <2>3. PICK g : g[0] = 0 /\ (\A i \in 1..Len(fields) : g[i] = g[i - 1] + fields[i].width) /\ Req!Size(fields) = g[Len(fields)]
    BY <2>2, SizeSteps
  <2>4. \A j \in 1..(4 + 2 * n) : g[j] = g[j - 1] + fields[j].width
    BY <1>7, <2>3
  <2> DEFINE T == {i \in 0..n : g[4 + 2 * i] = 7 * i + 12}
  <2>5. 0 \in T
    <3>1. g[1] = g[0] + fields[1].width /\ g[2] = g[1] + fields[2].width /\ g[3] = g[2] + fields[3].width
          /\ g[4] = g[3] + fields[4].width
      BY <1>1, <2>4
    <3>2. g[4] = 12
      BY <1>10, <2>3, <3>1
    <3>3. QED
      BY <1>1, <3>2
  <2>6. ASSUME NEW i \in 1..n, i - 1 \in T PROVE i \in T
    <3>1. /\ 3 + 2 * i \in 1..(4 + 2 * n) /\ 4 + 2 * i \in 1..(4 + 2 * n) /\ 3 + 2 * i - 1 = 4 + 2 * (i - 1)
          /\ 4 + 2 * i - 1 = 3 + 2 * i
      BY <1>1
    <3>2. g[4 + 2 * (i - 1)] = 7 * (i - 1) + 12
      BY <2>6
    <3>3. g[3 + 2 * i] = 7 * (i - 1) + 12 + 1
      BY <1>10, <2>4, <3>1, <3>2
    <3>4. g[4 + 2 * i] = 7 * (i - 1) + 12 + 1 + 6
      BY <1>10, <2>4, <3>1, <3>3
    <3>5. QED
      BY <1>1, <3>4
  <2>7. n \in T
    <3> HIDE DEF T
    <3>1. \A i \in 0..n : i \in T
      BY <1>1, <2>5, <2>6, Upwards
    <3>2. QED
      BY <1>1, <3>1
  <2>8. QED
    BY <1>7, <2>3, <2>7
<1>12. ASSUME NEW i \in DOMAIN stocks, Req!Strict(stocks[i][2])
       PROVE  <<fields[3 + 2 * i].value, fields[4 + 2 * i].value>> = stocks[i]
  <2>1. i \in 1..n /\ stocks[i] \in Nat \X AnyCode
    BY <1>1 DEF AnyStock
  <2>2. Req!CodeBytes(stocks[i][2]) = stocks[i][2]
    BY <1>12, <2>1, CodeAsItIs
  <2>3. QED
    BY <1>10, <2>1, <2>2
<1>13. QED
  BY <1>2, <1>10, <1>11, <1>12 DEF Req!QuotesAsked, n


\* What stands in a flattened sequence stood in a part, and what related the parts' entries,
\* in each and from each to the later ones, relates its entries.
LEMMA FlattenHas ==
  ASSUME NEW S, NEW ss \in Seq(Seq(S)), NEW R,
         \A i \in 1..Len(ss) : \A a, b \in 1..Len(ss[i]) : a < b => <<ss[i][a], ss[i][b]>> \in R,
         \A i, j \in 1..Len(ss) : i < j =>
           \A a \in 1..Len(ss[i]), b \in 1..Len(ss[j]) : <<ss[i][a], ss[j][b]>> \in R
  PROVE  /\ FlattenSeq(ss) \in Seq(S)
         /\ \A k \in 1..Len(FlattenSeq(ss)) : \E i \in 1..Len(ss) : \E a \in 1..Len(ss[i]) : ss[i][a] = FlattenSeq(ss)[k]
         /\ \A i \in 1..Len(ss) : \A a \in 1..Len(ss[i]) : \E k \in 1..Len(FlattenSeq(ss)) : FlattenSeq(ss)[k] = ss[i][a]
         /\ \A k, l \in 1..Len(FlattenSeq(ss)) : k < l => <<FlattenSeq(ss)[k], FlattenSeq(ss)[l]>> \in R
<1> DEFINE n == Len(ss)
<1>1. PICK f \in [0..n -> Seq(S)] :
        f[0] = <<>> /\ (\A i \in 1..n : f[i] = f[i - 1] \o ss[i]) /\ FlattenSeq(ss) = f[n]
  BY FlattenSteps
<1>2. n \in Nat /\ \A i \in 1..n : ss[i] \in Seq(S)
  BY LenProperties, ElementOfSeq
<1> HIDE DEF n
<1> DEFINE from(i) == \A k \in 1..Len(f[i]) : \E j \in 1..i : \E a \in 1..Len(ss[j]) : ss[j][a] = f[i][k]
           all(i) == \A j \in 1..i : \A a \in 1..Len(ss[j]) : \E k \in 1..Len(f[i]) : f[i][k] = ss[j][a]
           related(i) == \A k, l \in 1..Len(f[i]) : k < l => <<f[i][k], f[i][l]>> \in R
           T == {i \in 0..n : from(i) /\ all(i) /\ related(i)}
<1>3. 0 \in T
  <2>1. Len(f[0]) = 0
    BY <1>1, EmptySeq
  <2>2. QED
    BY <1>2, <2>1
<1>4. ASSUME NEW i \in 1..n, i - 1 \in T PROVE i \in T
  <2> DEFINE p == f[i - 1]
             q == ss[i]
             t == f[i]
             m == Len(p)
  <2>1. i - 1 \in 0..n /\ i \in 0..n /\ i \in Nat
    BY <1>2
  <2>2. p \in Seq(S) /\ q \in Seq(S) /\ t = p \o q /\ m \in Nat /\ Len(q) \in Nat
    BY <1>1, <1>2, <2>1, LenProperties
  <2>3. from(i - 1) /\ all(i - 1) /\ related(i - 1)
    BY <1>4
  <2>4. \A a, b \in 1..Len(q) : a < b => <<q[a], q[b]>> \in R
    BY <1>2 DEF n
  <2>5. \A j \in 1..(i - 1) : \A a \in 1..Len(ss[j]), b \in 1..Len(q) : <<ss[j][a], q[b]>> \in R
    <3>1. \A j \in 1..(i - 1) : j \in 1..n /\ j < i
      BY <1>2
    <3>2. QED
      BY <3>1 DEF n
  <2>6. \A k \in 1..m : \E j \in 1..(i - 1) : \E a \in 1..Len(ss[j]) : ss[j][a] = p[k]
    BY <2>3
  <2>7. \A j \in 1..(i - 1) : \A a \in 1..Len(ss[j]) : \E k \in 1..m : p[k] = ss[j][a]
    BY <2>3
  <2>8. \A k, l \in 1..m : k < l => <<p[k], p[l]>> \in R
    BY <2>3
  <2> HIDE DEF p, q, t, m, T
  <2>9. Len(t) = m + Len(q) /\ \A k \in 1..(m + Len(q)) : t[k] = IF k <= m THEN p[k] ELSE q[k - m]
    BY <2>2, ConcatProperties DEF m
  <2>10. from(i)
    <3> SUFFICES ASSUME NEW k \in 1..Len(t) PROVE \E j \in 1..i : \E a \in 1..Len(ss[j]) : ss[j][a] = t[k]
      BY DEF t
    <3>1. CASE k <= m
      <4>1. k \in 1..m /\ t[k] = p[k]
        BY <2>2, <2>9, <3>1
      <4>2. PICK j \in 1..(i - 1) : \E a \in 1..Len(ss[j]) : ss[j][a] = p[k]
        BY <2>6, <4>1
      <4>3. j \in 1..i
        BY <2>1
      <4>4. QED
        BY <4>1, <4>2, <4>3
    <3>2. CASE ~(k <= m)
      <4>1. k - m \in 1..Len(q) /\ t[k] = q[k - m] /\ i \in 1..i
        BY <2>1, <2>2, <2>9, <3>2
      <4>2. QED
        BY <4>1 DEF q
    <3>3. QED
      BY <3>1, <3>2
  <2>11. all(i)
    <3> SUFFICES ASSUME NEW j \in 1..i, NEW a \in 1..Len(ss[j]) PROVE \E k \in 1..Len(t) : t[k] = ss[j][a]
      BY DEF t
    <3>1. CASE j = i
      <4>1. a \in 1..Len(q) /\ ss[j][a] = q[a]
        BY <3>1 DEF q
      <4>2. PICK k \in 1..(m + Len(q)) : k = m + a
        <5> DEFINE len == Len(q)
        <5>1. len \in Nat /\ m \in Nat /\ a \in 1..len
          BY <2>2, <4>1
        <5> HIDE DEF len
        <5>2. m + a \in 1..(m + len)
          BY ONLY <5>1
        <5>3. QED
          BY <5>2 DEF len
      <4>3. k \in 1..Len(t) /\ ~(k <= m) /\ k - m = a
        BY <2>2, <2>9, <4>1, <4>2
      <4>4. t[k] = q[a]
        BY <2>9, <4>3
      <4>5. QED
        BY <4>1, <4>3, <4>4
    <3>2. CASE j # i
      <4>1. j \in 1..(i - 1)
        BY <2>1, <3>2
      <4>2. PICK k \in 1..m : p[k] = ss[j][a]
        BY <2>7, <4>1
      <4>3. k \in 1..Len(t) /\ t[k] = p[k]
        BY <2>2, <2>9
      <4>4. QED
        BY <4>2, <4>3
    <3>3. QED
      BY <3>1, <3>2
  <2>12. related(i)
    <3> SUFFICES ASSUME NEW k \in 1..Len(t), NEW l \in 1..Len(t), k < l PROVE <<t[k], t[l]>> \in R
      BY DEF t
    <3>1. CASE l <= m
      <4>1. k \in 1..m /\ l \in 1..m /\ t[k] = p[k] /\ t[l] = p[l]
        BY <2>2, <2>9, <3>1
      <4>2. QED
        BY <2>8, <4>1
    <3>2. CASE ~(l <= m) /\ k <= m
      <4>1. k \in 1..m /\ l - m \in 1..Len(q) /\ t[k] = p[k] /\ t[l] = q[l - m]
        BY <2>2, <2>9, <3>2
      <4>2. PICK j \in 1..(i - 1) : \E a \in 1..Len(ss[j]) : ss[j][a] = p[k]
        BY <2>6, <4>1
      <4>3. QED
        BY <2>5, <4>1, <4>2
    <3>3. CASE ~(k <= m)
      <4>1. k - m \in 1..Len(q) /\ l - m \in 1..Len(q) /\ k - m < l - m /\ t[k] = q[k - m] /\ t[l] = q[l - m]
        BY <2>2, <2>9, <3>3
      <4>2. QED
        BY <2>4, <4>1
    <3>4. QED
      BY <3>1, <3>2, <3>3
  <2>13. QED
    BY <2>1, <2>10, <2>11, <2>12 DEF T
<1>5. n \in T
  <2> HIDE DEF T
  <2>1. \A i \in 0..n : i \in T
    BY <1>2, <1>3, <1>4, Upwards
  <2>2. QED
    BY <1>2, <2>1
<1>6. from(n) /\ all(n) /\ related(n) /\ f[n] \in Seq(S)
  BY <1>1, <1>2, <1>5
<1> DEFINE t == FlattenSeq(ss)
<1>7. t = f[n]
  BY <1>1
<1> HIDE DEF T, t
<1>8. \A k \in 1..Len(t) : \E i \in 1..n : \E a \in 1..Len(ss[i]) : ss[i][a] = t[k]
  BY <1>6, <1>7
<1>9. \A i \in 1..n : \A a \in 1..Len(ss[i]) : \E k \in 1..Len(t) : t[k] = ss[i][a]
  BY <1>6, <1>7
<1>10. \A k, l \in 1..Len(t) : k < l => <<t[k], t[l]>> \in R
  BY <1>6, <1>7
<1>11. t \in Seq(S)
  BY <1>6, <1>7
<1>12. QED
  BY <1>8, <1>9, <1>10, <1>11 DEF n, t

\* The records of quotes, and the stock one is of.
StockRecords == [market : Nat, code : AnyCode, genuine : BOOLEAN]
StockOf(r) == <<r.market, r.code>>

\* What is kept of some records is of requested stocks, the first of each, in their order.
LEMMA FilterKeeps ==
  ASSUME NEW requested, NEW records \in Seq(StockRecords)
  PROVE  LET t == Req!FilterQuotesByRequest(requested, records)
         IN /\ t \in Seq(StockRecords)
            /\ \A k \in 1..Len(t) : StockOf(t[k]) \in requested /\ \E i \in 1..Len(records) : records[i] = t[k]
            /\ \A i \in 1..Len(records) : StockOf(records[i]) \in requested =>
                 \E k \in 1..Len(t) : StockOf(t[k]) = StockOf(records[i])
            /\ \A k, l \in 1..Len(t) : k < l =>
                 /\ StockOf(t[k]) # StockOf(t[l])
                 /\ \E i, j \in 1..Len(records) : i < j /\ records[i] = t[k] /\ records[j] = t[l]
<1> DEFINE n == Len(records)
           kept(i) == StockOf(records[i]) \in requested /\ \A j \in 1..(i - 1) : StockOf(records[j]) # StockOf(records[i])
           piece(i) == IF kept(i) THEN <<records[i]>> ELSE <<>>
           pieces == [i \in 1..n |-> piece(i)]
           R == {x \in StockRecords \X StockRecords :
                   /\ StockOf(x[1]) # StockOf(x[2])
                   /\ \E i, j \in 1..n : i < j /\ records[i] = x[1] /\ records[j] = x[2]}
           t == FlattenSeq(pieces)
<1>1. n \in Nat /\ DOMAIN records = 1..n /\ \A i \in 1..n : records[i] \in StockRecords
  BY LenProperties, ElementOfSeq
<1>2. Req!FilterQuotesByRequest(requested, records) = t
  BY <1>1 DEF Req!FilterQuotesByRequest, FlattenSeq, Req!FlattenSeq, StockOf
<1> HIDE DEF n
<1>3. ASSUME NEW i \in 1..n
      PROVE  /\ piece(i) \in Seq(StockRecords)
             /\ \A a \in 1..Len(piece(i)) : kept(i) /\ a = 1 /\ piece(i)[a] = records[i]
             /\ kept(i) => Len(piece(i)) = 1 /\ piece(i)[1] = records[i]
  <2> HIDE DEF kept
  <2>1. CASE kept(i)
    BY <1>1, <2>1
  <2>2. CASE ~kept(i)
    BY <2>2, EmptySeq
  <2>3. QED
    BY <2>1, <2>2
<1>4. pieces \in Seq(Seq(StockRecords)) /\ Len(pieces) = n /\ \A i \in 1..n : pieces[i] = piece(i)
  <2> HIDE DEF piece
  <2>1. pieces \in [1..n -> Seq(StockRecords)]
    BY <1>3
  <2>2. QED
    BY <1>1, <2>1
<1> HIDE DEF pieces, R
<1>5. \A i \in 1..Len(pieces) : \A a, b \in 1..Len(pieces[i]) : a < b => <<pieces[i][a], pieces[i][b]>> \in R
  <2> SUFFICES ASSUME NEW i \in 1..n, NEW a \in 1..Len(piece(i)), NEW b \in 1..Len(piece(i)), a < b PROVE FALSE
    BY <1>4
  <2> HIDE DEF piece, kept
  <2>1. a = 1 /\ b = 1
    BY <1>3
  <2>2. QED
    BY <2>1
<1>6. \A i, j \in 1..Len(pieces) : i < j =>
        \A a \in 1..Len(pieces[i]), b \in 1..Len(pieces[j]) : <<pieces[i][a], pieces[j][b]>> \in R
  <2> SUFFICES ASSUME NEW i \in 1..n, NEW j \in 1..n, i < j, NEW a \in 1..Len(piece(i)), NEW b \in 1..Len(piece(j))
               PROVE  <<piece(i)[a], piece(j)[b]>> \in R
    BY <1>4
  <2>1. kept(j) /\ piece(i)[a] = records[i] /\ piece(j)[b] = records[j]
    <3> HIDE DEF piece, kept
    <3>1. QED
      BY <1>3
  <2>2. i \in 1..(j - 1)
    BY <1>1
  <2>3. StockOf(records[i]) # StockOf(records[j])
    BY <2>1, <2>2
  <2> HIDE DEF piece, kept
  <2>4. QED
    BY <1>1, <2>1, <2>3 DEF R
<1>7. /\ t \in Seq(StockRecords)
      /\ \A k \in 1..Len(t) : \E i \in 1..n : \E a \in 1..Len(pieces[i]) : pieces[i][a] = t[k]
      /\ \A i \in 1..n : \A a \in 1..Len(pieces[i]) : \E k \in 1..Len(t) : t[k] = pieces[i][a]
      /\ \A k, l \in 1..Len(t) : k < l => <<t[k], t[l]>> \in R
  <2> HIDE DEF n, t
  <2>1. /\ FlattenSeq(pieces) \in Seq(StockRecords)
        /\ \A k \in 1..Len(FlattenSeq(pieces)) :
             \E i \in 1..Len(pieces) : \E a \in 1..Len(pieces[i]) : pieces[i][a] = FlattenSeq(pieces)[k]
        /\ \A i \in 1..Len(pieces) : \A a \in 1..Len(pieces[i]) :
             \E k \in 1..Len(FlattenSeq(pieces)) : FlattenSeq(pieces)[k] = pieces[i][a]
        /\ \A k, l \in 1..Len(FlattenSeq(pieces)) : k < l => <<FlattenSeq(pieces)[k], FlattenSeq(pieces)[l]>> \in R
    BY <1>4, <1>5, <1>6, FlattenHas
  <2>2. QED
    BY <1>4, <2>1 DEF t
<1> HIDE DEF t
<1>8. ASSUME NEW k \in 1..Len(t)
      PROVE  StockOf(t[k]) \in requested /\ \E i \in 1..n : records[i] = t[k]
  <2>1. PICK i \in 1..n : \E a \in 1..Len(piece(i)) : piece(i)[a] = t[k]
    <3> HIDE DEF piece
    <3>1. PICK i \in 1..n : \E a \in 1..Len(pieces[i]) : pieces[i][a] = t[k]
      BY <1>7
    <3>2. pieces[i] = piece(i)
      BY <1>4
    <3>3. QED
      BY <3>1, <3>2
  <2>2. kept(i) /\ records[i] = t[k]
    <3> HIDE DEF piece, kept
    <3>1. QED
      BY <1>3, <2>1
  <2>3. QED
    BY <2>2
<1>9. ASSUME NEW i \in 1..n, StockOf(records[i]) \in requested
      PROVE  \E k \in 1..Len(t) : StockOf(t[k]) = StockOf(records[i])
  <2> DEFINE alike == {j \in 1..n : StockOf(records[j]) = StockOf(records[i])}
  <2>1. PICK j \in alike : \A l \in alike : j <= l
    <3>1. alike \in SUBSET Nat /\ i \in alike
      BY <1>1
    <3>2. QED
      BY <3>1, LeastNat
  <2>2. j \in 1..n /\ StockOf(records[j]) = StockOf(records[i])
    BY <2>1
  <2>3. \A l \in 1..(j - 1) : StockOf(records[l]) # StockOf(records[j])
    BY <1>1, <2>1, <2>2
  <2>4. kept(j)
    BY <1>9, <2>2, <2>3
  <2> HIDE DEF alike
  <2>5. Len(piece(j)) = 1 /\ piece(j)[1] = records[j]
    <3> HIDE DEF piece, kept
    <3>1. QED
      BY <1>3, <2>2, <2>4
  <2> HIDE DEF piece, kept
  <2>6. PICK k \in 1..Len(t) : t[k] = pieces[j][1]
    <3>1. Len(pieces[j]) = 1
      BY <1>4, <2>2, <2>5
    <3>2. QED
      BY <1>7, <2>2, <3>1
  <2>7. QED
    BY <1>4, <2>2, <2>5, <2>6
<1>10. \A k, l \in 1..Len(t) : k < l =>
         /\ StockOf(t[k]) # StockOf(t[l])
         /\ \E i, j \in 1..n : i < j /\ records[i] = t[k] /\ records[j] = t[l]
  <2> SUFFICES ASSUME NEW k \in 1..Len(t), NEW l \in 1..Len(t), k < l
               PROVE  /\ StockOf(t[k]) # StockOf(t[l])
                      /\ \E i, j \in 1..n : i < j /\ records[i] = t[k] /\ records[j] = t[l]
    OBVIOUS
  <2>1. <<t[k], t[l]>> \in R
    BY <1>7
  <2>2. <<t[k], t[l]>>[1] = t[k] /\ <<t[k], t[l]>>[2] = t[l]
    OBVIOUS
  <2> DEFINE x == <<t[k], t[l]>>
  <2> HIDE DEF x
  <2>3. x \in R /\ x[1] = t[k] /\ x[2] = t[l]
    BY <2>1, <2>2 DEF x
  <2>4. StockOf(x[1]) # StockOf(x[2]) /\ \E i, j \in 1..n : i < j /\ records[i] = x[1] /\ records[j] = x[2]
    BY <2>3 DEF R
  <2>5. QED
    BY <2>3, <2>4
<1>11. QED
  BY <1>2, <1>7, <1>8, <1>9, <1>10 DEF n

\* What the server answers with: records of stocks it answers for, in its order, genuine ones of
\* those it knows.
LEMMA AnswersAre ==
  ASSUME NEW serving \in AnyQuoteServer, NEW batch \in Seq(AnyStock), Len(batch) <= MaxQuotes
  PROVE  LET records == Req!QuotesFor(serving, batch)
             order == serving.order
         IN /\ records \in Seq(StockRecords)
            /\ \A k \in 1..Len(records) : \E i \in 1..Len(order) :
                 /\ order[i] \in Req!ToSet(batch)
                 /\ records[k].genuine <=> order[i] \in serving.known
                 /\ StockOf(records[k]) = IF order[i] \in serving.known THEN order[i] ELSE serving.garbage
            /\ \A i \in 1..Len(order) : order[i] \in Req!ToSet(batch) \cap serving.known =>
                 \E k \in 1..Len(records) : StockOf(records[k]) = order[i]
            /\ \A k, l \in 1..Len(records) : k < l /\ records[k].genuine /\ records[l].genuine =>
                 \E i, j \in 1..Len(order) : i < j /\ order[i] = StockOf(records[k]) /\ order[j] = StockOf(records[l])
<1> DEFINE order == serving.order
           known == serving.known
           n == Len(order)
           asked == Req!ToSet(batch)
           stock(s) == IF s \in known THEN s ELSE serving.garbage
           told(s) == [market |-> stock(s)[1], code |-> stock(s)[2], genuine |-> s \in known]
           piece(i) == IF order[i] \in asked THEN <<told(order[i])>> ELSE <<>>
           pieces == [i \in 1..n |-> piece(i)]
           R == {x \in StockRecords \X StockRecords :
                   x[1].genuine /\ x[2].genuine =>
                     \E i, j \in 1..n : i < j /\ order[i] = StockOf(x[1]) /\ order[j] = StockOf(x[2])}
           t == FlattenSeq(pieces)
<1>1. /\ n \in Nat /\ DOMAIN order = 1..n /\ \A i \in 1..n : order[i] \in AnyStock
      /\ serving.garbage \in AnyStock
  <2>1. order \in Seq(AnyStock) /\ serving.garbage \in AnyStock
    BY DEF AnyQuoteServer
  <2>2. QED
    BY <2>1, LenProperties, ElementOfSeq
<1>2. Req!QuotesFor(serving, batch) = t
  <2>1. SubSeq(batch, 1, IF Len(batch) < MaxQuotes THEN Len(batch) ELSE MaxQuotes) = batch
    <3>1. MaxQuotes \in Nat
      BY ParametersAssumption
    <3> DEFINE l == Len(batch)
    <3>2. l \in Nat /\ l <= MaxQuotes
      BY LenProperties
    <3> HIDE DEF l
    <3>3. (IF l < MaxQuotes THEN l ELSE MaxQuotes) = l
      BY ONLY <3>1, <3>2
    <3>4. QED
      BY <3>3, WholeStretch DEF l
  <2>2. Req!QuotesFor(serving, batch) = Req!FlattenSeq([i \in DOMAIN order |-> piece(i)])
    BY <2>1 DEF Req!QuotesFor
  <2> HIDE DEF piece, order
  <2>3. [i \in DOMAIN order |-> piece(i)] = pieces
    BY <1>1
  <2> HIDE DEF pieces
  <2>4. QED
    BY <2>2, <2>3 DEF FlattenSeq, Req!FlattenSeq
<1> HIDE DEF n, order, known, asked
<1>3. \A s \in AnyStock : stock(s) \in AnyStock
  BY <1>1
<1>4. ASSUME NEW s \in AnyStock
      PROVE  told(s) \in StockRecords /\ StockOf(told(s)) = stock(s) /\ (told(s).genuine <=> s \in known)
  <2> DEFINE u == stock(s)
  <2>1. u \in Nat \X AnyCode
    BY <1>3 DEF AnyStock
  <2> HIDE DEF u
  <2>2. [market |-> u[1], code |-> u[2], genuine |-> s \in known] \in StockRecords
    BY <2>1 DEF StockRecords
  <2>3. StockOf([market |-> u[1], code |-> u[2], genuine |-> s \in known]) = u
    BY <2>1 DEF StockOf
  <2>4. QED
    BY <2>2, <2>3 DEF u
<1> HIDE DEF told
<1>5. ASSUME NEW i \in 1..n
      PROVE  /\ piece(i) \in Seq(StockRecords)
             /\ \A a \in 1..Len(piece(i)) : order[i] \in asked /\ a = 1 /\ piece(i)[a] = told(order[i])
             /\ order[i] \in asked => Len(piece(i)) = 1 /\ piece(i)[1] = told(order[i])
  <2>1. CASE order[i] \in asked
    BY <1>1, <1>4, <2>1
  <2>2. CASE order[i] \notin asked
    BY <2>2, EmptySeq
  <2>3. QED
    BY <2>1, <2>2
<1>6. pieces \in Seq(Seq(StockRecords)) /\ Len(pieces) = n /\ \A i \in 1..n : pieces[i] = piece(i)
  <2> HIDE DEF piece
  <2>1. pieces \in [1..n -> Seq(StockRecords)]
    BY <1>5
  <2>2. QED
    BY <1>1, <2>1
<1> HIDE DEF pieces, R, piece
<1>7. \A i \in 1..Len(pieces) : \A a, b \in 1..Len(pieces[i]) : a < b => <<pieces[i][a], pieces[i][b]>> \in R
  <2> SUFFICES ASSUME NEW i \in 1..n, NEW a \in 1..Len(piece(i)), NEW b \in 1..Len(piece(i)), a < b PROVE FALSE
    BY <1>6
  <2>1. a = 1 /\ b = 1
    BY <1>5
  <2>2. QED
    BY <2>1
<1>8. \A i, j \in 1..Len(pieces) : i < j =>
        \A a \in 1..Len(pieces[i]), b \in 1..Len(pieces[j]) : <<pieces[i][a], pieces[j][b]>> \in R
  <2> SUFFICES ASSUME NEW i \in 1..n, NEW j \in 1..n, i < j, NEW a \in 1..Len(piece(i)), NEW b \in 1..Len(piece(j))
               PROVE  <<piece(i)[a], piece(j)[b]>> \in R
    BY <1>6
  <2>1. piece(i)[a] = told(order[i]) /\ piece(j)[b] = told(order[j])
    BY <1>5
  <2> DEFINE x == told(order[i])
             y == told(order[j])
  <2>2. /\ x \in StockRecords /\ y \in StockRecords
        /\ x.genuine => order[i] = StockOf(x)
        /\ y.genuine => order[j] = StockOf(y)
    BY <1>1, <1>4
  <2> HIDE DEF x, y
  <2>3. x.genuine /\ y.genuine => \E k, l \in 1..n : k < l /\ order[k] = StockOf(x) /\ order[l] = StockOf(y)
    BY <2>2
  <2> DEFINE z == <<x, y>>
  <2>4. z \in StockRecords \X StockRecords /\ z[1] = x /\ z[2] = y
    BY <2>2
  <2> HIDE DEF z
  <2>5. z \in R
    BY <2>3, <2>4 DEF R
  <2>6. QED
    BY <2>1, <2>5 DEF x, y, z
<1>9. /\ t \in Seq(StockRecords)
      /\ \A k \in 1..Len(t) : \E i \in 1..n : \E a \in 1..Len(pieces[i]) : pieces[i][a] = t[k]
      /\ \A i \in 1..n : \A a \in 1..Len(pieces[i]) : \E k \in 1..Len(t) : t[k] = pieces[i][a]
      /\ \A k, l \in 1..Len(t) : k < l => <<t[k], t[l]>> \in R
  <2> HIDE DEF t
  <2>1. /\ FlattenSeq(pieces) \in Seq(StockRecords)
        /\ \A k \in 1..Len(FlattenSeq(pieces)) :
             \E i \in 1..Len(pieces) : \E a \in 1..Len(pieces[i]) : pieces[i][a] = FlattenSeq(pieces)[k]
        /\ \A i \in 1..Len(pieces) : \A a \in 1..Len(pieces[i]) :
             \E k \in 1..Len(FlattenSeq(pieces)) : FlattenSeq(pieces)[k] = pieces[i][a]
        /\ \A k, l \in 1..Len(FlattenSeq(pieces)) : k < l => <<FlattenSeq(pieces)[k], FlattenSeq(pieces)[l]>> \in R
    BY <1>6, <1>7, <1>8, FlattenHas
  <2>2. QED
    BY <1>6, <2>1 DEF t
<1> HIDE DEF t
<1>10. ASSUME NEW k \in 1..Len(t)
       PROVE  \E i \in 1..n : order[i] \in asked /\ (t[k].genuine <=> order[i] \in known) /\ StockOf(t[k]) = stock(order[i])
  <2>1. PICK i \in 1..n : \E a \in 1..Len(pieces[i]) : pieces[i][a] = t[k]
    BY <1>9
  <2>2. order[i] \in asked /\ t[k] = told(order[i])
    BY <1>5, <1>6, <2>1
  <2>3. order[i] \in AnyStock
    BY <1>1
  <2>4. StockOf(told(order[i])) = stock(order[i]) /\ (told(order[i]).genuine <=> order[i] \in known)
    BY <1>4, <2>3
  <2>5. QED
    BY <2>2, <2>4
<1>11. ASSUME NEW i \in 1..n, order[i] \in asked \cap known
       PROVE  \E k \in 1..Len(t) : StockOf(t[k]) = order[i]
  <2>1. Len(pieces[i]) = 1 /\ pieces[i][1] = told(order[i])
    BY <1>5, <1>6, <1>11
  <2>2. PICK k \in 1..Len(t) : t[k] = pieces[i][1]
    BY <1>9, <2>1
  <2>3. QED
    BY <1>1, <1>4, <1>11, <2>1, <2>2
<1>12. \A k, l \in 1..Len(t) : k < l /\ t[k].genuine /\ t[l].genuine =>
         \E i, j \in 1..n : i < j /\ order[i] = StockOf(t[k]) /\ order[j] = StockOf(t[l])
  <2> SUFFICES ASSUME NEW k \in 1..Len(t), NEW l \in 1..Len(t), k < l, t[k].genuine, t[l].genuine
               PROVE  \E i, j \in 1..n : i < j /\ order[i] = StockOf(t[k]) /\ order[j] = StockOf(t[l])
    OBVIOUS
  <2> DEFINE x == <<t[k], t[l]>>
  <2>1. x \in R /\ x[1] = t[k] /\ x[2] = t[l]
    BY <1>9
  <2> HIDE DEF x
  <2>2. QED
    BY <2>1 DEF R
<1>13. QED
  BY <1>2, <1>9, <1>10, <1>11, <1>12 DEF n, order, known, asked

\* Of one batch the genuine records of the stocks asked for are kept, each once, and no other.
LEMMA BatchIsGenuine ==
  ASSUME NEW serving \in AnyQuoteServer, NEW batch \in Seq(AnyStock), Len(batch) <= MaxQuotes,
         serving.garbage \notin Req!ToSet(batch)
  PROVE  LET t == Req!FilterQuotesByRequest(Req!ToSet(batch), Req!QuotesFor(serving, batch))
             order == serving.order
         IN /\ t \in Seq(StockRecords)
            /\ \A k \in 1..Len(t) : t[k].genuine /\ StockOf(t[k]) \in Req!ToSet(batch) \cap serving.known \cap Req!ToSet(order)
            /\ \A s \in Req!ToSet(batch) \cap serving.known \cap Req!ToSet(order) :
                 \E k \in 1..Len(t) : StockOf(t[k]) = s
            /\ \A k, l \in 1..Len(t) : k < l =>
                 /\ StockOf(t[k]) # StockOf(t[l])
                 /\ \E i, j \in 1..Len(order) : i < j /\ order[i] = StockOf(t[k]) /\ order[j] = StockOf(t[l])
<1> DEFINE order == serving.order
           known == serving.known
           n == Len(order)
           asked == Req!ToSet(batch)
           records == Req!QuotesFor(serving, batch)
           m == Len(records)
           t == Req!FilterQuotesByRequest(asked, records)
<1>1. /\ records \in Seq(StockRecords)
      /\ \A k \in 1..m : \E i \in 1..n :
           /\ order[i] \in asked
           /\ records[k].genuine <=> order[i] \in known
           /\ StockOf(records[k]) = IF order[i] \in known THEN order[i] ELSE serving.garbage
      /\ \A i \in 1..n : order[i] \in asked \cap known => \E k \in 1..m : StockOf(records[k]) = order[i]
      /\ \A k, l \in 1..m : k < l /\ records[k].genuine /\ records[l].genuine =>
           \E i, j \in 1..n : i < j /\ order[i] = StockOf(records[k]) /\ order[j] = StockOf(records[l])
  BY AnswersAre
<1>2. \A s : s \in Req!ToSet(order) <=> \E i \in 1..n : order[i] = s
  <2>1. order \in Seq(AnyStock)
    BY DEF AnyQuoteServer
  <2>2. DOMAIN order = 1..n
    BY <2>1, LenProperties
  <2>3. QED
    BY <2>2 DEF Req!ToSet
<1> HIDE DEF order, known, n, asked, records
<1>3. /\ t \in Seq(StockRecords)
      /\ \A k \in 1..Len(t) : StockOf(t[k]) \in asked /\ \E i \in 1..m : records[i] = t[k]
      /\ \A i \in 1..m : StockOf(records[i]) \in asked => \E k \in 1..Len(t) : StockOf(t[k]) = StockOf(records[i])
      /\ \A k, l \in 1..Len(t) : k < l =>
           /\ StockOf(t[k]) # StockOf(t[l])
           /\ \E i, j \in 1..m : i < j /\ records[i] = t[k] /\ records[j] = t[l]
  BY <1>1, FilterKeeps
<1> HIDE DEF m, t
<1>4. ASSUME NEW k \in 1..Len(t) PROVE t[k].genuine /\ StockOf(t[k]) \in asked \cap known \cap Req!ToSet(order)
  <2>1. PICK j \in 1..m : records[j] = t[k]
    BY <1>3
  <2>2. PICK i \in 1..n : /\ order[i] \in asked
                          /\ t[k].genuine <=> order[i] \in known
                          /\ StockOf(t[k]) = IF order[i] \in known THEN order[i] ELSE serving.garbage
    BY <1>1, <2>1
  <2>3. StockOf(t[k]) \in asked /\ serving.garbage \notin asked
    BY <1>3 DEF asked
  <2>4. order[i] \in known /\ StockOf(t[k]) = order[i]
    BY <2>2, <2>3
  <2>5. order[i] \in Req!ToSet(order)
    BY <1>2
  <2>6. QED
    BY <2>2, <2>3, <2>4, <2>5
<1>5. ASSUME NEW s \in asked \cap known \cap Req!ToSet(order) PROVE \E k \in 1..Len(t) : StockOf(t[k]) = s
  <2>1. PICK i \in 1..n : order[i] = s
    BY <1>2
  <2>2. PICK k \in 1..m : StockOf(records[k]) = s
    BY <1>1, <2>1
  <2>3. QED
    BY <1>3, <2>2
<1>6. \A k, l \in 1..Len(t) : k < l =>
        /\ StockOf(t[k]) # StockOf(t[l])
        /\ \E i, j \in 1..n : i < j /\ order[i] = StockOf(t[k]) /\ order[j] = StockOf(t[l])
  <2> SUFFICES ASSUME NEW k \in 1..Len(t), NEW l \in 1..Len(t), k < l
               PROVE  /\ StockOf(t[k]) # StockOf(t[l])
                      /\ \E i, j \in 1..n : i < j /\ order[i] = StockOf(t[k]) /\ order[j] = StockOf(t[l])
    OBVIOUS
  <2>1. PICK i \in 1..m, j \in 1..m : i < j /\ records[i] = t[k] /\ records[j] = t[l]
    BY <1>3
  <2>2. records[i].genuine /\ records[j].genuine
    BY <1>4, <2>1
  <2>3. StockOf(t[k]) # StockOf(t[l])
    BY <1>3
  <2>4. PICK x \in 1..n, y \in 1..n : x < y /\ order[x] = StockOf(records[i]) /\ order[y] = StockOf(records[j])
    BY <1>1, <2>1, <2>2
  <2>5. order[x] = StockOf(t[k]) /\ order[y] = StockOf(t[l])
    BY <2>1, <2>4
  <2>6. QED
    BY <2>3, <2>4, <2>5
<1>7. QED
  BY <1>3, <1>4, <1>5, <1>6 DEF order, known, n, asked, records, t

\* So are those of all batches put together; in the order asked for if the server keeps it.
LEMMA BatchesAreGenuine ==
  ASSUME NEW serving \in AnyQuoteServer, NEW stocks \in Seq(AnyStock),
         \A i, j \in 1..Len(stocks) : stocks[i] = stocks[j] => i = j, serving.garbage \notin Req!ToSet(stocks)
  PROVE  LET t == Req!GetSecurityQuotes(serving, stocks)
         IN /\ t \in Seq(StockRecords)
            /\ \A k \in 1..Len(t) :
                 t[k].genuine /\ StockOf(t[k]) \in Req!ToSet(stocks) \cap serving.known \cap Req!ToSet(serving.order)
            /\ \A s \in Req!ToSet(stocks) \cap serving.known \cap Req!ToSet(serving.order) :
                 \E k \in 1..Len(t) : StockOf(t[k]) = s
            /\ \A k, l \in 1..Len(t) : k < l =>
                 /\ StockOf(t[k]) # StockOf(t[l])
                 /\ serving.order = stocks =>
                      \E i, j \in 1..Len(stocks) : i < j /\ stocks[i] = StockOf(t[k]) /\ stocks[j] = StockOf(t[l])
<1> DEFINE len == Len(stocks)
           c == MaxQuotes
           n == (len + c - 1) \div c
           pos(i) == IF i * c < len THEN i * c ELSE len
           batch(i) == SubSeq(stocks, (i - 1) * c + 1, pos(i))
           batches == [i \in 1..n |-> batch(i)]
           kept(i) == Req!FilterQuotesByRequest(Req!ToSet(batch(i)), Req!QuotesFor(serving, batch(i)))
           ss == [i \in 1..n |-> kept(i)]
           told == serving.known \cap Req!ToSet(serving.order)
           Ahead(s, u) == \E i, j \in 1..len : i < j /\ stocks[i] = s /\ stocks[j] = u
           R == {x \in StockRecords \X StockRecords :
                   /\ StockOf(x[1]) # StockOf(x[2])
                   /\ serving.order = stocks => Ahead(StockOf(x[1]), StockOf(x[2]))}
           t == FlattenSeq(ss)
<1>1. len \in Nat /\ c \in Nat \ {0} /\ c \in Nat /\ DOMAIN stocks = 1..len /\ \A i \in 1..len : stocks[i] \in AnyStock
  BY LenProperties, ElementOfSeq, ParametersAssumption
<1>2. \A s : s \in Req!ToSet(stocks) <=> \E i \in 1..len : stocks[i] = s
  BY <1>1 DEF Req!ToSet
<1>3. /\ n \in Nat
      /\ \A i \in 1..n : /\ (i - 1) * c \in Nat /\ (i - 1) * c <= len /\ i * c = (i - 1) * c + c
                         /\ i < n => i * c <= len
      /\ 0 * c = 0 /\ n * c \in Nat /\ len <= n * c
  <2> HIDE DEF len, c
  <2>1. QED
    BY <1>1, PartsCover
<1>4. Req!GetSecurityQuotes(serving, stocks) = Req!FlattenSeq(ss)
  <2>1. Req!Chunks(stocks, c) = batches
    BY DEF Req!Chunks
  <2>2. DOMAIN batches = 1..n
    OBVIOUS
  <2>3. Req!GetSecurityQuotes(serving, stocks)
          = Req!FlattenSeq([i \in DOMAIN batches |-> Req!FilterQuotesByRequest(Req!ToSet(batches[i]), Req!QuotesFor(serving, batches[i]))])
    BY <2>1 DEF Req!GetSecurityQuotes
  <2>4. [i \in DOMAIN batches |-> Req!FilterQuotesByRequest(Req!ToSet(batches[i]), Req!QuotesFor(serving, batches[i]))] = ss
    <3>1. \A i \in 1..n : batches[i] = batch(i)
      OBVIOUS
    <3> HIDE DEF batches, n, batch
    <3>2. QED
      BY <2>2, <3>1
  <2> HIDE DEF batches, ss
  <2>5. QED
    BY <2>3, <2>4
<1> HIDE DEF n
<1>5. ASSUME NEW i \in 1..n
      PROVE  /\ pos(i - 1) = (i - 1) * c /\ pos(i - 1) \in Nat /\ pos(i) \in Nat
             /\ pos(i - 1) <= pos(i) /\ pos(i) <= len /\ pos(i) - pos(i - 1) <= c
  <2> DEFINE at == (i - 1) * c
  <2>1. at \in Nat /\ at <= len /\ i * c = at + c
    BY <1>3
  <2> HIDE DEF at, len, c
  <2>2. pos(i - 1) = at
    BY <1>1, <2>1 DEF at
  <2>3. pos(i) = IF at + c < len THEN at + c ELSE len
    BY <2>1
  <2>4. QED
    BY <1>1, <2>1, <2>2, <2>3 DEF at
<1>6. pos(0) = 0 /\ pos(n) = len
  <2> HIDE DEF len, c
  <2>1. QED
    BY <1>1, <1>3
<1>7. ASSUME NEW i \in 1..n
      PROVE  /\ batch(i) \in Seq(AnyStock) /\ Len(batch(i)) = pos(i) - pos(i - 1)
             /\ \A k \in 1..(pos(i) - pos(i - 1)) : batch(i)[k] = stocks[pos(i - 1) + k]
  <2> DEFINE a == pos(i - 1)
             b == pos(i)
  <2>1. a \in Nat /\ b \in Nat /\ a <= b /\ b <= Len(stocks) /\ batch(i) = SubSeq(stocks, a + 1, b)
    <3>1. pos(i - 1) = (i - 1) * c
      BY <1>5
    <3> HIDE DEF pos
    <3>2. QED
      BY <1>5, <3>1
  <2> HIDE DEF a, b, batch
  <2>2. /\ SubSeq(stocks, a + 1, b) \in Seq(AnyStock) /\ Len(SubSeq(stocks, a + 1, b)) = b - a
        /\ \A k \in 1..(b - a) : SubSeq(stocks, a + 1, b)[k] = stocks[a + k]
    BY <2>1, Stretch
  <2>3. QED
    BY <2>1, <2>2 DEF a, b
<1> HIDE DEF batch
<1>8. ASSUME NEW i \in 1..n, NEW s
      PROVE  s \in Req!ToSet(batch(i)) <=> \E p \in (pos(i - 1) + 1)..pos(i) : stocks[p] = s
  <2> DEFINE a == pos(i - 1)
             b == pos(i)
             u == batch(i)
  <2>1. a \in Nat /\ b \in Nat /\ a <= b
    BY <1>5
  <2>2. u \in Seq(AnyStock) /\ Len(u) = b - a /\ \A k \in 1..(b - a) : u[k] = stocks[a + k]
    BY <1>7
  <2> HIDE DEF a, b, u
  <2>3. DOMAIN u = 1..(b - a)
    BY <2>2, LenProperties
  <2>4. s \in Req!ToSet(u) <=> \E k \in 1..(b - a) : u[k] = s
    BY <2>3 DEF Req!ToSet
  <2>5. ASSUME NEW k \in 1..(b - a), u[k] = s PROVE \E p \in (a + 1)..b : stocks[p] = s
    <3>1. a + k \in (a + 1)..b /\ stocks[a + k] = s
      BY <2>1, <2>2, <2>5
    <3>2. QED
      BY <3>1
  <2>6. ASSUME NEW p \in (a + 1)..b, stocks[p] = s PROVE \E k \in 1..(b - a) : u[k] = s
    <3>1. PICK k \in 1..(b - a) : a + k = p
      <4>1. p - a \in 1..(b - a) /\ a + (p - a) = p
        BY <2>1
      <4>2. QED
        BY <4>1
    <3>2. u[k] = s
      BY <2>2, <2>6, <3>1
    <3>3. QED
      BY <3>2
  <2>7. QED
    BY <2>4, <2>5, <2>6 DEF a, b, u
<1>9. ASSUME NEW i \in 1..n
      PROVE  /\ kept(i) \in Seq(StockRecords)
             /\ \A k \in 1..Len(kept(i)) : kept(i)[k].genuine /\ StockOf(kept(i)[k]) \in Req!ToSet(batch(i)) \cap told
             /\ \A s \in Req!ToSet(batch(i)) \cap told : \E k \in 1..Len(kept(i)) : StockOf(kept(i)[k]) = s
             /\ \A k, l \in 1..Len(kept(i)) : k < l =>
                  /\ StockOf(kept(i)[k]) # StockOf(kept(i)[l])
                  /\ serving.order = stocks => Ahead(StockOf(kept(i)[k]), StockOf(kept(i)[l]))
  <2>1. batch(i) \in Seq(AnyStock) /\ Len(batch(i)) <= MaxQuotes
    <3> HIDE DEF pos
    <3>1. QED
      BY <1>5, <1>7
  <2>2. serving.garbage \notin Req!ToSet(batch(i))
    <3>1. \A p \in (pos(i - 1) + 1)..pos(i) : p \in 1..len
      <4> HIDE DEF pos, len
      <4>1. QED
        BY <1>1, <1>5
    <3> HIDE DEF pos, len
    <3>2. QED
      BY <1>2, <1>8, <3>1
  <2> DEFINE b == batch(i)
             u == kept(i)
             order == serving.order
  <2> HIDE DEF pos, b, told, Ahead
  <2>3. /\ u \in Seq(StockRecords)
        /\ \A k \in 1..Len(u) : u[k].genuine /\ StockOf(u[k]) \in Req!ToSet(b) \cap serving.known \cap Req!ToSet(order)
        /\ \A s \in Req!ToSet(b) \cap serving.known \cap Req!ToSet(order) : \E k \in 1..Len(u) : StockOf(u[k]) = s
        /\ \A k, l \in 1..Len(u) : k < l =>
             /\ StockOf(u[k]) # StockOf(u[l])
             /\ \E x, y \in 1..Len(order) : x < y /\ order[x] = StockOf(u[k]) /\ order[y] = StockOf(u[l])
    BY <2>1, <2>2, BatchIsGenuine DEF b
  <2> HIDE DEF u, kept, order
  <2>4. \A k \in 1..Len(u) : u[k].genuine /\ StockOf(u[k]) \in Req!ToSet(b) \cap told
    BY <2>3 DEF told, order
  <2>5. \A s \in Req!ToSet(b) \cap told : \E k \in 1..Len(u) : StockOf(u[k]) = s
    BY <2>3 DEF told, order
  <2>6. \A k, l \in 1..Len(u) : k < l =>
          StockOf(u[k]) # StockOf(u[l]) /\ (order = stocks => Ahead(StockOf(u[k]), StockOf(u[l])))
    <3> SUFFICES ASSUME NEW k \in 1..Len(u), NEW l \in 1..Len(u), k < l
                 PROVE  StockOf(u[k]) # StockOf(u[l]) /\ (order = stocks => Ahead(StockOf(u[k]), StockOf(u[l])))
      OBVIOUS
    <3>1. PICK x \in 1..Len(order), y \in 1..Len(order) :
            x < y /\ order[x] = StockOf(u[k]) /\ order[y] = StockOf(u[l])
      BY <2>3
    <3>2. ASSUME order = stocks PROVE Ahead(StockOf(u[k]), StockOf(u[l]))
      <4>1. x \in 1..len /\ y \in 1..len /\ stocks[x] = StockOf(u[k]) /\ stocks[y] = StockOf(u[l])
        BY <3>1, <3>2 DEF len
      <4>2. QED
        BY <3>1, <4>1 DEF Ahead
    <3>3. QED
      BY <2>3, <3>2
  <2>7. QED
    BY <2>3, <2>4, <2>5, <2>6 DEF b, u, order
<1> HIDE DEF kept, pos, told, len
<1>10. \A j \in 0..n : pos(j) \in Nat /\ pos(j) <= len
  <2> SUFFICES ASSUME NEW j \in 0..n PROVE pos(j) \in Nat /\ pos(j) <= len
    OBVIOUS
  <2>1. CASE j = 0
    BY <1>1, <1>6, <2>1
  <2>2. CASE j # 0
    <3>1. j \in 1..n
      BY <1>3, <2>2
    <3>2. QED
      BY <1>5, <3>1
  <2>3. QED
    BY <2>1, <2>2
<1>11. \A i, j \in 1..n : i < j => pos(i) <= pos(j - 1)
  <2> SUFFICES ASSUME NEW i \in 1..n, NEW j \in 1..n, i < j PROVE pos(i) <= pos(j - 1)
    OBVIOUS
  <2>1. i \in Nat /\ j - 1 \in Nat /\ i <= j - 1
    BY <1>3
  <2> HIDE DEF c
  <2>2. i * c <= (j - 1) * c /\ i * c \in Nat
    BY <1>1, <2>1, ProductsAscend
  <2>3. pos(j - 1) = (j - 1) * c /\ (j - 1) * c \in Nat
    BY <1>5
  <2>4. pos(i) <= i * c
    <3> DEFINE x == i * c
    <3>1. x \in Nat
      BY <2>2
    <3> HIDE DEF x
    <3>2. (IF x < len THEN x ELSE len) <= x
      BY <1>1, <3>1
    <3>3. QED
      BY <3>2 DEF pos, x
  <2>5. pos(i) \in Nat
    BY <1>5
  <2> DEFINE x == i * c
             y == (j - 1) * c
  <2> HIDE DEF x, y
  <2>6. x \in Nat /\ y \in Nat /\ x <= y /\ pos(i) <= x /\ pos(j - 1) = y
    BY <2>2, <2>3, <2>4 DEF x, y
  <2>7. QED
    BY <2>5, <2>6
<1>12. \A p \in 1..len : \E i \in 1..n : p \in (pos(i - 1) + 1)..pos(i)
  <2> DEFINE T == {j \in 0..n : \A p \in 1..pos(j) : \E i \in 1..n : p \in (pos(i - 1) + 1)..pos(i)}
  <2>1. 0 \in T
    BY <1>3, <1>6
  <2>2. ASSUME NEW j \in 1..n, j - 1 \in T PROVE j \in T
    <3>1. ASSUME NEW p \in 1..pos(j) PROVE \E i \in 1..n : p \in (pos(i - 1) + 1)..pos(i)
      <4>1. CASE p <= pos(j - 1)
        <5>1. p \in 1..pos(j - 1)
          BY <1>5, <4>1
        <5>2. QED
          BY <2>2, <5>1
      <4>2. CASE ~(p <= pos(j - 1))
        <5>1. p \in (pos(j - 1) + 1)..pos(j)
          BY <1>5, <4>2
        <5>2. QED
          BY <5>1
      <4>3. QED
        BY <4>1, <4>2
    <3>2. j \in 0..n
      BY <1>3
    <3>3. QED
      BY <3>1, <3>2
  <2> HIDE DEF T
  <2>3. \A i \in 0..n : i \in T
    BY <1>3, <2>1, <2>2, Upwards
  <2>4. n \in T
    BY <1>3, <2>3
  <2>5. QED
    BY <1>6, <2>4 DEF T
<1>13. ASSUME NEW s, s \in Req!ToSet(stocks) PROVE \E i \in 1..n : s \in Req!ToSet(batch(i))
  <2>1. PICK p \in 1..len : stocks[p] = s
    BY <1>2, <1>13
  <2>2. PICK i \in 1..n : p \in (pos(i - 1) + 1)..pos(i)
    BY <1>12
  <2>3. QED
    BY <1>8, <2>1, <2>2
<1>14. ASSUME NEW i \in 1..n, NEW s, s \in Req!ToSet(batch(i)) PROVE s \in Req!ToSet(stocks)
  <2>1. PICK p \in (pos(i - 1) + 1)..pos(i) : stocks[p] = s
    BY <1>8, <1>14
  <2>2. p \in 1..len
    BY <1>1, <1>5
  <2>3. QED
    BY <1>2, <2>1, <2>2
<1>15. ASSUME NEW i \in 1..n, NEW j \in 1..n, i < j, NEW s, NEW u,
              s \in Req!ToSet(batch(i)), u \in Req!ToSet(batch(j))
       PROVE  s # u /\ Ahead(s, u)
  <2>1. PICK p \in (pos(i - 1) + 1)..pos(i) : stocks[p] = s
    BY <1>8, <1>15
  <2>2. PICK q \in (pos(j - 1) + 1)..pos(j) : stocks[q] = u
    BY <1>8, <1>15
  <2>3. p \in 1..len /\ q \in 1..len /\ p < q
    <3>1. pos(i) <= pos(j - 1)
      BY <1>11, <1>15
    <3>2. pos(i - 1) \in Nat /\ pos(i) \in Nat /\ pos(j - 1) \in Nat /\ pos(j) \in Nat /\ pos(i) <= len /\ pos(j) <= len
      BY <1>5
    <3>3. QED
      BY <1>1, <3>1, <3>2
  <2>4. s # u
    BY <2>1, <2>2, <2>3 DEF len
  <2>5. QED
    BY <2>1, <2>2, <2>3, <2>4
<1> HIDE DEF Ahead, R
<1>16. ss \in Seq(Seq(StockRecords)) /\ Len(ss) = n /\ \A i \in 1..n : ss[i] = kept(i)
  <2>1. ss \in [1..n -> Seq(StockRecords)]
    BY <1>9
  <2>2. QED
    BY <1>3, <2>1
<1> HIDE DEF ss
<1>17. ASSUME NEW x \in StockRecords, NEW y \in StockRecords, StockOf(x) # StockOf(y),
              serving.order = stocks => Ahead(StockOf(x), StockOf(y))
       PROVE  <<x, y>> \in R
  <2> DEFINE z == <<x, y>>
  <2>1. z \in StockRecords \X StockRecords /\ z[1] = x /\ z[2] = y
    OBVIOUS
  <2> HIDE DEF z
  <2>2. z \in R
    BY <1>17, <2>1 DEF R
  <2>3. QED
    BY <2>2 DEF z
<1>18. \A i \in 1..n : \A a \in 1..Len(kept(i)) : kept(i)[a] \in StockRecords
  BY <1>9, ElementOfSeq
<1>19. \A i \in 1..Len(ss) : \A a, b \in 1..Len(ss[i]) : a < b => <<ss[i][a], ss[i][b]>> \in R
  <2> SUFFICES ASSUME NEW i \in 1..n, NEW a \in 1..Len(kept(i)), NEW b \in 1..Len(kept(i)), a < b
               PROVE  <<kept(i)[a], kept(i)[b]>> \in R
    BY <1>16
  <2>1. QED
    BY <1>9, <1>17, <1>18
<1>20. \A i, j \in 1..Len(ss) : i < j => \A a \in 1..Len(ss[i]), b \in 1..Len(ss[j]) : <<ss[i][a], ss[j][b]>> \in R
  <2> SUFFICES ASSUME NEW i \in 1..n, NEW j \in 1..n, i < j, NEW a \in 1..Len(kept(i)), NEW b \in 1..Len(kept(j))
               PROVE  <<kept(i)[a], kept(j)[b]>> \in R
    BY <1>16
  <2>1. StockOf(kept(i)[a]) \in Req!ToSet(batch(i)) /\ StockOf(kept(j)[b]) \in Req!ToSet(batch(j))
    BY <1>9
  <2>2. StockOf(kept(i)[a]) # StockOf(kept(j)[b]) /\ Ahead(StockOf(kept(i)[a]), StockOf(kept(j)[b]))
    BY <1>15, <2>1
  <2>3. QED
    BY <1>17, <1>18, <2>2
<1>21. /\ t \in Seq(StockRecords)
       /\ \A k \in 1..Len(t) : \E i \in 1..n : \E a \in 1..Len(kept(i)) : kept(i)[a] = t[k]
       /\ \A i \in 1..n : \A a \in 1..Len(kept(i)) : \E k \in 1..Len(t) : t[k] = kept(i)[a]
       /\ \A k, l \in 1..Len(t) : k < l => <<t[k], t[l]>> \in R
  <2> HIDE DEF t
  <2>1. /\ FlattenSeq(ss) \in Seq(StockRecords)
        /\ \A k \in 1..Len(FlattenSeq(ss)) : \E i \in 1..Len(ss) : \E a \in 1..Len(ss[i]) : ss[i][a] = FlattenSeq(ss)[k]
        /\ \A i \in 1..Len(ss) : \A a \in 1..Len(ss[i]) : \E k \in 1..Len(FlattenSeq(ss)) : FlattenSeq(ss)[k] = ss[i][a]
        /\ \A k, l \in 1..Len(FlattenSeq(ss)) : k < l => <<FlattenSeq(ss)[k], FlattenSeq(ss)[l]>> \in R
    BY <1>16, <1>19, <1>20, FlattenHas
  <2>2. ASSUME NEW k \in 1..Len(t) PROVE \E i \in 1..n : \E a \in 1..Len(kept(i)) : kept(i)[a] = t[k]
    <3>1. PICK i \in 1..n : \E a \in 1..Len(ss[i]) : ss[i][a] = t[k]
      BY <1>16, <2>1 DEF t
    <3>2. ss[i] = kept(i)
      BY <1>16
    <3>3. QED
      BY <3>1, <3>2
  <2>3. ASSUME NEW i \in 1..n, NEW a \in 1..Len(kept(i)) PROVE \E k \in 1..Len(t) : t[k] = kept(i)[a]
    <3>1. ss[i] = kept(i) /\ i \in 1..Len(ss)
      BY <1>16
    <3>2. a \in 1..Len(ss[i])
      BY <3>1
    <3>3. \E k \in 1..Len(t) : t[k] = ss[i][a]
      BY <2>1, <3>1, <3>2 DEF t
    <3>4. QED
      BY <3>1, <3>3
  <2>4. t \in Seq(StockRecords) /\ \A k, l \in 1..Len(t) : k < l => <<t[k], t[l]>> \in R
    BY <2>1 DEF t
  <2>5. QED
    BY <2>2, <2>3, <2>4
<1>22. Req!FlattenSeq(ss) = t
  BY DEF FlattenSeq, Req!FlattenSeq
<1> HIDE DEF t
<1>23. ASSUME NEW k \in 1..Len(t) PROVE t[k].genuine /\ StockOf(t[k]) \in Req!ToSet(stocks) \cap told
  <2>1. PICK i \in 1..n : \E a \in 1..Len(kept(i)) : kept(i)[a] = t[k]
    BY <1>21
  <2>2. t[k].genuine /\ StockOf(t[k]) \in Req!ToSet(batch(i)) \cap told
    BY <1>9, <2>1
  <2>3. QED
    BY <1>14, <2>2
<1>24. ASSUME NEW s \in Req!ToSet(stocks) \cap told PROVE \E k \in 1..Len(t) : StockOf(t[k]) = s
  <2>1. PICK i \in 1..n : s \in Req!ToSet(batch(i))
    BY <1>13
  <2>2. PICK a \in 1..Len(kept(i)) : StockOf(kept(i)[a]) = s
    BY <1>9, <2>1
  <2>3. QED
    BY <1>21, <2>2
<1>25. \A k, l \in 1..Len(t) : k < l =>
         /\ StockOf(t[k]) # StockOf(t[l])
         /\ serving.order = stocks => Ahead(StockOf(t[k]), StockOf(t[l]))
  <2> SUFFICES ASSUME NEW k \in 1..Len(t), NEW l \in 1..Len(t), k < l
               PROVE  /\ StockOf(t[k]) # StockOf(t[l])
                      /\ serving.order = stocks => Ahead(StockOf(t[k]), StockOf(t[l]))
    OBVIOUS
  <2> DEFINE x == <<t[k], t[l]>>
  <2>1. x \in R /\ x[1] = t[k] /\ x[2] = t[l]
    BY <1>21
  <2> HIDE DEF x
  <2>2. QED
    BY <2>1 DEF R
<1>26. QED
  BY <1>4, <1>21, <1>22, <1>23, <1>24, <1>25 DEF told, Ahead, len

\* Every client returns, each once, the quotes of the stocks it is asked for that the server
\* knows and answers for.
LEMMA QuotesAreGenuine ==
  ASSUME NEW client \in Req!QuoteClients, NEW stocks \in Seq(AnyStock), NEW serving \in AnyQuoteServer
  PROVE  Req!QuotesGenuine(client, stocks, serving)
<1> DEFINE asked == Req!StocksOf(client, stocks)
           n == Len(stocks)
<1>1. n \in Nat /\ DOMAIN stocks = 1..n /\ \A i \in 1..n : stocks[i] \in AnyStock
  BY LenProperties, ElementOfSeq
<1>2. \A s : s \in Req!ToSet(stocks) <=> \E i \in 1..n : stocks[i] = s
  BY <1>1 DEF Req!ToSet
<1>3. asked \in Seq(AnyStock) /\ Len(asked) = n /\ DOMAIN asked = 1..n
  <2> HIDE DEF n
  <2>1. ASSUME client = "block" PROVE asked \in [1..n -> AnyStock]
    <3>1. asked = [i \in 1..n |-> <<Req!SH, stocks[i][2]>>]
      BY <1>1, <2>1 DEF Req!StocksOf, Req!InShanghai
    <3>2. ASSUME NEW i \in 1..n PROVE <<Req!SH, stocks[i][2]>> \in AnyStock
      <4>1. stocks[i] \in Nat \X AnyCode
        BY <1>1 DEF AnyStock
      <4>2. Req!SH \in Nat
        BY DEF Req!SH
      <4>3. QED
        BY <4>1, <4>2 DEF AnyStock
    <3>3. QED
      BY <3>1, <3>2
  <2>2. ASSUME client # "block" PROVE asked \in [1..n -> AnyStock]
    <3>1. asked = stocks
      BY <2>2 DEF Req!StocksOf
    <3>2. stocks \in [1..n -> AnyStock]
      BY LenProperties DEF n
    <3>3. QED
      BY <3>1, <3>2
  <2>3. asked \in [1..n -> AnyStock]
    BY <2>1, <2>2
  <2> HIDE DEF asked
  <2>4. QED
    BY <1>1, <2>3
<1> HIDE DEF n
<1> DEFINE t == Req!Quotes(client, serving, stocks)
           order == serving.order
           of(i) == <<t[i].market, t[i].code>>
<1> SUFFICES ASSUME Req!Takes(client, stocks), \A i, j \in DOMAIN asked : asked[i] = asked[j] => i = j,
                    serving.garbage \notin Req!ToSet(asked)
             PROVE  /\ {of(i) : i \in DOMAIN t} = Req!ToSet(asked) \cap serving.known \cap Req!ToSet(order)
                    /\ \A i \in DOMAIN t : t[i].genuine
                    /\ \A i, j \in DOMAIN t : i < j =>
                         /\ of(i) # of(j)
                         /\ order = asked =>
                              \E k, l \in DOMAIN asked : k < l /\ asked[k] = of(i) /\ asked[l] = of(j)
  BY DEF Req!QuotesGenuine
<1>4. ASSUME NEW s \in Req!ToSet(stocks)
      PROVE  /\ Req!Strict(s[2])
             /\ client \in {"sync", "direct"} => ~Req!IsBlockCode(s[2])
             /\ client = "fund" => Req!IsFund(s[1], s[2])
  BY DEF Req!Takes
<1>5. ASSUME NEW s \in Req!ToSet(stocks), client = "fund" PROVE ~Req!IsBlockCode(s[2])
  <2>1. s \in Nat \X AnyCode
    BY <1>1, <1>2 DEF AnyStock
  <2>2. s[1] \in Nat /\ s[2] \in AnyCode /\ Req!IsFund(s[1], s[2])
    BY <1>4, <1>5, <2>1
  <2>3. QED
    BY <2>2, FundNoBlock
<1>6. LET u == Req!GetSecurityQuotes(serving, asked)
      IN /\ u \in Seq(StockRecords)
         /\ \A k \in 1..Len(u) : u[k].genuine /\ StockOf(u[k]) \in Req!ToSet(asked) \cap serving.known \cap Req!ToSet(order)
         /\ \A s \in Req!ToSet(asked) \cap serving.known \cap Req!ToSet(order) : \E k \in 1..Len(u) : StockOf(u[k]) = s
         /\ \A k, l \in 1..Len(u) : k < l =>
              /\ StockOf(u[k]) # StockOf(u[l])
              /\ order = asked =>
                   \E i, j \in 1..Len(asked) : i < j /\ asked[i] = StockOf(u[k]) /\ asked[j] = StockOf(u[l])
  <2> HIDE DEF asked
  <2>1. \A i, j \in 1..Len(asked) : asked[i] = asked[j] => i = j
    BY <1>3
  <2>2. QED
    BY <1>3, <2>1, BatchesAreGenuine
<1>7. Req!Quotes(client, serving, stocks) = Req!GetSecurityQuotes(serving, asked)
  <2>1. CASE client = "block"
    BY <2>1 DEF Req!Quotes, Req!BlockQuotes, Req!StocksOf
  <2>2. ASSUME client # "block" PROVE asked = stocks
    BY <2>2 DEF Req!StocksOf
  <2> HIDE DEF asked
  <2>3. CASE client = "async"
    BY <2>2, <2>3 DEF Req!Quotes, Req!AsyncQuotes
  <2>4. ASSUME \A s \in Req!ToSet(stocks) : ~Req!IsBlockCode(s[2])
        PROVE  Req!SyncQuotes(serving, stocks) = Req!GetSecurityQuotes(serving, stocks)
    BY <1>4, <2>4 DEF Req!SyncQuotes
  <2>5. CASE client = "fund"
    <3>1. Req!FundQuotes(serving, stocks) = Req!SyncQuotes(serving, stocks)
      BY <1>4, <2>5 DEF Req!FundQuotes
    <3>2. Req!Quotes(client, serving, stocks) = Req!FundQuotes(serving, stocks)
      BY <2>5 DEF Req!Quotes
    <3>3. QED
      BY <1>5, <2>2, <2>4, <2>5, <3>1, <3>2
  <2>6. CASE client = "sync"
    <3>1. Req!Quotes(client, serving, stocks) = Req!SyncQuotes(serving, stocks)
      BY <2>6 DEF Req!Quotes
    <3>2. QED
      BY <1>4, <2>2, <2>4, <2>6, <3>1
  <2>7. CASE client \notin {"fund", "sync", "async", "block"}
    <3>1. Req!Quotes(client, serving, stocks) = Req!DirectQuotes(serving, stocks) /\ client = "direct"
      BY <2>7 DEF Req!Quotes, Req!QuoteClients, Req!Clients
    <3>2. QED
      BY <1>4, <2>2, <2>7, <3>1 DEF Req!DirectQuotes
  <2>8. QED
    BY <2>1, <2>3, <2>5, <2>6, <2>7
<1> HIDE DEF asked, t, order
<1>8. /\ t \in Seq(StockRecords) /\ DOMAIN t = 1..Len(t)
      /\ \A k \in 1..Len(t) : t[k].genuine /\ StockOf(t[k]) \in Req!ToSet(asked) \cap serving.known \cap Req!ToSet(order)
      /\ \A s \in Req!ToSet(asked) \cap serving.known \cap Req!ToSet(order) : \E k \in 1..Len(t) : StockOf(t[k]) = s
      /\ \A k, l \in 1..Len(t) : k < l =>
           /\ StockOf(t[k]) # StockOf(t[l])
           /\ order = asked => \E i, j \in 1..Len(asked) : i < j /\ asked[i] = StockOf(t[k]) /\ asked[j] = StockOf(t[l])
  <2>1. t = Req!GetSecurityQuotes(serving, asked)
    BY <1>7 DEF t
  <2>3. t \in Seq(StockRecords)
    BY <1>6, <2>1
  <2>4. DOMAIN t = 1..Len(t)
    BY <2>3, LenProperties
  <2>5. /\ \A k \in 1..Len(t) : t[k].genuine /\ StockOf(t[k]) \in Req!ToSet(asked) \cap serving.known \cap Req!ToSet(order)
        /\ \A s \in Req!ToSet(asked) \cap serving.known \cap Req!ToSet(order) : \E k \in 1..Len(t) : StockOf(t[k]) = s
    BY <1>6, <2>1
  <2>6. \A k, l \in 1..Len(t) : k < l =>
          /\ StockOf(t[k]) # StockOf(t[l])
          /\ order = asked => \E i, j \in 1..Len(asked) : i < j /\ asked[i] = StockOf(t[k]) /\ asked[j] = StockOf(t[l])
    BY <1>6, <2>1
  <2>7. QED
    BY <2>3, <2>4, <2>5, <2>6
<1>9. \A k \in DOMAIN t : of(k) = StockOf(t[k])
  BY DEF StockOf
<1> HIDE DEF of
<1> DEFINE mine == Req!ToSet(asked) \cap serving.known \cap Req!ToSet(order)
<1>10. {of(i) : i \in DOMAIN t} = mine
  <2>1. ASSUME NEW k \in DOMAIN t PROVE of(k) \in mine
    BY <1>8, <1>9
  <2>2. ASSUME NEW s \in mine PROVE \E k \in DOMAIN t : of(k) = s
    <3>1. PICK k \in 1..Len(t) : StockOf(t[k]) = s
      BY <1>8
    <3>2. k \in DOMAIN t /\ of(k) = s
      BY <1>8, <1>9, <3>1
    <3>3. QED
      BY <3>2
  <2> HIDE DEF mine
  <2>3. QED
    BY <2>1, <2>2
<1>11. \A i, j \in DOMAIN t : i < j =>
         /\ of(i) # of(j)
         /\ order = asked => \E k, l \in DOMAIN asked : k < l /\ asked[k] = of(i) /\ asked[l] = of(j)
  <2> SUFFICES ASSUME NEW i \in DOMAIN t, NEW j \in DOMAIN t, i < j
               PROVE  /\ of(i) # of(j)
                      /\ order = asked => \E k, l \in DOMAIN asked : k < l /\ asked[k] = of(i) /\ asked[l] = of(j)
    OBVIOUS
  <2>1. of(i) = StockOf(t[i]) /\ of(j) = StockOf(t[j]) /\ i \in 1..Len(t) /\ j \in 1..Len(t)
    BY <1>8, <1>9
  <2>2. of(i) # of(j)
    BY <1>8, <2>1
  <2>3. ASSUME order = asked PROVE \E k, l \in DOMAIN asked : k < l /\ asked[k] = of(i) /\ asked[l] = of(j)
    <3>1. PICK k \in 1..Len(asked), l \in 1..Len(asked) : k < l /\ asked[k] = StockOf(t[i]) /\ asked[l] = StockOf(t[j])
      BY <1>8, <2>1, <2>3
    <3>2. k \in DOMAIN asked /\ l \in DOMAIN asked
      BY <1>3
    <3>3. QED
      BY <2>1, <3>1, <3>2
  <2>4. QED
    BY <2>2, <2>3
<1>12. QED
  BY <1>8, <1>10, <1>11

\* Whatever it is called with, every client's call reaches the server as meant and its answer
\* the right parser, or it is refused; quotes are those of the stocks asked for, each once, in
\* batches of any size (get_security_bars ... get_finance_info, get_block_bars, get_fund_*,
\* get_security_quotes, filter_quotes_by_request, code_bytes_strict).
THEOREM RequestsAreRight == Inputs => []RequestsArrive
<1>1. Begin => RequestsArrive
  BY DEF Begin, RequestsArrive
<1>2. RequestsArrive /\ [OneInput]_job => RequestsArrive'
  <2> SUFFICES ASSUME RequestsArrive, [OneInput]_job PROVE RequestsArrive'
    OBVIOUS
  <2>1. CASE UNCHANGED job
    BY <2>1 DEF RequestsArrive
  <2>2. CASE OneInput
    <3>1. ASSUME NEW k \in Asks, job' = [job |-> "call", client |-> k.client, op |-> k.op, a |-> k.a] PROVE RequestsArrive'
      <4>1. k.client \in Req!Clients /\ k.op \in Req!OpsOf(k.client) /\ k.a \in AnyArguments
        BY InputsAssumption
      <4>2. Req!CallArrives(k.client, k.op, k.a)
        BY <4>1, CallsArrive
      <4>3. k.client = "sync" => Req!SyncRefusesMalformed(k.op, k.a)
        BY <4>1, MalformedIsRefused
      <4>4. QED
        BY <3>1, <4>2, <4>3 DEF RequestsArrive
    <3>2. ASSUME NEW b \in Baskets, job' = [job |-> "quotes", basket |-> b] PROVE RequestsArrive'
      <4>1. b.client \in Req!QuoteClients /\ b.stocks \in Seq(AnyStock) /\ b.server \in AnyQuoteServer
        BY InputsAssumption
      <4>2. Req!QuotesAsked(b.stocks) /\ Req!QuotesGenuine(b.client, b.stocks, b.server)
        BY <4>1, QuotesAreAsked, QuotesAreGenuine
      <4>3. QED
        BY <3>2, <4>2 DEF RequestsArrive
    <3>3. CASE job'.job \notin {"call", "quotes"}
      BY <3>3 DEF RequestsArrive
    <3>4. QED
      BY <2>2, <3>1, <3>2, <3>3, JobsAreInputs
  <2>3. QED
    BY <2>1, <2>2
<1>3. QED
  BY <1>1, <1>2, PTL DEF Inputs
=============================================================================
