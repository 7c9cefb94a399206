---------------------------- MODULE BarPaging_proofs ---------------------------
(* Theorems of BarPaging, for any servers, lists, page sizes and counts: the pages of  *)
(* a call adjoin while no more bars arrive during it than a page holds, are ascending  *)
(* in the synchronous client while at most one arrives, and one server without K-lines *)
(* does not cost a daily request its bars.                                             *)
EXTENDS BarPaging, FiniteSetTheorems, WellFoundedInduction, TLAPS
-----------------------------------------------------------------------------
(* Scans over lists *)

\* Every set of natural numbers but the empty one has a least element.
LEMMA LeastOf ==
  ASSUME NEW T, T \subseteq Nat, T # {}
  PROVE  Min(T) \in T /\ \A y \in T : Min(T) <= y
<1> DEFINE Less == {ss \in Nat \X Nat : ss[1] < ss[2]}
<1>1. IsWellFoundedOn(Less, Nat)
  BY NatLessThanWellFounded DEF OpToRel
<1>2. \E x \in T : \A y \in T : ~(<<y, x>> \in Less)
  <2> HIDE DEF Less
  <2> QED BY <1>1, WFMin
<1>3. PICK x \in T : \A y \in T : ~(<<y, x>> \in Less)
  BY <1>2
<1>4. ASSUME NEW y \in T PROVE x <= y
  <2>1. x \in Nat /\ y \in Nat
    BY <1>3
  <2>2. y < x => <<y, x>> \in Less
    BY <2>1
  <2>3. QED
    BY <1>3, <2>1, <2>2
<1>5. QED
  BY <1>3, <1>4 DEF Min

\* A scan that reaches a server reaches one that is up and not passed over, and the
\* first of the list if that one is such.
LEMMA ScanReaches ==
  ASSUME NEW candidates \in Seq(Servers), NEW skipped, Answering(candidates, skipped) # {}
  PROVE  /\ FirstAnswering(candidates, skipped) \in up \ skipped
         /\ FirstAnswering(candidates, skipped) \in Servers
         /\ 1 \in Answering(candidates, skipped) => FirstAnswering(candidates, skipped) = candidates[1]
<1> DEFINE A == Answering(candidates, skipped)
<1>1. A \subseteq 1..Len(candidates) /\ A \subseteq Nat /\ A # {}
  <2>1. DOMAIN candidates = 1..Len(candidates) /\ Len(candidates) \in Nat
    OBVIOUS
  <2>2. QED
    BY <2>1 DEF Answering
<1>2. Min(A) \in A /\ \A y \in A : Min(A) <= y
  <2> HIDE DEF A
  <2> QED BY <1>1, LeastOf
<1>3. 1 \in A => Min(A) = 1
  <2> HIDE DEF A
  <2>1. Min(A) \in 1..Len(candidates)
    BY <1>1, <1>2
  <2>2. 1 \in A => Min(A) <= 1
    BY <1>2
  <2>3. QED
    BY <2>1, <2>2
<1>4. QED
  <2>1. PICK m \in A : m = Min(A)
    BY <1>2
  <2>2. FirstAnswering(candidates, skipped) = candidates[m]
    BY <2>1 DEF FirstAnswering
  <2>3. candidates[m] \in up \ skipped /\ candidates[m] \in Servers
    BY <1>1 DEF Answering
  <2>4. QED
    BY <1>3, <2>1, <2>2, <2>3
-----------------------------------------------------------------------------
(* Sequences of bars *)

LEMMA SeqGrows ==
  ASSUME NEW S, NEW T, S \subseteq T
  PROVE  Seq(S) \subseteq Seq(T)
<1>1. ASSUME NEW s \in Seq(S) PROVE s \in Seq(T)
  <2>1. s \in [1..Len(s) -> S] /\ Len(s) \in Nat
    OBVIOUS
  <2>2. s \in [1..Len(s) -> T]
    BY <2>1
  <2>3. QED
    BY <2>1, <2>2
<1>2. QED
  BY <1>1

LEMMA RangeOfJoined ==
  ASSUME NEW S, NEW s \in Seq(S), NEW t \in Seq(S)
  PROVE  ToSet(s \o t) = ToSet(s) \cup ToSet(t)
<1>1. /\ s \o t \in Seq(S) /\ Len(s \o t) = Len(s) + Len(t)
      /\ \A i \in 1..(Len(s) + Len(t)) : (s \o t)[i] = IF i <= Len(s) THEN s[i] ELSE t[i - Len(s)]
  OBVIOUS
<1>2. /\ DOMAIN s = 1..Len(s) /\ DOMAIN t = 1..Len(t) /\ DOMAIN (s \o t) = 1..(Len(s) + Len(t))
      /\ Len(s) \in Nat /\ Len(t) \in Nat
  BY <1>1
<1>3. ASSUME NEW x \in ToSet(s \o t) PROVE x \in ToSet(s) \cup ToSet(t)
  <2>1. PICK i \in 1..(Len(s) + Len(t)) : x = (s \o t)[i]
    BY <1>2, <1>3 DEF ToSet
  <2>2. CASE i <= Len(s)
    BY <1>1, <1>2, <2>1, <2>2 DEF ToSet
  <2>3. CASE ~(i <= Len(s))
    <3>1. x = t[i - Len(s)] /\ i - Len(s) \in 1..Len(t)
      BY <1>1, <1>2, <2>1, <2>3
    <3>2. QED
      BY <1>2, <3>1 DEF ToSet
  <2>4. QED
    BY <2>2, <2>3
<1>4. ASSUME NEW x \in ToSet(s) PROVE x \in ToSet(s \o t)
  <2>1. PICK i \in 1..Len(s) : x = s[i]
    BY <1>2, <1>4 DEF ToSet
  <2>2. i \in 1..(Len(s) + Len(t)) /\ x = (s \o t)[i]
    BY <1>1, <1>2, <2>1
  <2>3. QED
    BY <1>2, <2>2 DEF ToSet
<1>5. ASSUME NEW x \in ToSet(t) PROVE x \in ToSet(s \o t)
  <2>1. PICK i \in 1..Len(t) : x = t[i]
    BY <1>2, <1>5 DEF ToSet
  <2>2. /\ Len(s) + i \in 1..(Len(s) + Len(t)) /\ ~(Len(s) + i <= Len(s))
        /\ (Len(s) + i) - Len(s) = i
    BY <1>2
  <2>3. x = (s \o t)[Len(s) + i]
    BY <1>1, <2>1, <2>2
  <2>4. QED
    BY <1>2, <2>2, <2>3 DEF ToSet
<1>6. QED
  BY <1>3, <1>4, <1>5

\* Both clients put the same bars together.
LEMMA JoinedBars ==
  ASSUME NEW S, NEW bars \in Seq(S), NEW acc \in Seq(S)
  PROVE  /\ Join(bars, acc) \in Seq(S) /\ Len(Join(bars, acc)) = Len(acc) + Len(bars)
         /\ ToSet(Join(bars, acc)) = ToSet(acc) \cup ToSet(bars)
<1>1. /\ ToSet(bars \o acc) = ToSet(acc) \cup ToSet(bars)
      /\ ToSet(acc \o bars) = ToSet(acc) \cup ToSet(bars)
  BY RangeOfJoined
<1>2. CASE kind = "sync"
  BY <1>1, <1>2 DEF Join
<1>3. CASE kind # "sync"
  BY <1>1, <1>3 DEF Join
<1>4. QED
  BY <1>2, <1>3

\* What a server answers: nothing behind the oldest bar, else bars without a gap, as many
\* as were asked for unless they end before.
LEMMA AnswerIs ==
  ASSUME top \in Nat, NEW o \in 0..(Width - 1), NEW c \in Nat \ {0}
  PROVE  /\ o >= top => Answer(o, c) = <<>>
         /\ o < top =>
              /\ Answer(o, c) # <<>> /\ Answer(o, c) \in Seq(1..top)
              /\ Len(Answer(o, c)) = Minimum(top - o, c)
              /\ \A i \in 1..Len(Answer(o, c)) :
                   Answer(o, c)[i] = top - o - Len(Answer(o, c)) + i
              /\ ToSet(Answer(o, c)) = (top - o - Len(Answer(o, c)) + 1)..(top - o)
<1>1. Width \in Nat \ {0} /\ o % Width = o /\ o \in Nat
  BY BarPagingAssumption
<1> DEFINE n == top - o
           len == IF n <= 0 THEN 0 ELSE IF n < c THEN n ELSE c
           low == IF n < c THEN 0 ELSE n - c
<1>2. Answer(o, c) = [i \in 1..len |-> low + i]
  BY <1>1 DEF Answer
<1>3. CASE o >= top
  <2>1. len = 0 /\ 1..len = {}
    BY <1>1, <1>3
  <2>2. QED
    BY <1>1, <1>2, <1>3, <2>1
<1>4. CASE o < top
  <2>1. /\ n \in Nat \ {0} /\ len \in Nat \ {0} /\ len <= n /\ n <= top
        /\ low = n - len /\ len = Minimum(n, c)
    BY <1>1, <1>4 DEF Minimum
  <2> HIDE DEF n, len, low
  <2>2. \A i \in 1..len : low + i \in 1..top
    BY <2>1
  <2>3. /\ Answer(o, c) \in Seq(1..top) /\ Len(Answer(o, c)) = len
        /\ DOMAIN Answer(o, c) = 1..len
        /\ \A i \in 1..len : Answer(o, c)[i] = n - len + i
    <3>1. Answer(o, c) \in [1..len -> 1..top]
      BY <1>2, <2>2
    <3>2. \A i \in 1..len : Answer(o, c)[i] = n - len + i
      BY <1>2, <2>1
    <3>3. Answer(o, c) \in Seq(1..top) /\ Len(Answer(o, c)) = len
      BY <2>1, <3>1
    <3>4. QED
      BY <3>1, <3>2, <3>3
  <2>4. Answer(o, c) # <<>>
    BY <2>1, <2>3
  <2>5. ASSUME NEW b \in (n - len + 1)..n PROVE b \in ToSet(Answer(o, c))
    <3>1. b - (n - len) \in 1..len /\ b = (n - len) + (b - (n - len))
      BY <2>1
    <3>2. b = Answer(o, c)[b - (n - len)]
      BY <2>3, <3>1
    <3>3. QED
      BY <2>3, <3>1, <3>2 DEF ToSet
  <2>6. ASSUME NEW b \in ToSet(Answer(o, c)) PROVE b \in (n - len + 1)..n
    <3>1. PICK i \in 1..len : b = Answer(o, c)[i]
      BY <2>3, <2>6 DEF ToSet
    <3>2. QED
      BY <2>1, <2>3, <3>1
  <2>7. ToSet(Answer(o, c)) = (n - len + 1)..n
    BY <2>5, <2>6
  <2>8. QED
    BY <1>1, <1>4, <2>1, <2>3, <2>4, <2>7 DEF n
<1>5. QED
  BY <1>1, <1>3, <1>4
-----------------------------------------------------------------------------
(* Servers *)

LEMMA CandidateLists ==
  ASSUME ServerTypeOK
  PROVE  /\ AnyCandidates \in Seq(Servers) /\ RetryCandidates \in Seq(Servers)
         /\ Primary \in Seq(Servers)
         /\ \A s \in Servers : <<s>> \in Seq(Servers)
<1>1. Primary \in Seq(Servers) /\ AllKnown \in Seq(Servers) /\ list \in Seq(Servers)
  BY ServerListAssumption DEF ServerTypeOK
<1>2. Last1 \in Seq(Servers)
  BY DEF Last1, ServerTypeOK
<1>3. /\ Last1 \o list \o Primary \o AllKnown \in Seq(Servers)
      /\ Last1 \o Primary \in Seq(Servers)
  BY <1>1, <1>2
<1>4. QED
  BY <1>1, <1>2, <1>3 DEF AnyCandidates, RetryCandidates

\* A scan ends with one of the servers, or with the last one as it was.
LEMMA ReachTypes ==
  ASSUME ServerTypeOK, NEW candidates \in Seq(Servers), NEW skipped, Reach(candidates, skipped)
  PROVE  last' \in Servers \cup {None} /\ connected' \in BOOLEAN
<1>1. CASE Answering(candidates, skipped) # {}
  BY <1>1, ScanReaches DEF Reach
<1>2. CASE Answering(candidates, skipped) = {}
  <2>1. candidates # <<>> => Last(candidates) \in Servers
    BY DEF Last
  <2>2. QED
    BY <1>2, <2>1 DEF Reach, ServerTypeOK
<1>3. QED
  BY <1>1, <1>2

\* Heartbeat, reconnect and the switch of servers change no list.
LEMMA MovesOnly ==
  ASSUME ServerTypeOK, Beat \/ Reconnect \/ SwitchServer \/ ConnectToAny \/ (\E s \in Servers : Connect(s))
  PROVE  ServerTypeOK' /\ UNCHANGED <<kind, up, list, blocked>>
<1>1. UNCHANGED <<kind, up, list, blocked>>
  BY DEF Beat, Reconnect, SwitchServer, ConnectToAny, Connect
<1>2. last' \in Servers \cup {None} /\ connected' \in BOOLEAN
  <2>1. CASE Beat
    <3>1. CASE kind = "async" \/ Answering(Primary, SkippedByBeat) = {}
      BY <2>1, <3>1 DEF Beat, ServerTypeOK
    <3>2. CASE ~(kind = "async" \/ Answering(Primary, SkippedByBeat) = {})
      <4>1. FirstAnswering(Primary, SkippedByBeat) \in Servers
        BY <3>2, ScanReaches, CandidateLists
      <4>2. QED
        BY <2>1, <3>2, <4>1 DEF Beat, ServerTypeOK
    <3>3. QED
      BY <3>1, <3>2
  <2>2. CASE Reconnect
    BY <2>2, ReachTypes, CandidateLists DEF Reconnect, ServerTypeOK
  <2>3. CASE SwitchServer
    BY <2>3, ReachTypes, CandidateLists DEF SwitchServer
  <2>4. CASE ConnectToAny
    BY <2>4, ReachTypes, CandidateLists DEF ConnectToAny, ServerTypeOK
  <2>5. CASE \E s \in Servers : Connect(s)
    BY <2>5, ReachTypes, CandidateLists DEF Connect
  <2>6. QED
    BY <2>1, <2>2, <2>3, <2>4, <2>5
<1>3. QED
  BY <1>1, <1>2 DEF ServerTypeOK

LEMMA ListsOnly ==
  ASSUME ServerTypeOK,
         \/ Disconnect \/ ClearBlocked \/ (\E l \in Lists : SetServers(l))
         \/ \E s \in Servers : UnblockServer(s) \/ AddServer(s)
         \/ \E s \in Blockable \cap Servers : BlockServer(s)
  PROVE  ServerTypeOK' /\ kind' = kind /\ up' = up
<1>1. CASE Disconnect
  BY <1>1 DEF Disconnect, ServerTypeOK
<1>2. CASE ClearBlocked
  BY <1>2 DEF ClearBlocked, ServerTypeOK
<1>3. CASE \E l \in Lists : SetServers(l)
  BY <1>3, ServerListAssumption DEF SetServers, ServerTypeOK
<1>4. CASE \E s \in Servers : UnblockServer(s)
  BY <1>4 DEF UnblockServer, ServerTypeOK
<1>5. CASE \E s \in Servers : AddServer(s)
  BY <1>5, ServerListAssumption DEF AddServer, SetServers, ServerTypeOK
<1>6. CASE \E s \in Blockable \cap Servers : BlockServer(s)
  BY <1>6 DEF BlockServer, ServerTypeOK
<1>7. QED
  BY <1>1, <1>2, <1>3, <1>4, <1>5, <1>6
-----------------------------------------------------------------------------
(* Types and progress *)

CallType ==
  [at : {"idle", "page", "done", "failed"}, daily : BOOLEAN, calm : BOOLEAN,
   want : 0..(Width - 1), remaining : 0..(Width - 1), offset : 0..(Width - 1),
   attempt : 0..2, acc : Seq(1..top), top0 : 0..top]

\* Changing fields within their types keeps a call one.
LEMMA CallChanged ==
  ASSUME NEW A, NEW B, NEW N, NEW T, NEW Q, NEW M,
         NEW c \in [at : A, daily : B, calm : B, want : N, remaining : N, offset : N,
                   attempt : T, acc : Q, top0 : M],
         NEW at \in A, NEW left \in N, NEW next \in N, NEW n \in T, NEW acc \in Q
  PROVE  [c EXCEPT !.acc = acc, !.remaining = left, !.offset = next, !.attempt = n, !.at = at]
           \in [at : A, daily : B, calm : B, want : N, remaining : N, offset : N,
               attempt : T, acc : Q, top0 : M]
OBVIOUS

LEMMA InitPaging == Init => PagingInv
<1> SUFFICES ASSUME Init PROVE PagingInv
  OBVIOUS
<1>1. Width \in Nat /\ MaxTop \in Nat \ {0} /\ 0 \in 0..(Width - 1) /\ top \in 1..MaxTop
  BY BarPagingAssumption DEF Init
<1>2. ServerTypeOK
  <2>1. <<>> \in Seq(Servers) /\ {} \subseteq Servers
    OBVIOUS
  <2>2. kind \in Kinds /\ up \in SUBSET Servers /\ last = None /\ list = <<>> /\ blocked = {}
    BY DEF Init, ServerInit
  <2>3. connected \in BOOLEAN
    BY DEF Init, ServerInit
  <2>4. QED
    BY <2>1, <2>2, <2>3 DEF ServerTypeOK
<1>3. Idle \in CallType
  BY <1>1 DEF Idle, CallType
<1>4. TypeOK
  BY <1>1, <1>2, <1>3 DEF Init, TypeOK, CallType
<1>5. Progress
  BY DEF Init, Progress, Idle
<1>6. QED
  BY <1>4, <1>5 DEF PagingInv

\* A page that is about to be asked for.
LEMMA PageAhead ==
  ASSUME PagingInv, call.at = "page"
  PROVE  /\ top \in Nat \ {0} /\ call \in CallType
         /\ call.offset \in 0..(Width - 1) /\ call.remaining \in Nat \ {0} /\ call.acc \in Seq(1..top)
         /\ Batch \in Nat \ {0} /\ Batch <= call.remaining /\ Batch <= Page
         /\ Batch # call.remaining => Batch = Page
         /\ Len(call.acc) = call.offset /\ call.offset + call.remaining = call.want
         /\ call.offset <= top
<1>1. call \in CallType /\ top \in Nat \ {0} /\ Page \in Nat \ {0} /\ Width \in Nat
  BY BarPagingAssumption DEF PagingInv, TypeOK, CallType
<1>2. /\ call.remaining > 0 /\ call.offset <= top
      /\ Len(call.acc) = call.offset /\ call.offset + call.remaining = call.want
  BY DEF PagingInv, Progress
<1>3. /\ call.offset \in 0..(Width - 1) /\ call.remaining \in Nat \ {0} /\ call.acc \in Seq(1..top)
  BY <1>1, <1>2 DEF CallType
<1>4. QED
  BY <1>1, <1>2, <1>3 DEF Batch

\* What the page adds to the call.
LEMMA PageAdds ==
  ASSUME PagingInv, call.at = "page", NEW bars, bars = Answer(call.offset, Batch), bars # <<>>,
         Receive(bars), UNCHANGED top
  PROVE  /\ call' \in CallType
         /\ Len(bars) \in 1..Batch /\ call.offset < top
         /\ call'.offset = call.offset + Len(bars) /\ call'.remaining = call.remaining - Len(bars)
         /\ call'.acc = Join(bars, call.acc) /\ Len(call'.acc) = call'.offset
         /\ call'.attempt = 0
         /\ UNCHANGED <<call.want, call.daily, call.top0, call.calm>>
         /\ call'.at = IF Len(bars) < Batch \/ call'.remaining = 0 THEN "done" ELSE "page"
         /\ Len(bars) = Minimum(top - call.offset, Batch)
<1>1. /\ top \in Nat \ {0} /\ call \in CallType
      /\ call.offset \in 0..(Width - 1) /\ call.remaining \in Nat \ {0} /\ call.acc \in Seq(1..top)
      /\ Batch \in Nat \ {0} /\ Batch <= call.remaining
      /\ Len(call.acc) = call.offset /\ call.offset + call.remaining = call.want
  BY PageAhead
<1>2. call.offset < top /\ bars \in Seq(1..top) /\ Len(bars) = Minimum(top - call.offset, Batch)
  <2>1. call.offset >= top => bars = <<>>
    BY <1>1, AnswerIs
  <2>2. call.offset < top
    BY <1>1, <2>1
  <2>3. QED
    BY <1>1, <2>2, AnswerIs
<1>3. Len(bars) \in 1..Batch
  BY <1>1, <1>2 DEF Minimum
<1>4. Join(bars, call.acc) \in Seq(1..top) /\ Len(Join(bars, call.acc)) = call.offset + Len(bars)
  BY <1>1, <1>2, JoinedBars
<1>5. /\ call'.offset = call.offset + Len(bars) /\ call'.remaining = call.remaining - Len(bars)
      /\ call'.acc = Join(bars, call.acc) /\ call'.attempt = 0
      /\ call'.at = IF Len(bars) < Batch \/ call.remaining - Len(bars) = 0 THEN "done" ELSE "page"
      /\ UNCHANGED <<call.want, call.daily, call.top0, call.calm>>
  BY <1>1 DEF Receive, CallType
<1>6. call.want \in 0..(Width - 1) /\ Width \in Nat
  BY <1>1, BarPagingAssumption DEF CallType
<1>7. call.offset + Len(bars) \in 0..(Width - 1) /\ call.remaining - Len(bars) \in 0..(Width - 1)
  BY <1>1, <1>3, <1>6
<1>8. call' \in CallType
  <2> DEFINE r == IF Len(bars) < Batch \/ call.remaining - Len(bars) = 0 THEN "done" ELSE "page"
  <2>1. r \in {"idle", "page", "done", "failed"}
    OBVIOUS
  <2>2. call' = [call EXCEPT !.acc = Join(bars, @), !.remaining = call.remaining - Len(bars),
                   !.offset = @ + Len(bars), !.attempt = 0, !.at = r]
    BY DEF Receive
  <2> HIDE DEF r
  <2>3. call' \in CallType
    <3> DEFINE acc == Join(bars, call.acc)
               left == call.remaining - Len(bars)
               next == call.offset + Len(bars)
    <3>1. call' = [call EXCEPT !.acc = acc, !.remaining = left, !.offset = next, !.attempt = 0, !.at = r]
      BY <1>1, <2>2 DEF CallType
    <3>2. acc \in Seq(1..top) /\ left \in 0..(Width - 1) /\ next \in 0..(Width - 1)
      BY <1>4, <1>7
    <3> HIDE DEF acc, left, next
    <3>3. 0 \in 0..2
      OBVIOUS
    <3>4. [call EXCEPT !.acc = acc, !.remaining = left, !.offset = next, !.attempt = 0, !.at = r] \in CallType
      BY <1>1, <2>1, <3>2, <3>3, CallChanged DEF CallType
    <3>5. QED
      BY <3>1, <3>4
  <2>4. QED
    BY <2>3
<1>9. QED
  BY <1>2, <1>3, <1>4, <1>5, <1>8

LEMMA ReceiveProgress ==
  ASSUME PagingInv, call.at = "page", NEW bars, bars = Answer(call.offset, Batch), bars # <<>>,
         Receive(bars), UNCHANGED top
  PROVE  Progress'
<1>1. /\ top \in Nat \ {0} /\ call \in CallType
      /\ call.offset \in 0..(Width - 1) /\ call.remaining \in Nat \ {0}
      /\ Batch \in Nat \ {0} /\ Batch <= call.remaining
      /\ Batch # call.remaining => Batch = Page
      /\ Len(call.acc) = call.offset /\ call.offset + call.remaining = call.want
  BY PageAhead
<1>2. /\ call' \in CallType
      /\ Len(bars) \in 1..Batch /\ call.offset < top
      /\ call'.offset = call.offset + Len(bars) /\ call'.remaining = call.remaining - Len(bars)
      /\ Len(call'.acc) = call'.offset
      /\ UNCHANGED <<call.want, call.daily, call.top0, call.calm>>
      /\ call'.at = IF Len(bars) < Batch \/ call'.remaining = 0 THEN "done" ELSE "page"
      /\ Len(bars) = Minimum(top - call.offset, Batch)
  BY PageAdds
<1>3. top \in call.top0..(call.top0 + MaxNew) /\ (call.calm => top = call.top0)
  BY DEF PagingInv, Progress
<1>4. call'.at # "idle" /\ call'.offset + call'.remaining = call'.want
  BY <1>1, <1>2
<1>5. ASSUME call'.at = "page"
      PROVE  call'.remaining > 0 /\ call'.offset <= top /\ call'.offset >= Page
  <2>1. Len(bars) = Batch /\ call'.remaining # 0 /\ Batch # call.remaining
    BY <1>1, <1>2, <1>5
  <2>2. Batch = Page /\ Batch <= top - call.offset
    BY <1>1, <1>2, <2>1 DEF Minimum
  <2>3. QED
    BY <1>1, <1>2, <2>1, <2>2, BarPagingAssumption
<1>6. QED
  BY <1>2, <1>3, <1>4, <1>5 DEF Progress

\* The steps that leave the call alone: what they may do to the servers.
LEMMA ServersStep ==
  ASSUME PagingInv, (AskFails /\ UNCHANGED call) \/ Manage \/ Heartbeat
  PROVE  ServerTypeOK' /\ UNCHANGED <<kind, up, top, empty, call>>
<1>0. ServerTypeOK
  BY DEF PagingInv, TypeOK
<1>1. CASE AskFails /\ UNCHANGED call
  <2>1. UNCHANGED <<top, empty, call>> /\ (Reconnect \/ UNCHANGED serverVars)
    BY <1>1 DEF AskFails
  <2>2. CASE Reconnect
    BY <1>0, <2>1, <2>2, MovesOnly
  <2>3. CASE UNCHANGED serverVars
    BY <1>0, <2>1, <2>3 DEF serverVars, ServerTypeOK
  <2>4. QED
    BY <2>1, <2>2, <2>3
<1>2. CASE Manage
  <2>1. UNCHANGED <<top, empty, call>>
    BY <1>2 DEF Manage
  <2>2. CASE ConnectToAny \/ \E s \in Servers : Connect(s)
    BY <1>0, <2>1, <2>2, MovesOnly
  <2>3. CASE \/ Disconnect \/ ClearBlocked \/ (\E l \in Lists : SetServers(l))
             \/ \E s \in Servers : UnblockServer(s) \/ AddServer(s)
             \/ \E s \in Blockable \cap Servers : BlockServer(s)
    <3>1. ServerTypeOK' /\ kind' = kind /\ up' = up
      BY <1>0, <2>3, ListsOnly
    <3>2. QED
      BY <2>1, <3>1
  <2>4. QED
    BY <1>2, <2>2, <2>3, BarPagingAssumption DEF Manage
<1>3. CASE Heartbeat
  BY <1>0, <1>3, MovesOnly DEF Heartbeat
<1>4. QED
  BY <1>1, <1>2, <1>3

LEMMA Framed ==
  ASSUME PagingInv, ServerTypeOK', UNCHANGED <<top, empty, call>>
  PROVE  PagingInv'
<1>1. TypeOK'
  BY DEF PagingInv, TypeOK
<1>2. Progress'
  BY DEF PagingInv, Progress
<1>3. QED
  BY <1>1, <1>2 DEF PagingInv

\* The steps that change the call, and the market.
LEMMA CallsTyped ==
  ASSUME PagingInv, ServerTypeOK', UNCHANGED <<top, empty>>, call' \in CallType, Progress'
  PROVE  PagingInv'
<1>1. TypeOK'
  BY DEF PagingInv, TypeOK, CallType
<1>2. QED
  BY <1>1 DEF PagingInv

LEMMA StartPaging ==
  ASSUME PagingInv, NEW d \in BOOLEAN, NEW n \in Counts, BarsAll(d, n)
  PROVE  PagingInv'
<1>1. Width \in Nat /\ n \in 0..(Width - 1) /\ top \in Nat \ {0} /\ MaxNew \in Nat
  BY BarPagingAssumption DEF PagingInv, TypeOK
<1>2. /\ UNCHANGED <<top, empty>> /\ UNCHANGED serverVars
      /\ call' = [at |-> IF n = 0 THEN "done" ELSE "page", daily |-> d, want |-> n, remaining |-> n,
                  offset |-> 0, attempt |-> 0, acc |-> <<>>, top0 |-> top, calm |-> TRUE]
  BY DEF BarsAll, Idle
<1>3. call' \in CallType
  <2>1. <<>> \in Seq(1..top) /\ 0 \in 0..(Width - 1) /\ 0 \in 0..2 /\ top \in 0..top
    BY <1>1
  <2>2. TRUE \in BOOLEAN
    OBVIOUS
  <2>3. QED
    BY <1>1, <1>2, <2>1, <2>2 DEF CallType
<1>4. ServerTypeOK'
  BY <1>2 DEF PagingInv, TypeOK, ServerTypeOK, serverVars
<1>5. Progress'
  <2>1. /\ call'.at = (IF n = 0 THEN "done" ELSE "page") /\ call'.acc = <<>> /\ call'.offset = 0
        /\ call'.remaining = n /\ call'.want = n /\ call'.top0 = top /\ top' = top
    BY <1>2
  <2>2. Len(<<>>) = 0 /\ 0 + n = n /\ top \in top..(top + MaxNew) /\ 0 <= top
    BY <1>1
  <2>3. QED
    BY <1>1, <2>1, <2>2 DEF Progress
<1>6. QED
  BY <1>2, <1>3, <1>4, <1>5, CallsTyped

\* An answer, or none: a page is added, another server is asked, or the call ends.
LEMMA AskCases ==
  ASSUME PagingInv, Ask
  PROVE  \/ /\ last \notin empty /\ Answer(call.offset, Batch) # <<>>
            /\ Receive(Answer(call.offset, Batch)) /\ UNCHANGED serverVars
         \/ /\ last \in empty \/ Answer(call.offset, Batch) = <<>>
            /\ BlameServer /\ SwitchServer /\ call' = [call EXCEPT !.attempt = @ + 1]
         \/ /\ last \in empty \/ Answer(call.offset, Batch) = <<>>
            /\ ~BlameServer /\ call' = [call EXCEPT !.at = "done"] /\ UNCHANGED serverVars
<1> DEFINE bars == IF last \in empty THEN <<>> ELSE Answer(call.offset, Batch)
<1>1. CASE bars # <<>> /\ Receive(bars) /\ UNCHANGED serverVars
  BY <1>1
<1>2. CASE bars = <<>> /\ BlameServer /\ SwitchServer /\ call' = [call EXCEPT !.attempt = @ + 1]
  BY <1>2
<1>3. CASE bars = <<>> /\ ~BlameServer /\ call' = [call EXCEPT !.at = "done"] /\ UNCHANGED serverVars
  BY <1>3
<1>4. QED
  BY <1>1, <1>2, <1>3 DEF Ask

\* Another attempt: the server is another one, the call as it was.
LEMMA Again ==
  ASSUME PagingInv, Ask, BlameServer, call' = [call EXCEPT !.attempt = @ + 1]
  PROVE  /\ call' \in CallType /\ call'.attempt = call.attempt + 1
         /\ UNCHANGED <<call.at, call.daily, call.calm, call.want, call.remaining, call.offset,
                        call.acc, call.top0>>
<1>1. call \in CallType /\ call.at = "page"
  BY PageAhead DEF Ask
<1>2. call.attempt \in 0..2 /\ call.attempt < MaxRetry - 1 /\ MaxRetry \in {1, 3}
  BY <1>1 DEF BlameServer, MaxRetry, CallType
<1>3. call.attempt + 1 \in 0..2
  BY <1>2
<1>4. QED
  BY <1>1, <1>3 DEF CallType

\* The call ends with what it has.
LEMMA Ended ==
  ASSUME call \in CallType, NEW r \in {"done", "failed"}, call' = [call EXCEPT !.at = r]
  PROVE  /\ call' \in CallType /\ call'.at = r
         /\ UNCHANGED <<call.daily, call.calm, call.want, call.remaining, call.offset,
                        call.attempt, call.acc, call.top0>>
BY DEF CallType

LEMMA AskPaging ==
  ASSUME PagingInv, Ask
  PROVE  PagingInv'
<1>0. /\ call.at = "page" /\ UNCHANGED <<top, empty>> /\ ServerTypeOK /\ call \in CallType
  BY PageAhead DEF Ask, PagingInv, TypeOK
<1> DEFINE bars == Answer(call.offset, Batch)
<1>1. CASE bars # <<>> /\ Receive(bars) /\ UNCHANGED serverVars
  <2>1. call' \in CallType /\ Progress'
    BY <1>0, <1>1, PageAdds, ReceiveProgress
  <2>2. ServerTypeOK'
    BY <1>0, <1>1 DEF serverVars, ServerTypeOK
  <2>3. QED
    BY <1>0, <2>1, <2>2, CallsTyped
<1>2. CASE BlameServer /\ SwitchServer /\ call' = [call EXCEPT !.attempt = @ + 1]
  <2>1. ServerTypeOK'
    BY <1>0, <1>2, MovesOnly
  <2>2. /\ call' \in CallType
        /\ UNCHANGED <<call.at, call.daily, call.calm, call.want, call.remaining, call.offset,
                       call.acc, call.top0>>
    BY <1>2, Again
  <2>3. Progress'
    BY <1>0, <2>2 DEF PagingInv, Progress
  <2>4. QED
    BY <1>0, <2>1, <2>2, <2>3, CallsTyped
<1>3. CASE call' = [call EXCEPT !.at = "done"] /\ UNCHANGED serverVars
  <2>1. ServerTypeOK'
    BY <1>0, <1>3 DEF serverVars, ServerTypeOK
  <2>2. /\ call' \in CallType /\ call'.at = "done"
        /\ UNCHANGED <<call.daily, call.calm, call.want, call.remaining, call.offset,
                       call.attempt, call.acc, call.top0>>
    BY <1>0, <1>3, Ended
  <2>3. Progress'
    BY <1>0, <2>2 DEF PagingInv, Progress
  <2>4. QED
    BY <1>0, <2>1, <2>2, <2>3, CallsTyped
<1>4. QED
  BY <1>1, <1>2, <1>3, AskCases

\* A bar more, or a server that goes or comes, is noted in the call.
LEMMA Disturbed ==
  ASSUME PagingInv, NewBar \/ Outage
  PROVE  /\ top <= top' /\ (top' # top => top' = top + 1)
         /\ UNCHANGED <<kind, empty, call.at, call.daily, call.want, call.remaining, call.offset,
                        call.attempt, call.acc, call.top0>>
         /\ call'.at # "idle" => ~call'.calm /\ top' <= IF top' = top THEN top ELSE call.top0 + MaxNew
         /\ call.at = "idle" => call' = call
         /\ call' \in CallType
<1>0. top \in Nat \ {0} /\ call \in CallType
  BY DEF PagingInv, TypeOK, CallType
<1>1. CASE NewBar
  <2>1. top' = top + 1 /\ UNCHANGED <<kind, empty>>
    BY <1>1 DEF NewBar, serverVars
  <2>2. CASE call.at = "idle" /\ UNCHANGED call
    BY <1>0, <2>1, <2>2
  <2>3. CASE call.at # "idle" /\ top < call.top0 + MaxNew /\ call' = [call EXCEPT !.calm = FALSE]
    <3>1. call' \in CallType /\ ~call'.calm
      BY <1>0, <2>3 DEF CallType
    <3>2. UNCHANGED <<call.at, call.daily, call.want, call.remaining, call.offset,
                      call.attempt, call.acc, call.top0>>
      BY <1>0, <2>3 DEF CallType
    <3>3. call.top0 \in 0..top /\ MaxNew \in Nat
      BY <1>0, BarPagingAssumption DEF CallType
    <3>4. QED
      BY <1>0, <2>1, <2>3, <3>1, <3>2, <3>3
  <2>4. QED
    BY <1>1, <2>2, <2>3 DEF NewBar
<1>2. CASE Outage
  <2>1. top' = top /\ UNCHANGED <<kind, empty>>
    BY <1>2 DEF Outage, Toggle
  <2>2. CASE call.at = "idle" /\ call' = call
    BY <1>0, <2>1, <2>2
  <2>3. CASE call.at # "idle" /\ call' = [call EXCEPT !.calm = FALSE]
    <3>1. call' \in CallType /\ ~call'.calm
      BY <1>0, <2>3 DEF CallType
    <3>2. UNCHANGED <<call.at, call.daily, call.want, call.remaining, call.offset,
                      call.attempt, call.acc, call.top0>>
      BY <1>0, <2>3 DEF CallType
    <3>3. QED
      BY <1>0, <2>1, <2>3, <3>1, <3>2
  <2>4. QED
    BY <1>2, <2>2, <2>3 DEF Outage
<1>3. QED
  BY <1>1, <1>2

LEMMA DisturbedPaging ==
  ASSUME PagingInv, NewBar \/ Outage
  PROVE  PagingInv'
<1>1. /\ top <= top' /\ (top' # top => top' = top + 1)
      /\ UNCHANGED <<kind, empty, call.at, call.daily, call.want, call.remaining, call.offset,
                     call.attempt, call.acc, call.top0>>
      /\ call'.at # "idle" => ~call'.calm /\ top' <= IF top' = top THEN top ELSE call.top0 + MaxNew
      /\ call.at = "idle" => call' = call
      /\ call' \in CallType
  BY Disturbed
<1>2. top \in 1..MaxTop /\ call \in CallType /\ empty \subseteq Servers /\ ServerTypeOK
      /\ MaxTop \in Nat /\ MaxNew \in Nat
  BY BarPagingAssumption DEF PagingInv, TypeOK, CallType
<1>3. top' \in 1..MaxTop
  <2>1. top' = top \/ top < MaxTop
    BY DEF NewBar, Outage
  <2>2. QED
    BY <1>1, <1>2, <2>1
<1>4. ServerTypeOK'
  <2>1. CASE UNCHANGED serverVars
    BY <1>2, <2>1 DEF ServerTypeOK, serverVars
  <2>2. CASE \E s \in Servers : Toggle(s)
    <3>1. PICK s \in Servers : Toggle(s)
      BY <2>2
    <3>2. up' \subseteq Servers /\ UNCHANGED <<kind, list, blocked, last, connected>>
      BY <1>2, <3>1 DEF Toggle, ServerTypeOK
    <3>3. QED
      BY <1>2, <3>2 DEF ServerTypeOK
  <2>3. QED
    BY <2>1, <2>2 DEF NewBar, Outage
<1>5. TypeOK'
  <2>1. 0..top \subseteq 0..top' /\ 1..top \subseteq 1..top'
    BY <1>1, <1>2, <1>3
  <2>2. Seq(1..top) \subseteq Seq(1..top')
    BY <2>1, SeqGrows
  <2>3. call' \in [at : {"idle", "page", "done", "failed"}, daily : BOOLEAN, calm : BOOLEAN,
                   want : 0..(Width - 1), remaining : 0..(Width - 1), offset : 0..(Width - 1),
                   attempt : 0..2, acc : Seq(1..top'), top0 : 0..top']
    BY <1>1, <2>1, <2>2 DEF CallType
  <2>4. QED
    BY <1>1, <1>2, <1>3, <1>4, <2>3 DEF TypeOK
<1>6. Progress'
  <2>1. CASE call.at = "idle"
    <3>1. call' = call
      BY <1>1, <2>1
    <3>2. QED
      BY <2>1, <3>1 DEF PagingInv, Progress
  <2>2. CASE call.at # "idle"
    <3>1. /\ Len(call.acc) = call.offset /\ call.offset + call.remaining = call.want
          /\ top \in call.top0..(call.top0 + MaxNew)
          /\ call.at = "page" => /\ call.remaining > 0 /\ call.offset <= top
                                 /\ call.offset = 0 \/ call.offset >= Page
      BY <2>2 DEF PagingInv, Progress
    <3>2. top' \in call'.top0..(call'.top0 + MaxNew) /\ ~call'.calm
      BY <1>1, <1>2, <1>3, <2>2, <3>1 DEF CallType
    <3>3. call.at = "page" => call.offset <= top'
      BY <1>1, <1>2, <1>3, <3>1 DEF CallType
    <3>4. QED
      BY <1>1, <2>2, <3>1, <3>2, <3>3 DEF Progress
  <2>3. QED
    BY <2>1, <2>2
<1>7. QED
  BY <1>5, <1>6 DEF PagingInv

LEMMA StepPaging == PagingInv /\ [Next]_vars => PagingInv'
<1> SUFFICES ASSUME PagingInv, [Next]_vars PROVE PagingInv'
  OBVIOUS
<1>0. call \in CallType /\ ServerTypeOK /\ top \in Nat
  BY DEF PagingInv, TypeOK, CallType
<1>1. ASSUME NEW d \in BOOLEAN, NEW n \in Counts, BarsAll(d, n) PROVE PagingInv'
  BY <1>1, StartPaging
<1>2. CASE Ask
  BY <1>2, AskPaging
<1>3. CASE (AskFails /\ UNCHANGED call) \/ Manage \/ Heartbeat
  BY <1>3, ServersStep, Framed
<1>4. CASE AskFails /\ call' = [call EXCEPT !.at = "failed"] /\ UNCHANGED serverVars
  <2>1. call.at = "page" /\ UNCHANGED <<top, empty>>
    BY <1>4 DEF AskFails
  <2>2. /\ call' \in CallType /\ call'.at = "failed"
        /\ UNCHANGED <<call.daily, call.calm, call.want, call.remaining, call.offset,
                       call.attempt, call.acc, call.top0>>
    BY <1>0, <1>4, Ended
  <2>3. Progress'
    BY <2>1, <2>2 DEF PagingInv, Progress
  <2>4. ServerTypeOK'
    BY <1>0, <1>4 DEF serverVars, ServerTypeOK
  <2>5. QED
    BY <2>1, <2>2, <2>3, <2>4, CallsTyped
<1>5. CASE Finish
  <2>1. call' = Idle /\ UNCHANGED <<top, empty>> /\ UNCHANGED serverVars
    BY <1>5 DEF Finish
  <2>2. call' \in CallType
    <3>1. 0 \in 0..(Width - 1) /\ 0 \in 0..top /\ <<>> \in Seq(1..top) /\ 0 \in 0..2
      BY <1>0, BarPagingAssumption
    <3>2. QED
      BY <2>1, <3>1 DEF Idle, CallType
  <2>3. Progress'
    BY <2>1 DEF Progress, Idle
  <2>4. ServerTypeOK'
    BY <1>0, <2>1 DEF serverVars, ServerTypeOK
  <2>5. QED
    BY <2>1, <2>2, <2>3, <2>4, CallsTyped
<1>6. CASE NewBar \/ Outage
  BY <1>6, DisturbedPaging
<1>7. CASE UNCHANGED vars
  <2>1. UNCHANGED <<top, empty, call>> /\ ServerTypeOK'
    BY <1>0, <1>7 DEF vars, serverVars, ServerTypeOK
  <2>2. QED
    BY <2>1, Framed
<1>8. CASE AskFails
  BY <1>3, <1>4, <1>8 DEF AskFails
<1>9. QED
  BY <1>1, <1>2, <1>3, <1>5, <1>6, <1>7, <1>8 DEF Next

\* The types and the progress of a call, inductively.
THEOREM Inductive == Spec => []PagingInv
<1>1. Init => PagingInv
  BY InitPaging
<1>2. PagingInv /\ [Next]_vars => PagingInv'
  BY StepPaging
<1>3. QED
  BY <1>1, <1>2, PTL DEF Spec

\* Every variable keeps its type: in particular no more bars are counted than were asked
\* for, and nothing is returned that the market does not have.
THEOREM TypeCorrect == Spec => []TypeOK
<1>1. PagingInv => TypeOK
  BY DEF PagingInv
<1>2. QED
  BY <1>1, Inductive, PTL
-----------------------------------------------------------------------------
(* The pages fit together *)

\* Bars from one number to another are none missing, if they reach up to the call's time.
LEMMA NoGap ==
  ASSUME NEW lo \in Int, NEW h \in Int, NEW t0 \in Nat, h >= t0, NEW got, got = lo..h
  PROVE  got # {} => /\ \E b \in got : b >= t0
                     /\ \A i, j \in got : i..j \subseteq got
<1>1. ASSUME NEW i \in lo..h, NEW j \in lo..h PROVE i..j \subseteq lo..h
  OBVIOUS
<1>2. lo..h # {} => h \in lo..h
  OBVIOUS
<1>3. QED
  BY <1>1, <1>2

LEMMA NothingYet ==
  ASSUME PagingInv, call.offset = 0, call.at # "idle"
  PROVE  ToSet(call.acc) = {} /\ NoneMissing /\ call.acc = <<>>
<1>1. call.acc \in Seq(1..top) /\ Len(call.acc) = 0
  BY DEF PagingInv, TypeOK, Progress
<1>2. call.acc = <<>>
  BY <1>1
<1>3. ToSet(call.acc) = {}
  BY <1>2 DEF ToSet
<1>4. QED
  BY <1>2, <1>3 DEF NoneMissing

Maximum(a, b) == IF a > b THEN a ELSE b

\* Two ranges that overlap or adjoin make one.
LEMMA RangesJoin ==
  ASSUME NEW a \in Nat, NEW b \in Nat, NEW c \in Nat, NEW d \in Nat, a <= d + 1, c <= b + 1, a <= b + 1, c <= d
  PROVE  (a..b) \cup (c..d) = Minimum(c, a)..Maximum(d, b)
BY DEF Minimum, Maximum

\* A page adjoins or overlaps what is there already: the market has not moved on by more
\* than a page since.
LEMMA PageAdjoins ==
  ASSUME MaxNew <= Page, PagingInv, FitInv, call.at = "page",
         NEW bars, bars = Answer(call.offset, Batch), bars # <<>>,
         Receive(bars), UNCHANGED <<kind, top>>
  PROVE  FitInv'
<1> DEFINE len == Len(bars)
           n == top - call.offset
           low == n - len + 1
<1>1. /\ top \in Nat \ {0} /\ call \in CallType
      /\ call.offset \in 0..(Width - 1) /\ call.remaining \in Nat \ {0} /\ call.acc \in Seq(1..top)
      /\ Batch \in Nat \ {0} /\ (Batch # call.remaining => Batch = Page)
      /\ Len(call.acc) = call.offset
  BY PageAhead
<1>2. /\ len \in 1..Batch /\ call.offset < top
      /\ call'.offset = call.offset + len /\ call'.remaining = call.remaining - len
      /\ call'.acc = Join(bars, call.acc) /\ call'.top0 = call.top0
      /\ call'.at = IF len < Batch \/ call'.remaining = 0 THEN "done" ELSE "page"
      /\ len = Minimum(n, Batch)
  BY PageAdds
<1>3. /\ bars \in Seq(1..top) /\ ToSet(bars) = low..n
      /\ \A i \in 1..len : bars[i] = n - len + i
  <2>1. top \in Nat /\ call.offset \in 0..(Width - 1) /\ Batch \in Nat \ {0} /\ call.offset < top
    BY <1>1, <1>2
  <2>2. QED
    BY <2>1, AnswerIs
<1>4. ToSet(call'.acc) = ToSet(call.acc) \cup (low..n)
  <2>1. call'.acc = Join(bars, call.acc) /\ call.acc \in Seq(1..top) /\ bars \in Seq(1..top)
    BY <1>1, <1>2, <1>3
  <2>2. QED
    BY <1>3, <2>1, JoinedBars
<1>5. /\ call.top0 \in Nat /\ top \in call.top0..(call.top0 + MaxNew)
      /\ call.offset = 0 \/ call.offset >= Page
      /\ Page \in Nat \ {0} /\ MaxNew \in Nat /\ call.offset \in Nat
  BY <1>1, <1>2, BarPagingAssumption DEF PagingInv, Progress, CallType
<1>6. /\ len \in Nat \ {0} /\ n \in Nat \ {0} /\ call.offset + len <= top
  <2>1. len \in Nat \ {0}
    BY <1>1, <1>2
  <2>2. n \in Nat \ {0}
    BY <1>1, <1>2, <1>5
  <2>3. len <= n
    <3> HIDE DEF len, n
    <3>1. QED
      BY <1>1, <1>2, <2>1, <2>2 DEF Minimum
  <2>4. QED
    BY <1>1, <1>5, <2>1, <2>2, <2>3
<1>7. top \in Nat /\ top <= call.top0 + Page /\ top >= call.top0
  BY <1>1, <1>5
<1>8. call'.at = "page" => len = Page
  <2>1. ASSUME call'.at = "page" PROVE ~(len < Batch) /\ call.remaining - len # 0
    BY <1>2, <2>1
  <2>2. QED
    BY <1>1, <1>2, <2>1
<1>9. kind = "sync" => call'.acc[1] = low
  <2>1. ASSUME kind = "sync" PROVE call'.acc[1] = bars[1]
    <3>1. call'.acc = bars \o call.acc
      BY <1>2, <2>1 DEF Join
    <3>2. 1 \in 1..Len(bars) /\ bars \in Seq(1..top) /\ call.acc \in Seq(1..top)
      BY <1>1, <1>3, <1>6
    <3>3. QED
      BY <3>1, <3>2
  <2>2. bars[1] = low
    BY <1>3, <1>6
  <2>3. QED
    BY <2>1, <2>2
<1>10. low = top - call'.offset + 1 /\ call'.offset <= top /\ low <= n /\ low \in Nat
  <2> HIDE DEF len
  <2>1. call'.offset = call.offset + len
    BY <1>2
  <2>2. QED
    BY ONLY <1>5, <1>6, <1>7, <2>1
<1>11. CASE call.offset = 0
  <2>1. ToSet(call'.acc) = low..top
    <3>1. ToSet(call.acc) = {} /\ n = top
      BY <1>1, <1>11, NothingYet
    <3>2. QED
      BY <1>4, <3>1
  <2>2. top \in call'.top0..top'
    BY <1>2, <1>5, <1>7
  <2>3. NoneMissing'
    <3> HIDE DEF low
    <3>1. top \in Int /\ low \in Int /\ call'.top0 \in Nat /\ top >= call'.top0
      BY <1>2, <1>5, <1>7, <1>10
    <3>2. QED
      BY <2>1, <3>1, NoGap DEF NoneMissing
  <2>4. Reaches'
    BY <1>9, <1>10, <2>1, <2>2 DEF Reaches
  <2>5. QED
    BY <2>3, <2>4 DEF FitInv
<1>12. CASE call.offset > 0
  <2>1. PICK t \in call.top0..top, h \in call.top0..top :
          /\ call.offset <= t
          /\ ToSet(call.acc) = (t - call.offset + 1)..h
    BY <1>12 DEF FitInv, Reaches
  <2> DEFINE lo == t - call.offset + 1
             least == Minimum(low, lo)
             most == Maximum(n, h)
  <2>2. call.offset >= Page
    BY <1>5, <1>12
  <2>3. /\ (lo..h) \cup (low..n) = least..most /\ most \in call.top0..top
        /\ {lo, low, n} \subseteq Nat
        /\ len = Page => least = low
    <3>1. /\ top \in Nat /\ call.offset \in Nat /\ len \in Nat \ {0} /\ Page \in Nat \ {0}
          /\ call.top0 \in Nat /\ t \in call.top0..top /\ h \in call.top0..top
          /\ call.offset >= Page /\ call.offset <= t /\ call.offset + len <= top
          /\ top <= call.top0 + Page
      BY <1>5, <1>6, <1>7, <2>1, <2>2
    <3> HIDE DEF len
    <3>2. /\ lo \in Nat /\ low \in Nat /\ n \in Nat /\ h \in Nat /\ low <= n /\ n <= top
          /\ low <= h + 1 /\ lo <= h + 1 /\ lo <= n + 1
          /\ len = Page => low <= lo
      BY ONLY <3>1 DEF lo, low, n
    <3> HIDE DEF lo, low, n
    <3>3. (lo..h) \cup (low..n) = least..most
      BY <3>2, RangesJoin
    <3>4. most \in call.top0..top
      BY <3>1, <3>2 DEF Maximum
    <3>5. len = Page => least = low
      BY <3>2 DEF Minimum
    <3>6. QED
      BY <3>2, <3>3, <3>4, <3>5
  <2>4. ToSet(call'.acc) = least..most
    BY <1>4, <2>1, <2>3
  <2>5. NoneMissing'
    <3>1. least \in Int /\ most \in Int /\ most >= call'.top0 /\ call'.top0 \in Nat
      BY <1>2, <1>5, <2>3 DEF Minimum
    <3> HIDE DEF least, most
    <3>2. QED
      BY <2>4, <3>1, NoGap DEF NoneMissing
  <2>6. Reaches'
    <3>1. SUFFICES ASSUME call'.at = "page" PROVE Reaches'
      BY DEF Reaches
    <3>2. least = low
      BY <1>8, <2>3, <3>1
    <3>3. ToSet(call'.acc) = (top - call'.offset + 1)..most
      BY <1>10, <2>4, <3>2
    <3>4. top \in call'.top0..top' /\ most \in call'.top0..top'
      BY <1>2, <1>5, <1>7, <2>3
    <3> HIDE DEF most
    <3>5. QED
      BY <1>9, <1>10, <3>3, <3>4 DEF Reaches
  <2>7. QED
    BY <2>5, <2>6 DEF FitInv
<1>13. QED
  BY <1>5, <1>11, <1>12

\* Steps that add no bars.
LEMMA NothingAdded ==
  ASSUME PagingInv, [Next]_vars, call'.at # "idle", call.at # "idle"
  PROVE  \/ /\ call.at = "page" /\ Answer(call.offset, Batch) # <<>>
            /\ Receive(Answer(call.offset, Batch)) /\ UNCHANGED <<serverVars, top, empty>>
         \/ /\ UNCHANGED <<kind, empty, call.daily, call.want, call.offset, call.acc, call.top0>>
            /\ top <= top' /\ (call'.at = "page" => call.at = "page")
<1>0. call \in CallType /\ top \in Nat
  BY DEF PagingInv, TypeOK, CallType
<1> DEFINE Same == UNCHANGED <<kind, empty, call.daily, call.want, call.offset, call.acc, call.top0>>
<1>1. CASE Ask
  <2>0. UNCHANGED <<top, empty>> /\ call.at = "page" /\ ServerTypeOK
    BY <1>1 DEF Ask, PagingInv, TypeOK
  <2>1. CASE Answer(call.offset, Batch) # <<>> /\ Receive(Answer(call.offset, Batch)) /\ UNCHANGED serverVars
    BY <2>0, <2>1
  <2>2. CASE BlameServer /\ SwitchServer /\ call' = [call EXCEPT !.attempt = @ + 1]
    BY <1>0, <1>1, <2>0, <2>2, Again, MovesOnly
  <2>3. CASE call' = [call EXCEPT !.at = "done"] /\ UNCHANGED serverVars
    <3>1. kind' = kind
      BY <2>3 DEF serverVars
    <3>2. QED
      BY <1>0, <2>0, <2>3, <3>1, Ended
  <2>4. QED
    BY <1>1, <2>1, <2>2, <2>3, AskCases
<1>2. CASE (AskFails /\ UNCHANGED call) \/ Manage \/ Heartbeat
  BY <1>0, <1>2, ServersStep
<1>3. CASE AskFails /\ call' = [call EXCEPT !.at = "failed"] /\ UNCHANGED serverVars
  <2>1. UNCHANGED <<kind, top, empty>>
    BY <1>3 DEF AskFails, serverVars
  <2>2. QED
    BY <1>0, <1>3, <2>1, Ended
<1>4. CASE NewBar \/ Outage
  BY <1>0, <1>4, Disturbed
<1>5. CASE UNCHANGED vars
  BY <1>0, <1>5 DEF vars, serverVars
<1>6. CASE \E d \in BOOLEAN, n \in Counts : BarsAll(d, n)
  BY <1>6 DEF BarsAll
<1>7. CASE Finish
  BY <1>7 DEF Finish, Idle
<1>8. CASE AskFails
  BY <1>2, <1>3, <1>8 DEF AskFails
<1>9. QED
  BY <1>1, <1>2, <1>4, <1>5, <1>6, <1>7, <1>8 DEF Next

LEMMA StepFit ==
  ASSUME MaxNew <= Page, PagingInv, FitInv, [Next]_vars
  PROVE  FitInv'
<1>0. PagingInv'
  BY StepPaging
<1>1. CASE call'.at = "idle"
  <2>1. call' = Idle
    BY <1>0, <1>1 DEF PagingInv, Progress
  <2>2. call'.acc = <<>> /\ ToSet(<<>>) = {}
    BY <2>1 DEF Idle, ToSet
  <2>3. NoneMissing' /\ Reaches'
    BY <1>1, <2>2 DEF NoneMissing, Reaches
  <2>4. QED
    BY <2>3 DEF FitInv
<1>2. CASE call'.at # "idle" /\ call.at = "idle"
  <2>1. call'.acc = <<>> /\ call'.offset = 0
    <3>1. \E d \in BOOLEAN, n \in Counts : BarsAll(d, n)
      <4>1. ~(UNCHANGED call)
        BY <1>2
      <4>2. ~Ask /\ ~AskFails /\ ~Finish /\ ~NewBar /\ ~Manage /\ ~Outage /\ ~Heartbeat
        BY <1>2 DEF Ask, AskFails, Finish, NewBar, Manage, Outage, Heartbeat
      <4>3. QED
        BY <4>1, <4>2 DEF Next, vars
    <3>2. QED
      BY <3>1 DEF BarsAll, Idle
  <2>2. ToSet(<<>>) = {}
    BY DEF ToSet
  <2>3. NoneMissing' /\ Reaches'
    BY <2>1, <2>2 DEF NoneMissing, Reaches
  <2>4. QED
    BY <2>3 DEF FitInv
<1>3. CASE call'.at # "idle" /\ call.at # "idle"
  <2>1. CASE /\ call.at = "page" /\ Answer(call.offset, Batch) # <<>>
             /\ Receive(Answer(call.offset, Batch)) /\ UNCHANGED <<serverVars, top, empty>>
    BY <2>1, PageAdjoins DEF serverVars
  <2>2. CASE /\ UNCHANGED <<kind, empty, call.daily, call.want, call.offset, call.acc, call.top0>>
             /\ top <= top' /\ (call'.at = "page" => call.at = "page")
    <3>1. NoneMissing'
      BY <2>2 DEF FitInv, NoneMissing
    <3>2. Reaches'
      <4>1. SUFFICES ASSUME call'.at = "page", call'.offset > 0 PROVE Reaches'
        BY DEF Reaches
      <4>2. PICK t \in call.top0..top, h \in call.top0..top :
              /\ call.offset <= t
              /\ ToSet(call.acc) = (t - call.offset + 1)..h
              /\ kind = "sync" => call.acc[1] = t - call.offset + 1
        BY <2>2, <4>1 DEF FitInv, Reaches
      <4>3. call.top0 \in Nat /\ top \in Nat /\ top' \in Nat
        BY <1>0 DEF PagingInv, TypeOK
      <4>4. t \in call'.top0..top' /\ h \in call'.top0..top'
        BY <2>2, <4>2, <4>3
      <4>5. QED
        BY <2>2, <4>2, <4>4 DEF Reaches
    <3>3. QED
      BY <3>1, <3>2 DEF FitInv
  <2>3. QED
    BY <1>3, <2>1, <2>2, NothingAdded
<1>4. QED
  BY <1>1, <1>2, <1>3

\* While no more bars arrive during a call than a page holds, no bar is missing between two
\* returned ones, nor is the newest one of the time of the call, in either client.
THEOREM PagesAdjoin == ASSUME MaxNew <= Page PROVE Spec => []NoneMissing
<1>1. Init => FitInv
  <2>1. ToSet(<<>>) = {}
    BY DEF ToSet
  <2>2. QED
    BY <2>1 DEF Init, Idle, FitInv, Reaches, NoneMissing
<1>2. PagingInv /\ FitInv /\ [Next]_vars => FitInv'
  BY StepFit
<1>3. FitInv => NoneMissing
  BY DEF FitInv
<1>4. QED
  BY <1>1, <1>2, <1>3, Inductive, PTL DEF Spec
-----------------------------------------------------------------------------
(* The order of the pages *)

LEMMA AscendingJoined ==
  ASSUME NEW s \in Seq(Nat), NEW t \in Seq(Nat), Ascending(s), Ascending(t),
         s # <<>> /\ t # <<>> => s[Len(s)] <= t[1]
  PROVE  Ascending(s \o t)
<1>1. /\ Len(s) \in Nat /\ Len(t) \in Nat /\ Len(s \o t) = Len(s) + Len(t)
      /\ \A i \in 1..(Len(s) + Len(t)) : (s \o t)[i] = IF i <= Len(s) THEN s[i] ELSE t[i - Len(s)]
  OBVIOUS
<1>2. ASSUME NEW i \in 1..(Len(s) + Len(t) - 1) PROVE (s \o t)[i] <= (s \o t)[i + 1]
  <2>1. i \in 1..(Len(s) + Len(t)) /\ i + 1 \in 1..(Len(s) + Len(t))
    BY <1>1
  <2>2. CASE i < Len(s)
    <3>1. (s \o t)[i] = s[i] /\ (s \o t)[i + 1] = s[i + 1]
      BY <1>1, <2>1, <2>2
    <3>2. i \in 1..(Len(s) - 1)
      BY <1>1, <2>2
    <3>3. QED
      BY <3>1, <3>2 DEF Ascending
  <2>3. CASE i = Len(s)
    <3>1. (s \o t)[i] = s[Len(s)] /\ (s \o t)[i + 1] = t[1]
      BY <1>1, <2>1, <2>3
    <3>2. s # <<>> /\ t # <<>>
      BY <1>1, <2>1, <2>3
    <3>3. QED
      BY <3>1, <3>2
  <2>4. CASE i > Len(s)
    <3>1. (s \o t)[i] = t[i - Len(s)] /\ (s \o t)[i + 1] = t[(i - Len(s)) + 1]
      BY <1>1, <2>1, <2>4
    <3>2. i - Len(s) \in 1..(Len(t) - 1)
      BY <1>1, <2>4
    <3>3. QED
      BY <3>1, <3>2 DEF Ascending
  <2>5. QED
    BY <1>1, <2>2, <2>3, <2>4
<1>3. QED
  BY <1>1, <1>2 DEF Ascending

\* An older page ends where the newer ones begin, or with the bar before.
LEMMA PageInFront ==
  ASSUME MaxNew <= 1, PagingInv, FitInv, OrderInv, kind = "sync", call.at = "page",
         NEW bars, bars = Answer(call.offset, Batch), bars # <<>>, Receive(bars), UNCHANGED top
  PROVE  Ascending(call'.acc)
<1>1. /\ top \in Nat \ {0} /\ call.offset \in 0..(Width - 1) /\ call.acc \in Seq(1..top)
      /\ Batch \in Nat \ {0} /\ call.offset \in Nat
  BY PageAhead, BarPagingAssumption
<1>2. call.offset < top /\ call'.acc = bars \o call.acc
  BY PageAdds DEF Join
<1>3. /\ bars \in Seq(1..top) /\ Len(bars) \in Nat
      /\ \A i \in 1..Len(bars) : bars[i] = top - call.offset - Len(bars) + i
  <2>1. top \in Nat /\ call.offset \in 0..(Width - 1) /\ Batch \in Nat \ {0} /\ call.offset < top
    BY <1>1, <1>2
  <2>2. /\ bars \in Seq(1..top)
        /\ \A i \in 1..Len(bars) : bars[i] = top - call.offset - Len(bars) + i
    BY <2>1, AnswerIs
  <2>3. QED
    BY <2>2
<1>4. Ascending(bars)
  <2>1. ASSUME NEW i \in 1..(Len(bars) - 1) PROVE bars[i] <= bars[i + 1]
    <3>1. i \in 1..Len(bars) /\ i + 1 \in 1..Len(bars)
      BY <1>3
    <3>2. bars[i] = top - call.offset - Len(bars) + i /\ bars[i + 1] = top - call.offset - Len(bars) + (i + 1)
      BY <1>3, <3>1
    <3>3. QED
      BY <1>1, <1>3, <3>2
  <2>2. QED
    BY <2>1 DEF Ascending
<1>5. ASSUME call.acc # <<>> PROVE bars[Len(bars)] <= call.acc[1]
  <2>1. call.offset > 0
    BY <1>1, <1>5, PageAhead
  <2>2. PICK t \in call.top0..top : call.acc[1] = t - call.offset + 1
    BY <2>1 DEF FitInv, Reaches
  <2>3. top <= call.top0 + 1 /\ call.top0 \in Nat
    <3>1. top \in call.top0..(call.top0 + MaxNew) /\ call.top0 \in Nat /\ MaxNew \in Nat
      BY BarPagingAssumption DEF PagingInv, Progress, TypeOK
    <3>2. QED
      BY <1>1, <3>1
  <2>4. bars[Len(bars)] = top - call.offset
    <3>1. Len(bars) \in 1..Len(bars)
      BY <1>3
    <3>2. bars[Len(bars)] = top - call.offset - Len(bars) + Len(bars)
      BY <1>3, <3>1
    <3>3. \A a, b, c \in Int : a - b - c + c = a - b
      OBVIOUS
    <3>4. QED
      BY <1>1, <1>3, <3>2, <3>3
  <2>5. QED
    BY <1>1, <2>2, <2>3, <2>4
<1>6. bars \in Seq(Nat) /\ call.acc \in Seq(Nat)
  <2>1. 1..top \subseteq Nat
    OBVIOUS
  <2>2. QED
    BY <1>1, <1>3, <2>1, SeqGrows
<1>7. Ascending(call.acc)
  BY DEF OrderInv
<1>8. QED
  BY <1>2, <1>4, <1>5, <1>6, <1>7, AscendingJoined

LEMMA StepOrder ==
  ASSUME MaxNew <= 1, PagingInv, FitInv, OrderInv, [Next]_vars
  PROVE  OrderInv'
<1>0. PagingInv'
  BY StepPaging
<1>1. Ascending(<<>>)
  BY DEF Ascending
<1>2. CASE call'.at = "idle"
  BY <1>0, <1>1, <1>2 DEF PagingInv, Progress, Idle, OrderInv
<1>3. CASE call'.at # "idle" /\ call.at = "idle"
  <2>1. \E d \in BOOLEAN, n \in Counts : BarsAll(d, n)
    <3>1. ~(UNCHANGED call)
      BY <1>3
    <3>2. ~Ask /\ ~AskFails /\ ~Finish /\ ~NewBar /\ ~Manage /\ ~Outage /\ ~Heartbeat
      BY <1>3 DEF Ask, AskFails, Finish, NewBar, Manage, Outage, Heartbeat
    <3>3. QED
      BY <3>1, <3>2 DEF Next, vars
  <2>2. QED
    BY <1>1, <2>1 DEF BarsAll, Idle, OrderInv
<1>4. CASE call'.at # "idle" /\ call.at # "idle"
  <2>1. CASE /\ call.at = "page" /\ Answer(call.offset, Batch) # <<>>
             /\ Receive(Answer(call.offset, Batch)) /\ UNCHANGED <<serverVars, top, empty>>
    BY <2>1, PageInFront DEF OrderInv, serverVars
  <2>2. CASE UNCHANGED <<kind, call.acc>>
    BY <2>2 DEF OrderInv
  <2>3. QED
    BY <1>4, <2>1, <2>2, NothingAdded
<1>5. QED
  BY <1>2, <1>3, <1>4

\* While no more than one bar arrives during a call, the pages fit together: none is
\* missing, and what the synchronous client has put together is ascending.
THEOREM PagesInOrder == ASSUME MaxNew <= 1 PROVE Spec => []PagesFit
<1>1. MaxNew <= Page
  BY BarPagingAssumption
<1>2. Init => FitInv /\ OrderInv
  <2>1. ToSet(<<>>) = {} /\ Ascending(<<>>)
    BY DEF ToSet, Ascending
  <2>2. QED
    BY <2>1 DEF Init, Idle, FitInv, Reaches, NoneMissing, OrderInv
<1>3. PagingInv /\ FitInv /\ OrderInv /\ [Next]_vars => (FitInv /\ OrderInv)'
  BY <1>1, StepFit, StepOrder
<1>4. FitInv /\ OrderInv => PagesFit
  BY DEF FitInv, OrderInv, PagesFit
<1>5. QED
  BY <1>2, <1>3, <1>4, Inductive, PTL DEF Spec
-----------------------------------------------------------------------------
(* A server without K-lines *)

LEMMA AtMostOne ==
  ASSUME NEW E, IsFiniteSet(E), Cardinality(E) <= 1, NEW a \in E, NEW b \in E
  PROVE  a = b
<1>1. Cardinality(E) \in Nat /\ Cardinality(E \ {a}) = Cardinality(E) - 1 /\ IsFiniteSet(E \ {a})
  BY FS_CardinalityType, FS_RemoveElement
<1>2. Cardinality(E \ {a}) \in Nat
  BY <1>1, FS_CardinalityType
<1>3. Cardinality(E \ {a}) = 0
  BY <1>1, <1>2
<1>4. E \ {a} = {}
  BY <1>1, <1>3, FS_EmptySet
<1>5. QED
  BY <1>4

\* No bars, from a server that has some: all have been received.
LEMMA NoneLeft ==
  ASSUME PagingInv, call.at = "page", Answer(call.offset, Batch) = <<>>
  PROVE  call.offset = top
<1>1. /\ top \in Nat /\ call.offset \in 0..(Width - 1) /\ Batch \in Nat \ {0} /\ call.offset <= top
  BY PageAhead
<1>2. ~(call.offset < top)
  BY <1>1, AnswerIs
<1>3. QED
  BY <1>1, <1>2, BarPagingAssumption

\* The switch leads to a server that has K-lines, while another one is there.
LEMMA SwitchesToGood ==
  ASSUME PagingInv, GoodServerThere, last \in empty, SwitchServer
  PROVE  last' \in up \ empty
<1>1. Primary \in Seq(Servers) /\ IsFiniteSet(empty)
  <2>1. IsFiniteSet(Servers) /\ empty \subseteq Servers /\ Primary \in Seq(Servers)
    BY ServerListAssumption DEF PagingInv, TypeOK
  <2>2. QED
    BY <2>1, FS_Subset
<1>2. Answering(Primary, SkippedOnSwitch) # {}
  <2>1. PICK g \in ToSet(Primary) : g \notin blocked \cup empty /\ g \in up
    BY DEF GoodServerThere
  <2>2. PICK i \in DOMAIN Primary : g = Primary[i]
    BY <2>1 DEF ToSet
  <2>3. g \in up \ SkippedOnSwitch
    BY <2>1 DEF SkippedOnSwitch
  <2>4. QED
    BY <2>2, <2>3 DEF Answering
<1>3. last' = FirstAnswering(Primary, SkippedOnSwitch)
  BY <1>2 DEF SwitchServer, Reach
<1>4. last' \in up /\ last' # last
  <2>1. last' \in up \ SkippedOnSwitch
    BY <1>1, <1>2, <1>3, ScanReaches
  <2>2. QED
    BY <2>1 DEF SkippedOnSwitch
<1>5. last' \notin empty
  BY <1>1, <1>4, AtMostOne DEF GoodServerThere
<1>6. QED
  BY <1>4, <1>5

\* A reconnect stays with a server that answers.
LEMMA ReconnectStays ==
  ASSUME PagingInv, kind = "sync", last \in up, last # None, Reconnect
  PROVE  last' = last
<1>1. CASE connected
  BY <1>1 DEF Reconnect
<1>2. CASE ~connected
  <2>1. ServerTypeOK /\ last \in Servers
    BY DEF PagingInv, TypeOK, ServerTypeOK
  <2>2. RetryCandidates \in Seq(Servers)
    BY <2>1, CandidateLists
  <2>3. Len(RetryCandidates) >= 1 /\ RetryCandidates[1] = last
    <3>1. list \in Seq(Servers) /\ Primary \in Seq(Servers) /\ AllKnown \in Seq(Servers)
      BY <2>1, ServerListAssumption DEF ServerTypeOK
    <3>2. RetryCandidates = <<last>> \o list \o Primary \o AllKnown
      BY DEF RetryCandidates, Last1
    <3>3. QED
      BY <2>1, <3>1, <3>2
  <2>4. DOMAIN RetryCandidates = 1..Len(RetryCandidates) /\ Len(RetryCandidates) \in Nat
    BY <2>2
  <2>5. 1 \in Answering(RetryCandidates, {})
    BY <2>3, <2>4 DEF Answering
  <2>6. last' = FirstAnswering(RetryCandidates, {})
    BY <1>2, <2>5 DEF Reconnect, Reach
  <2>7. QED
    BY <2>2, <2>3, <2>5, <2>6, ScanReaches
<1>3. QED
  BY <1>1, <1>2

\* A call that ends with bars has as many as it asked for, or all.
LEMMA EndsFull ==
  ASSUME PagingInv, call.at = "page", call.calm, NEW bars, bars = Answer(call.offset, Batch),
         bars # <<>>, Receive(bars), UNCHANGED top, call'.at = "done"
  PROVE  Len(call'.acc) = Minimum(call'.want, call'.top0)
<1>1. /\ top \in Nat \ {0} /\ call.offset \in 0..(Width - 1) /\ call.remaining \in Nat \ {0}
      /\ Batch \in Nat \ {0} /\ Batch <= call.remaining
      /\ call.offset + call.remaining = call.want
  BY PageAhead
<1>2. /\ Len(bars) \in 1..Batch /\ call.offset < top
      /\ call'.offset = call.offset + Len(bars) /\ call'.remaining = call.remaining - Len(bars)
      /\ Len(call'.acc) = call'.offset
      /\ call'.want = call.want /\ call'.top0 = call.top0
      /\ call'.at = IF Len(bars) < Batch \/ call'.remaining = 0 THEN "done" ELSE "page"
      /\ Len(bars) = Minimum(top - call.offset, Batch)
  BY PageAdds
<1>3. call.top0 = top /\ call.offset \in Nat
  BY <1>1, BarPagingAssumption DEF PagingInv, Progress
<1>4. Len(bars) < Batch \/ call.remaining - Len(bars) = 0
  BY <1>2
<1> DEFINE len == Len(bars)
<1>5. /\ len \in Nat /\ len <= Batch /\ len = Minimum(top - call.offset, Batch)
      /\ len < Batch \/ call.remaining - len = 0
  BY <1>1, <1>2, <1>4
<1> HIDE DEF len
<1>6. CASE len < Batch
  <2>1. len = top - call.offset
    BY <1>1, <1>3, <1>5, <1>6 DEF Minimum
  <2>2. call.offset + len = top /\ top < call.want
    BY <1>1, <1>3, <1>5, <1>6, <2>1
  <2>3. Len(call'.acc) = top
    BY <1>2, <2>2 DEF len
  <2>4. QED
    BY <1>1, <1>2, <1>3, <2>2, <2>3 DEF Minimum
<1>7. CASE call.remaining - len = 0
  <2>1. len <= top - call.offset
    BY <1>1, <1>3, <1>5 DEF Minimum
  <2>2. call.offset + len = call.want /\ call.want <= top /\ call.want \in Nat
    BY <1>1, <1>3, <1>5, <1>7, <2>1
  <2>3. Len(call'.acc) = call.want
    BY <1>2, <2>2 DEF len
  <2>4. QED
    BY <1>1, <1>2, <1>3, <2>2, <2>3 DEF Minimum
<1>8. QED
  BY <1>5, <1>6, <1>7

\* A request and its answer.
LEMMA AskSurvives ==
  ASSUME PagingInv, SurvivalInv, Ask
  PROVE  SurvivalInv'
<1>0. /\ call.at = "page" /\ UNCHANGED <<top, empty>> /\ ServerTypeOK /\ call \in CallType
      /\ top \in Nat \ {0} /\ Len(call.acc) = call.offset /\ call.remaining \in Nat \ {0}
      /\ call.offset + call.remaining = call.want
  BY PageAhead DEF Ask, PagingInv, TypeOK
<1> DEFINE bars == Answer(call.offset, Batch)
<1>1. CASE bars # <<>> /\ Receive(bars) /\ UNCHANGED serverVars
  <2>1. call'.attempt = 0 /\ UNCHANGED <<call.daily, call.calm>>
    BY <1>0, <1>1, PageAdds
  <2>2. RetriesElsewhere'
    BY <2>1 DEF RetriesElsewhere
  <2>3. OneEmptyServerIsSurvived'
    <3>1. SUFFICES ASSUME call'.at = "done", call'.calm
                   PROVE  Len(call'.acc) = Minimum(call'.want, call'.top0)
      BY DEF OneEmptyServerIsSurvived
    <3>2. QED
      BY <1>0, <1>1, <2>1, <3>1, EndsFull
  <2>4. QED
    BY <2>2, <2>3 DEF SurvivalInv
<1>2. CASE /\ last \in empty \/ bars = <<>>
           /\ BlameServer /\ SwitchServer /\ call' = [call EXCEPT !.attempt = @ + 1]
  <2>1. UNCHANGED <<call.at, call.daily, call.calm, call.want, call.remaining, call.offset,
                    call.acc, call.top0>>
    BY <1>2, Again
  <2>2. UNCHANGED <<kind, up, list, blocked>>
    BY <1>0, <1>2, MovesOnly
  <2>3. OneEmptyServerIsSurvived'
    BY <1>0, <2>1 DEF OneEmptyServerIsSurvived
  <2>4. RetriesElsewhere'
    <3>1. SUFFICES ASSUME GoodServerThere' PROVE last' \in up' \ empty' \/ call'.offset = top'
      BY DEF RetriesElsewhere
    <3>2. GoodServerThere
      BY <1>0, <2>2, <3>1 DEF GoodServerThere
    <3>3. CASE last \in empty
      BY <1>0, <1>2, <2>2, <3>2, <3>3, SwitchesToGood
    <3>4. CASE bars = <<>>
      BY <1>0, <2>1, <3>4, NoneLeft
    <3>5. QED
      BY <1>2, <3>3, <3>4
  <2>5. QED
    BY <2>3, <2>4 DEF SurvivalInv
<1>3. CASE /\ last \in empty \/ bars = <<>>
           /\ ~BlameServer /\ call' = [call EXCEPT !.at = "done"] /\ UNCHANGED serverVars
  <2>1. /\ call'.at = "done"
        /\ UNCHANGED <<call.daily, call.calm, call.want, call.remaining, call.offset,
                       call.attempt, call.acc, call.top0>>
    BY <1>0, <1>3, Ended
  <2>2. RetriesElsewhere'
    BY <2>1 DEF RetriesElsewhere
  <2>3. OneEmptyServerIsSurvived'
    <3>1. SUFFICES ASSUME call'.daily, call'.calm, GoodServerThere', kind' = "sync"
                   PROVE  Len(call'.acc) = Minimum(call'.want, call'.top0)
      BY <2>1 DEF OneEmptyServerIsSurvived
    <3>2. kind = "sync" /\ call.daily /\ call.calm /\ GoodServerThere
      BY <1>0, <1>3, <2>1, <3>1 DEF GoodServerThere, serverVars
    <3>3. call.attempt > 0
      BY <1>0, <1>3, <3>2 DEF BlameServer, MaxRetry, CallType
    <3>4. last \in up \ empty \/ call.offset = top
      BY <1>0, <3>2, <3>3 DEF SurvivalInv, RetriesElsewhere
    <3>5. call.offset = top
      BY <1>0, <1>3, <3>4, NoneLeft
    <3>6. call.top0 = top
      BY <1>0, <3>2 DEF PagingInv, Progress
    <3>7. Len(call'.acc) = top /\ call'.top0 = top /\ call'.want > top /\ call'.want \in Nat
      BY <1>0, <2>1, <3>5, <3>6
    <3>8. QED
      BY <1>0, <3>7 DEF Minimum
  <2>4. QED
    BY <2>2, <2>3 DEF SurvivalInv
<1>4. QED
  BY <1>1, <1>2, <1>3, AskCases

LEMMA StepSurvival ==
  ASSUME PagingInv, SurvivalInv, [Next]_vars
  PROVE  SurvivalInv'
<1>0. call \in CallType /\ ServerTypeOK /\ top \in Nat
  BY DEF PagingInv, TypeOK, CallType
<1>1. ASSUME NEW d \in BOOLEAN, NEW n \in Counts, BarsAll(d, n) PROVE SurvivalInv'
  <2>1. /\ call'.at = (IF n = 0 THEN "done" ELSE "page") /\ call'.acc = <<>> /\ call'.attempt = 0
        /\ call'.want = n /\ call'.top0 = top
    BY <1>1 DEF BarsAll, Idle
  <2>2. n \in Nat /\ Len(<<>>) = 0
    BY BarPagingAssumption
  <2>3. RetriesElsewhere'
    BY <2>1 DEF RetriesElsewhere
  <2>4. OneEmptyServerIsSurvived'
    <3>1. SUFFICES ASSUME call'.at = "done" PROVE Len(call'.acc) = Minimum(call'.want, call'.top0)
      BY DEF OneEmptyServerIsSurvived
    <3>2. n = 0
      BY <2>1, <3>1
    <3>3. QED
      BY <1>0, <2>1, <2>2, <3>2 DEF Minimum
  <2>5. QED
    BY <2>3, <2>4 DEF SurvivalInv
<1>2. CASE Ask
  BY <1>2, AskSurvives
<1>3. CASE AskFails /\ UNCHANGED call /\ Reconnect
  <2>1. UNCHANGED <<top, empty>> /\ call.at = "page"
    BY <1>3 DEF AskFails
  <2>2. UNCHANGED <<kind, up, list, blocked>>
    BY <1>0, <1>3, MovesOnly
  <2>3. OneEmptyServerIsSurvived'
    BY <1>3, <2>1 DEF OneEmptyServerIsSurvived
  <2>4. RetriesElsewhere'
    <3>1. SUFFICES ASSUME kind = "sync", call.daily, call.calm, call.attempt > 0, GoodServerThere
                   PROVE  last' \in up' \ empty' \/ call'.offset = top'
      BY <1>3, <2>1, <2>2 DEF RetriesElsewhere, GoodServerThere
    <3>2. last \in up \ empty \/ call.offset = top
      BY <2>1, <3>1 DEF SurvivalInv, RetriesElsewhere
    <3>3. CASE call.offset = top
      BY <1>3, <2>1, <3>3
    <3>4. CASE last \in up \ empty
      <4>1. last # None
        BY <1>0, <3>4, ServerListAssumption DEF ServerTypeOK
      <4>2. QED
        BY <1>3, <2>1, <2>2, <3>1, <3>4, <4>1, ReconnectStays
    <3>5. QED
      BY <3>2, <3>3, <3>4
  <2>5. QED
    BY <2>3, <2>4 DEF SurvivalInv
<1>4. CASE AskFails /\ call' = [call EXCEPT !.at = "failed"] /\ UNCHANGED serverVars
  <2>1. call'.at = "failed"
    BY <1>0, <1>4, Ended
  <2>2. QED
    BY <2>1 DEF SurvivalInv, RetriesElsewhere, OneEmptyServerIsSurvived
<1>5. CASE Finish \/ Manage
  <2>1. call'.at = "idle"
    BY <1>5 DEF Finish, Manage, Idle
  <2>2. QED
    BY <2>1 DEF SurvivalInv, RetriesElsewhere, OneEmptyServerIsSurvived
<1>6. CASE NewBar \/ Outage
  <2>1. call'.at # "idle" => ~call'.calm
    BY <1>6, Disturbed
  <2>2. QED
    BY <2>1 DEF SurvivalInv, RetriesElsewhere, OneEmptyServerIsSurvived
<1>7. CASE Heartbeat
  <2>1. UNCHANGED <<kind, up, blocked, top, empty, call>> /\ last \notin up
    BY <1>7 DEF Heartbeat, Beat
  <2>2. GoodServerThere' = GoodServerThere
    BY <2>1 DEF GoodServerThere
  <2>3. RetriesElsewhere'
    BY <2>1, <2>2 DEF SurvivalInv, RetriesElsewhere
  <2>4. OneEmptyServerIsSurvived'
    BY <2>1, <2>2 DEF SurvivalInv, OneEmptyServerIsSurvived
  <2>5. QED
    BY <2>3, <2>4 DEF SurvivalInv
<1>8. CASE UNCHANGED vars
  <2>1. GoodServerThere' = GoodServerThere
    BY <1>8 DEF vars, serverVars, GoodServerThere
  <2>2. RetriesElsewhere'
    BY <1>8, <2>1 DEF vars, serverVars, SurvivalInv, RetriesElsewhere
  <2>3. OneEmptyServerIsSurvived'
    BY <1>8, <2>1 DEF vars, serverVars, SurvivalInv, OneEmptyServerIsSurvived
  <2>4. QED
    BY <2>2, <2>3 DEF SurvivalInv
<1>9. CASE AskFails
  BY <1>3, <1>4, <1>9 DEF AskFails
<1>10. QED
  BY <1>1, <1>2, <1>5, <1>6, <1>7, <1>8, <1>9 DEF Next

\* One server that answers with nothing costs a daily request none of its bars, while
\* another one of PRIMARY_SERVERS, not blocked, answers.
THEOREM EmptyServerIsSurvived == Spec => []OneEmptyServerIsSurvived
<1>1. Init => SurvivalInv
  BY DEF Init, Idle, SurvivalInv, RetriesElsewhere, OneEmptyServerIsSurvived
<1>2. PagingInv /\ SurvivalInv /\ [Next]_vars => SurvivalInv'
  BY StepSurvival
<1>3. SurvivalInv => OneEmptyServerIsSurvived
  BY DEF SurvivalInv
<1>4. QED
  BY <1>1, <1>2, <1>3, Inductive, PTL DEF Spec
=============================================================================
