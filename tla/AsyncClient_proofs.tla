------------------------- MODULE AsyncClient_proofs -------------------------
(***************************************************************************)
(* Proofs about AsyncClient, for all callers, heartbeats, servers, packets *)
(* and connections, and for every pool size, channel capacity, number of   *)
(* retries and bound on late answers.  The inductive invariant is IInv;    *)
(* what holds for one caller only (disconnect is final, a connected client *)
(* is watched) rests on OneCallerInv.                                      *)
(***************************************************************************)
EXTENDS AsyncClient, SequenceTheorems, TLAPS

-----------------------------------------------------------------------------
(* What the operations of a connection do to the requests it holds *)

\* A connection to which r is sent, and one whose task takes the next request.
Sent(l, r) == [l EXCEPT !.queue = Append(@, r)]
Taken(l) ==
  [l EXCEPT !.serving = Head(l.queue), !.queue = Tail(@),
            !.owed = IF l.ended THEN @ ELSE Append(@, Head(l.queue).packet)]

\* The places of a connection are numbers, and a request is at each of them.
LEMMA PlacesHoldRequests ==
  ASSUME NEW l \in Links
  PROVE  /\ Places(l) \subseteq 0..Len(l.queue)
         /\ \A i \in Places(l) : At(l, i) \in Requests
         /\ l.serving = None => Places(l) = 1..Len(l.queue)
         /\ l.serving # None => Places(l) = 0..Len(l.queue)
  <1>1. Len(l.queue) \in Nat /\ DOMAIN l.queue = 1..Len(l.queue)
    BY LenProperties DEF Links
  <1>2. \A i \in DOMAIN l.queue : l.queue[i] \in Requests
    BY <1>1, ElementOfSeq DEF Links
  <1>3. l.serving # None => l.serving \in Requests
    BY DEF Links
  <1>4. QED
    BY <1>1, <1>2, <1>3 DEF Places, At

\* A request that is sent takes the place behind all others.
LEMMA SentIsLast ==
  ASSUME NEW l \in Links, NEW r \in Requests, NEW m, m = Sent(l, r)
  PROVE  /\ m \in Links /\ Len(m.queue) = Len(l.queue) + 1
         /\ Len(l.queue) + 1 \notin Places(l)
         /\ Places(m) = Places(l) \cup {Len(l.queue) + 1}
         /\ At(m, Len(l.queue) + 1) = r
         /\ \A i \in Places(l) : At(m, i) = At(l, i)
  <1>1. /\ m.queue = Append(l.queue, r) /\ l.queue \in Seq(Requests)
        /\ m.serving = l.serving /\ Len(l.queue) \in Nat
    BY LenProperties DEF Links, Sent
  <1>2. /\ m.queue \in Seq(Requests) /\ Len(m.queue) = Len(l.queue) + 1
        /\ \A i \in 1..Len(l.queue) : m.queue[i] = l.queue[i]
        /\ m.queue[Len(l.queue) + 1] = r
    BY <1>1, AppendProperties
  <1>3. m \in Links
    BY <1>2 DEF Links, Sent
  <1>4. Places(m) = Places(l) \cup {Len(l.queue) + 1} /\ Len(l.queue) + 1 \notin Places(l)
    <2>1. CASE l.serving = None
      <3>1. Places(l) = 1..Len(l.queue) /\ Places(m) = 1..Len(m.queue)
        BY <1>1, <1>3, <2>1, PlacesHoldRequests
      <3>2. QED
        BY <1>1, <1>2, <3>1
    <2>2. CASE l.serving # None
      <3>1. Places(l) = 0..Len(l.queue) /\ Places(m) = 0..Len(m.queue)
        BY <1>1, <1>3, <2>2, PlacesHoldRequests
      <3>2. QED
        BY <1>1, <1>2, <3>1
    <2>3. QED
      BY <2>1, <2>2
  <1>5. \A i \in Places(l) : At(m, i) = At(l, i)
    <2>1. \A i \in Places(l) : i \in 0..Len(l.queue)
      BY PlacesHoldRequests
    <2>2. QED
      BY <1>1, <1>2, <2>1 DEF At
  <1>6. At(m, Len(l.queue) + 1) = r
    BY <1>1, <1>2 DEF At
  <1>7. QED
    BY <1>2, <1>3, <1>4, <1>5, <1>6

\* When the task takes a request from its channel, every request moves up one place,
\* and unless the stream has ended its answer is the last one the stream owes.
LEMMA TakenMovesUp ==
  ASSUME NEW l \in Links, l.serving = None, l.queue # <<>>, l.ended => l.owed = <<>>, NEW m, m = Taken(l)
  PROVE  /\ m \in Links /\ m.on = l.on /\ m.server = l.server /\ m.serving # None
         /\ Len(m.queue) = Len(l.queue) - 1 /\ Len(m.queue) \in Nat
         /\ \A i \in Nat : i \in Places(m) <=> i + 1 \in Places(l)
         /\ \A i \in Places(m) : At(m, i) = At(l, i + 1)
         /\ Len(l.owed) \in Nat /\ Len(m.owed) \in Nat /\ Len(m.owed) <= Len(l.owed) + 1
         /\ m.ended => m.owed = <<>>
         /\ ~m.ended => m.owed # <<>> /\ m.owed[Len(m.owed)] = m.serving.packet
  <1>1. /\ l.queue \in Seq(Requests) /\ l.owed \in Seq(Packets \cup {Probe}) /\ l.ended \in BOOLEAN
        /\ Len(l.queue) \in Nat /\ Len(l.queue) # 0 /\ Len(l.owed) \in Nat
    BY LenProperties, EmptySeq DEF Links
  <1>2. /\ Head(l.queue) \in Requests /\ Tail(l.queue) \in Seq(Requests)
        /\ Len(Tail(l.queue)) = Len(l.queue) - 1
        /\ \A i \in 1..Len(Tail(l.queue)) : Tail(l.queue)[i] = l.queue[i + 1]
        /\ Head(l.queue) = l.queue[1]
    BY <1>1, HeadTailProperties
  <1>3. Head(l.queue) # None /\ Head(l.queue).packet \in Packets \cup {Probe}
    BY <1>2, AsyncAssumption DEF Requests
  <1> DEFINE o == Append(l.owed, Head(l.queue).packet)
  <1>4. o \in Seq(Packets \cup {Probe}) /\ Len(o) = Len(l.owed) + 1 /\ o # <<>> /\ o[Len(o)] = Head(l.queue).packet
    BY <1>1, <1>3, AppendProperties
  <1>5. /\ m.on = l.on /\ m.server = l.server /\ m.serving = Head(l.queue) /\ m.queue = Tail(l.queue)
        /\ m.ended = l.ended /\ m.owed = IF l.ended THEN l.owed ELSE o
    BY DEF Links, Taken
  <1> HIDE DEF o
  <1>6. m.owed \in Seq(Packets \cup {Probe})
    BY <1>1, <1>4, <1>5
  <1>7. m \in Links
    <2>1. m = [on |-> l.on, server |-> l.server, queue |-> m.queue, serving |-> m.serving,
               owed |-> m.owed, ended |-> l.ended]
      BY DEF Links, Taken
    <2>2. QED
      BY <1>2, <1>5, <1>6, <2>1 DEF Links
  <1>8. Places(l) = 1..Len(l.queue) /\ Places(m) = 0..Len(m.queue)
    BY <1>3, <1>5, <1>7, PlacesHoldRequests
  <1>9. Len(m.queue) = Len(l.queue) - 1 /\ Len(m.queue) \in Nat
    BY <1>1, <1>2, <1>5
  <1>10. \A i \in Nat : i \in Places(m) <=> i + 1 \in Places(l)
    BY <1>1, <1>8, <1>9
  <1>11. ASSUME NEW i \in Places(m) PROVE At(m, i) = At(l, i + 1)
    <2>1. i \in 0..Len(m.queue)
      BY <1>8
    <2>2. QED
      BY <1>2, <1>5, <1>9, <2>1 DEF At
  <1>12. /\ Len(m.owed) \in Nat /\ Len(m.owed) <= Len(l.owed) + 1
         /\ m.ended => m.owed = <<>>
         /\ ~m.ended => m.owed # <<>> /\ m.owed[Len(m.owed)] = m.serving.packet
    BY <1>1, <1>4, <1>5
  <1>13. QED
    BY <1>1, <1>3, <1>5, <1>7, <1>9, <1>10, <1>11, <1>12

\* A request that is answered leaves place 0; the others stay where they are.
LEMMA AnsweredLeaves ==
  ASSUME NEW l \in Links, NEW m \in Links, m.queue = l.queue, m.serving = None
  PROVE  Places(m) = Places(l) \ {0} /\ \A i \in Places(m) : At(m, i) = At(l, i)
  <1>1. Places(m) = 1..Len(l.queue) /\ Len(l.queue) \in Nat
    BY PlacesHoldRequests, LenProperties DEF Links
  <1>2. Places(l) = 1..Len(l.queue) \/ Places(l) = 0..Len(l.queue)
    BY PlacesHoldRequests
  <1>3. Places(m) = Places(l) \ {0}
    BY <1>1, <1>2
  <1>4. QED
    BY <1>1, <1>3 DEF At

\* A probe that timed out leaves its request where it is, addressed to nobody.
LEMMA UnheardStays ==
  ASSUME NEW l \in Links, NEW b \in Beats, NEW m, m = Unheard(l, b)
  PROVE  /\ m \in Links /\ m.on = l.on /\ m.server = l.server /\ m.owed = l.owed /\ m.ended = l.ended
         /\ Len(m.queue) = Len(l.queue)
         /\ m.serving = None <=> l.serving = None
         /\ l.serving # None => m.serving.packet = l.serving.packet
         /\ Places(m) = Places(l)
         /\ \A i \in Places(l) : At(m, i).to = IF At(l, i).to = b THEN None ELSE At(l, i).to
  <1> DEFINE deaf(r) == IF r.to = b THEN [r EXCEPT !.to = None] ELSE r
             q == [i \in DOMAIN l.queue |-> deaf(l.queue[i])]
  <1>1. \A r \in Requests : /\ deaf(r) \in Requests /\ deaf(r).packet = r.packet
                            /\ deaf(r).to = IF r.to = b THEN None ELSE r.to
    BY DEF Requests
  <1>2. /\ l.queue \in Seq(Requests) /\ Len(l.queue) \in Nat /\ DOMAIN l.queue = 1..Len(l.queue)
        /\ \A i \in 1..Len(l.queue) : l.queue[i] \in Requests
    BY LenProperties, ElementOfSeq DEF Links
  <1>3. q \in [1..Len(l.queue) -> Requests] /\ \A i \in 1..Len(l.queue) : q[i] = deaf(l.queue[i])
    BY <1>1, <1>2
  <1>4. q \in Seq(Requests) /\ Len(q) = Len(l.queue)
    BY <1>2, <1>3, SeqDef, LenProperties
  <1>5. /\ m.queue = q /\ m.serving = (IF l.serving = None THEN None ELSE deaf(l.serving))
        /\ m = [l EXCEPT !.serving = m.serving, !.queue = q]
    BY DEF Unheard, Links
  <1> HIDE DEF q, deaf
  <1>6. l.serving # None => l.serving \in Requests
    BY DEF Links
  <1>7. /\ m \in Links /\ m.on = l.on /\ m.server = l.server /\ m.owed = l.owed /\ m.ended = l.ended
    BY <1>1, <1>4, <1>5, <1>6 DEF Links
  <1>8. m.serving = None <=> l.serving = None
    BY <1>1, <1>5, <1>6, AsyncAssumption DEF Requests
  <1>9. Places(m) = Places(l)
    BY <1>4, <1>5, <1>7, <1>8, PlacesHoldRequests
  <1>10. \A i \in Places(l) : At(m, i).to = IF At(l, i).to = b THEN None ELSE At(l, i).to
    <2> SUFFICES ASSUME NEW i \in Places(l)
                 PROVE  At(m, i).to = IF At(l, i).to = b THEN None ELSE At(l, i).to
      OBVIOUS
    <2>1. CASE i = 0
      <3>1. l.serving # None
        BY <2>1, <1>2, PlacesHoldRequests
      <3>2. QED
        BY <2>1, <3>1, <1>1, <1>5, <1>6 DEF At
    <2>2. CASE i # 0
      <3>1. i \in 1..Len(l.queue)
        BY <2>2, <1>2, PlacesHoldRequests
      <3>2. QED
        BY <2>2, <3>1, <1>1, <1>2, <1>3, <1>5 DEF At
    <2>3. QED
      BY <2>1, <2>2
  <1>11. QED
    BY <1>1, <1>4, <1>5, <1>6, <1>7, <1>8, <1>9, <1>10
-----------------------------------------------------------------------------
(* Types *)

\* The records a call is set to are calls.
LEMMA CallTypes ==
  /\ NoCall \in Calls
  /\ \A c \in Calls : AfterFailure(c) \in Calls
  /\ \A c \in Calls, place \in CallPlaces : [c EXCEPT !.at = place] \in Calls
  <1>1. NoCall \in Calls
    <2>1. 0 \in 0..Retries
      BY AsyncAssumption
    <2>2. QED
      BY <2>1 DEF NoCall, Calls, CallPlaces
  <1>2. ASSUME NEW c \in Calls PROVE AfterFailure(c) \in Calls
    <2>1. CASE c.left > 0
      <3>1. c.left - 1 \in 0..Retries
        BY <2>1, AsyncAssumption DEF Calls
      <3>2. QED
        BY <2>1, <3>1 DEF AfterFailure, Calls, CallPlaces
    <2>2. CASE ~(c.left > 0)
      BY <2>2, <1>1 DEF AfterFailure
    <2>3. QED
      BY <2>1, <2>2
  <1>3. ASSUME NEW c \in Calls, NEW place \in CallPlaces PROVE [c EXCEPT !.at = place] \in Calls
    BY DEF Calls
  <1>4. QED
    BY <1>1, <1>2, <1>3

\* A connection without a task holds nothing, a new one neither.
LEMMA LinkTypes ==
  /\ NoLink \in Links /\ Places(NoLink) = {} /\ Len(NoLink.queue) = 0 /\ Len(NoLink.owed) = 0
  /\ \A s \in Servers : /\ NewLink(s) \in Links /\ Places(NewLink(s)) = {}
                        /\ NewLink(s).on /\ NewLink(s).server = s /\ ~NewLink(s).ended
                        /\ NewLink(s).serving = None /\ NewLink(s).owed = <<>>
                        /\ Len(NewLink(s).queue) = 0 /\ Len(NewLink(s).owed) = 0
  <1>1. NoLink \in Links /\ NoLink.queue = <<>> /\ NoLink.owed = <<>> /\ NoLink.serving = None
    BY EmptySeq DEF NoLink, Links
  <1>2. ASSUME NEW l \in Links, l.queue = <<>>, l.serving = None PROVE Places(l) = {}
    BY <1>2, EmptySeq, PlacesHoldRequests
  <1>3. ASSUME NEW s \in Servers
        PROVE  /\ NewLink(s) \in Links /\ Places(NewLink(s)) = {}
               /\ NewLink(s).on /\ NewLink(s).server = s /\ ~NewLink(s).ended
               /\ NewLink(s).serving = None /\ NewLink(s).owed = <<>>
               /\ Len(NewLink(s).queue) = 0 /\ Len(NewLink(s).owed) = 0
    <2>1. /\ NewLink(s) \in Links /\ NewLink(s).queue = <<>> /\ NewLink(s).serving = None
          /\ NewLink(s).on /\ NewLink(s).server = s /\ NewLink(s).owed = <<>>
      BY <1>1 DEF NewLink, Links
    <2>2. ~NewLink(s).ended
      BY DEF NewLink, NoLink
    <2>3. QED
      BY <2>1, <2>2, <1>2, EmptySeq
  <1>4. QED
    BY <1>1, <1>2, <1>3, EmptySeq

LEMMA InitIInv == Init => IInv
  <1> SUFFICES ASSUME Init PROVE IInv
    OBVIOUS
  <1> USE DEF Init
  <1>1. TypeOK
    <2>1. beat \in [Beats -> [at : BeatPlaces, conn : ConnIds \cup {None}]]
      BY DEF BeatPlaces
    <2>2. link \in [ConnIds -> Links] /\ call \in [Users -> Calls]
      BY CallTypes, LinkTypes
    <2>3. \A c \in ConnIds : link[c] = NoLink /\ Len(link[c].queue) <= Cap /\ Len(link[c].owed) <= MaxOwed + 1
      BY LinkTypes, AsyncAssumption
    <2>4. QED
      BY <2>1, <2>2, <2>3 DEF TypeOK
  <1>2. DialsLocked /\ DialsCurrent /\ InHand
    BY AsyncAssumption DEF DialsLocked, DialsCurrent, InHand, Ready, NoCall
  <1>3. SendersKeepTasks
    BY AsyncAssumption DEF SendersKeepTasks, HasSender, NoCall
  <1>4. RepliesAreAwaited /\ OneRequestEach
    BY LinkTypes DEF RepliesAreAwaited, OneRequestEach
  <1>5. AwaitedAreSent
    BY DEF AwaitedAreSent, Awaits, NoCall
  <1>6. AnswerIsLast
    BY EmptySeq, AsyncAssumption DEF AnswerIsLast, NoLink
  <1>7. OneHeartbeat /\ ConnsOfCurrent
    BY DEF OneHeartbeat, Running, ConnsOfCurrent
  <1>8. QED
    BY <1>1, <1>2, <1>3, <1>4, <1>5, <1>6, <1>7 DEF IInv

\* A call stays a call whichever of its fields is set to a value of its type.
LEMMA CallFields ==
  ASSUME NEW u \in Users
  PROVE  \A f \in [Users -> Calls] :
           /\ f[u] \in Calls
           /\ \A place \in CallPlaces : [f EXCEPT ![u].at = place] \in [Users -> Calls]
           /\ \A s \in Servers \cup {None} : [f EXCEPT ![u].target = s] \in [Users -> Calls]
           /\ \A S \in SUBSET Servers : [f EXCEPT ![u].togo = S] \in [Users -> Calls]
           /\ \A c \in ConnIds \cup {None} : [f EXCEPT ![u].conn = c] \in [Users -> Calls]
           /\ \A o \in BOOLEAN : [f EXCEPT ![u].other = o] \in [Users -> Calls]
           /\ \A b \in Beats \cup {None} : [f EXCEPT ![u].beat = b] \in [Users -> Calls]
           /\ \A k \in Calls : [f EXCEPT ![u] = k] \in [Users -> Calls]
  <1> SUFFICES ASSUME NEW f \in [Users -> Calls]
               PROVE  /\ f[u] \in Calls
                      /\ \A place \in CallPlaces : [f EXCEPT ![u].at = place] \in [Users -> Calls]
                      /\ \A s \in Servers \cup {None} : [f EXCEPT ![u].target = s] \in [Users -> Calls]
                      /\ \A S \in SUBSET Servers : [f EXCEPT ![u].togo = S] \in [Users -> Calls]
                      /\ \A c \in ConnIds \cup {None} : [f EXCEPT ![u].conn = c] \in [Users -> Calls]
                      /\ \A o \in BOOLEAN : [f EXCEPT ![u].other = o] \in [Users -> Calls]
                      /\ \A b \in Beats \cup {None} : [f EXCEPT ![u].beat = b] \in [Users -> Calls]
                      /\ \A k \in Calls : [f EXCEPT ![u] = k] \in [Users -> Calls]
    OBVIOUS
  <1>1. f[u] \in Calls /\ \A k \in Calls : [f EXCEPT ![u] = k] \in [Users -> Calls]
    OBVIOUS
  <1>2. \A place \in CallPlaces : [f EXCEPT ![u].at = place] \in [Users -> Calls]
    BY DEF Calls
  <1>3. \A s \in Servers \cup {None} : [f EXCEPT ![u].target = s] \in [Users -> Calls]
    BY DEF Calls
  <1>4. \A S \in SUBSET Servers : [f EXCEPT ![u].togo = S] \in [Users -> Calls]
    BY DEF Calls
  <1>5. \A c \in ConnIds \cup {None} : [f EXCEPT ![u].conn = c] \in [Users -> Calls]
    BY DEF Calls
  <1>6. \A o \in BOOLEAN : [f EXCEPT ![u].other = o] \in [Users -> Calls]
    BY DEF Calls
  <1>7. \A b \in Beats \cup {None} : [f EXCEPT ![u].beat = b] \in [Users -> Calls]
    BY DEF Calls
  <1>8. QED
    BY <1>1, <1>2, <1>3, <1>4, <1>5, <1>6, <1>7

\* The record a call begins with is one of a call.
LEMMA BeginTypes ==
  /\ \A s \in Servers : [NoCall EXCEPT !.job = "connect", !.at = "lock", !.target = s] \in Calls
  /\ [NoCall EXCEPT !.job = "any", !.at = "known"] \in Calls
  /\ [NoCall EXCEPT !.job = "disconnect", !.at = "stop"] \in Calls
  /\ \A p \in Packets : [NoCall EXCEPT !.job = "request", !.at = "pick", !.packet = p, !.left = Retries] \in Calls
  <1>1. NoCall \in Calls /\ {"lock", "known", "stop", "pick"} \subseteq CallPlaces /\ Retries \in 0..Retries
    BY CallTypes, AsyncAssumption DEF CallPlaces
  <1>2. \A s \in Servers : [NoCall EXCEPT !.job = "connect", !.at = "lock", !.target = s] \in Calls
    BY <1>1 DEF Calls
  <1>3. /\ [NoCall EXCEPT !.job = "any", !.at = "known"] \in Calls
        /\ [NoCall EXCEPT !.job = "disconnect", !.at = "stop"] \in Calls
    BY <1>1 DEF Calls
  <1>4. \A p \in Packets : [NoCall EXCEPT !.job = "request", !.at = "pick", !.packet = p, !.left = Retries] \in Calls
    BY <1>1 DEF Calls
  <1>5. QED
    BY <1>2, <1>3, <1>4

\* A step that leaves the connection tasks and the heartbeats alone, and drops the
\* list of connections if it changes it.
LEMMA FrameType ==
  ASSUME TypeOK, call' \in [Users -> Calls], UNCHANGED <<stops, beat, link>>, conns' \in {conns, {}},
         connLock' \in Users \cup {None}, cur' \in Servers \cup {None},
         connected' \in BOOLEAN, off' \in BOOLEAN
  PROVE  TypeOK'
  BY DEF TypeOK, stops

\* A request that is sent finds room in the channel of a task that runs.
LEMMA SentType ==
  ASSUME TypeOK, NEW c \in ConnIds, NEW r \in Requests, link[c].on, HasRoom(c), Enqueue(c, r),
         call' \in [Users -> Calls], beat' \in [Beats -> [at : BeatPlaces, conn : ConnIds \cup {None}]],
         \A b \in Beats : beat'[b].at = "gone" <=> beat[b].at = "gone",
         UNCHANGED <<client, stops, off>>
  PROVE  TypeOK'
  <1>1. /\ link'[c] \in Links /\ Len(link'[c].queue) <= Cap
        /\ link'[c].owed = link[c].owed /\ link'[c].on
    <2>1. link[c] \in Links /\ link'[c] = Sent(link[c], r)
      BY DEF TypeOK, Enqueue, Sent
    <2>2. Len(link[c].queue) \in Nat /\ Len(link[c].queue) < Cap
      BY <2>1, LenProperties DEF Links, HasRoom
    <2>3. link'[c] \in Links /\ Len(link'[c].queue) = Len(link[c].queue) + 1
      BY <2>1, SentIsLast
    <2>4. link'[c].owed = link[c].owed /\ link'[c].on
      BY <2>1 DEF Links, Sent
    <2>5. QED
      BY <2>2, <2>3, <2>4, AsyncAssumption
  <1>2. \A d \in ConnIds \ {c} : link'[d] = link[d]
    BY DEF Enqueue, TypeOK
  <1>3. link' \in [ConnIds -> Links]
    BY <1>1, <1>2 DEF Enqueue, TypeOK
  <1>4. QED
    BY <1>1, <1>2, <1>3 DEF TypeOK, client, stops

\* What a call does leaves every variable in its type.
LEMMA UserType == ASSUME IInv, NEW u \in Users, Call(u) \/ UserStep(u) PROVE TypeOK'
  <1>1. /\ TypeOK /\ call \in [Users -> Calls] /\ call[u] \in Calls
        /\ connLock \in Users \cup {None} /\ cur \in Servers \cup {None}
        /\ connected \in BOOLEAN /\ off \in BOOLEAN
    BY DEF IInv, TypeOK
  <1>2. ASSUME NEW place \in CallPlaces, Goto(u, place) PROVE call' \in [Users -> Calls]
    BY <1>1, <1>2, CallFields DEF Goto
  <1>3. ASSUME Done(u) \/ Failed(u) PROVE call' \in [Users -> Calls]
    BY <1>1, <1>3, CallTypes, CallFields DEF Done, Failed
  <1>4. {"recall", "pick", "next", "lock", "dial", "stop", "spawn", "keep", "mark", "clear", "forget",
         "unmark", "push", "pickNext", "pushNext", "wait"} \subseteq CallPlaces
    BY DEF CallPlaces
  <1>5. ASSUME Call(u) PROVE TypeOK'
    <2>1. ASSUME NEW k \in Calls, Begin(u, k) PROVE TypeOK'
      BY <1>1, <2>1, FrameType, CallFields DEF Begin, client
    <2>2. QED
      BY <1>5, <2>1, BeginTypes DEF Call, Connect, ConnectToAny, Disconnect, Request
  <1>6. ASSUME Known(u) PROVE TypeOK'
    BY <1>1, <1>2, <1>3, <1>4, <1>6, FrameType DEF Known, client
  <1>7. ASSUME Recall(u) PROVE TypeOK'
    <2>1. \A place \in {"next", "lock"}, S \in SUBSET Servers :
            [call EXCEPT ![u].at = place, ![u].target = cur, ![u].togo = S] \in [Users -> Calls]
      BY <1>1, <1>4, CallFields
    <2>2. call' \in [Users -> Calls]
      BY <1>7, <2>1 DEF Recall
    <2>3. QED
      BY <1>1, <1>7, <2>2, FrameType DEF Recall, client
  <1>8. ASSUME NextServer(u) PROVE TypeOK'
    <2>1. call[u].togo \subseteq Servers
      BY <1>1 DEF Calls
    <2>2. \A s \in Servers :
            [call EXCEPT ![u].at = "lock", ![u].target = s, ![u].togo = call[u].togo \ {s}] \in [Users -> Calls]
      BY <1>1, <1>4, <2>1, CallFields
    <2>3. ASSUME NEW s \in call[u].togo,
                 call' = [call EXCEPT ![u].at = "lock", ![u].target = s, ![u].togo = @ \ {s}]
          PROVE  call' \in [Users -> Calls]
      BY <1>1, <2>1, <2>2, <2>3
    <2>4. call' \in [Users -> Calls]
      BY <1>2, <1>3, <1>4, <1>8, <2>3 DEF NextServer
    <2>5. QED
      BY <1>1, <1>8, <2>4, FrameType DEF NextServer, client
  <1>9. ASSUME Lock(u) PROVE TypeOK'
    <2>1. call[u].target \in Servers \cup {None}
      BY <1>1 DEF Calls
    <2>2. QED
      BY <1>1, <1>2, <1>4, <1>9, <2>1, FrameType DEF Lock
  <1>10. ASSUME DialOne(u) PROVE TypeOK'
    <2>1. call[u].target \in Servers
      BY <1>1, <1>10 DEF DialOne, IInv, InHand, Ready, Calls
    <2>2. ASSUME NEW c \in ConnIds, conns' = conns \cup {c},
                 link' = [link EXCEPT ![c] = NewLink(call[u].target)],
                 UNCHANGED <<connLock, call, cur, connected, stops, beat, off>>
          PROVE  TypeOK'
      <3>1. /\ NewLink(call[u].target) \in Links /\ NewLink(call[u].target).on
            /\ Len(NewLink(call[u].target).queue) <= Cap
            /\ Len(NewLink(call[u].target).owed) <= MaxOwed + 1
        BY <2>1, LinkTypes, AsyncAssumption
      <3>2. QED
        BY <1>1, <2>2, <3>1 DEF TypeOK, stops
    <2>3. ASSUME connLock' = None, UNCHANGED <<conns, link, cur, connected, stops, beat, off>>,
                 call' \in [Users -> Calls]
          PROVE  TypeOK'
      BY <1>1, <2>3, FrameType
    <2>4. QED
      BY <1>2, <1>3, <1>4, <1>10, <2>2, <2>3 DEF DialOne
  <1>11. ASSUME Unlock(u) PROVE TypeOK'
    BY <1>1, <1>2, <1>4, <1>11, FrameType DEF Unlock
  <1>12. ASSUME StopBeat(u) PROVE TypeOK'
    <2>1. call' \in [Users -> Calls]
      BY <1>2, <1>4, <1>12 DEF StopBeat
    <2>2. QED
      BY <1>1, <1>12, <2>1 DEF StopBeat, Running, TypeOK, client
  <1>13. ASSUME Spawn(u) PROVE TypeOK'
    <2>1. PICK b \in Spare : /\ beat' = [beat EXCEPT ![b].at = "sleep"]
                             /\ call' = [call EXCEPT ![u].at = "keep", ![u].beat = b]
      BY <1>13 DEF Spawn
    <2>2. b \in Beats /\ beat[b].at = "gone"
      BY DEF Spare, Running
    <2>3. [call EXCEPT ![u].at = "keep", ![u].beat = b] \in [Users -> Calls]
      BY <1>1, <1>4, <2>2, CallFields
    <2>4. /\ beat' \in [Beats -> [at : BeatPlaces, conn : ConnIds \cup {None}]]
          /\ \A d \in Beats : beat'[d].at = "gone" => beat[d].at = "gone"
      BY <1>1, <2>1, <2>2 DEF TypeOK, BeatPlaces
    <2>5. QED
      BY <1>1, <1>13, <2>1, <2>3, <2>4 DEF Spawn, TypeOK, client, stops
  <1>14. ASSUME Keep(u) PROVE TypeOK'
    <2>1. [call EXCEPT ![u].at = "mark", ![u].beat = None] \in [Users -> Calls]
      BY <1>1, <1>4, CallFields
    <2>2. call[u].beat \in Beats \cup {None}
      BY <1>1 DEF Calls
    <2>3. QED
      BY <1>1, <1>14, <2>1, <2>2 DEF Keep, Running, TypeOK, client
  <1>15. ASSUME Mark(u) PROVE TypeOK'
    BY <1>1, <1>2, <1>3, <1>4, <1>15, FrameType DEF Mark
  <1>16. ASSUME Clear(u) PROVE TypeOK'
    BY <1>1, <1>2, <1>4, <1>16, FrameType DEF Clear
  <1>17. ASSUME Forget(u) PROVE TypeOK'
    BY <1>1, <1>2, <1>4, <1>17, FrameType DEF Forget
  <1>18. ASSUME Unmark(u) PROVE TypeOK'
    BY <1>1, <1>3, <1>18, FrameType DEF Unmark
  <1>19. ASSUME Pick(u) \/ PickNext(u) PROVE TypeOK'
    <2>1. conns \subseteq ConnIds /\ (Cardinality(conns) > 1) \in BOOLEAN
      BY <1>1 DEF TypeOK
    <2>2. ASSUME NEW c \in conns
          PROVE  /\ [call EXCEPT ![u].at = "push", ![u].conn = c, ![u].other = (Cardinality(conns) > 1)]
                       \in [Users -> Calls]
                 /\ [call EXCEPT ![u].at = "pushNext", ![u].conn = c] \in [Users -> Calls]
      BY <1>1, <1>4, <2>1, CallFields
    <2>3. call' \in [Users -> Calls]
      <3>1. CASE Pick(u)
        <4>1. CASE Failed(u)
          BY <1>3, <4>1
        <4>2. CASE ~Failed(u)
          <5>1. PICK c \in conns : call' = [call EXCEPT ![u].at = "push", ![u].conn = c,
                                                      ![u].other = (Cardinality(conns) > 1)]
            BY <3>1, <4>2 DEF Pick
          <5>2. QED
            BY <2>2, <5>1, Zenon
        <4>3. QED
          BY <4>1, <4>2
      <3>2. CASE PickNext(u)
        BY <1>3, <3>2, <2>2 DEF PickNext
      <3>3. QED
        BY <1>19, <3>1, <3>2
    <2>4. QED
      BY <1>1, <1>19, <2>3, FrameType DEF Pick, PickNext, client
  <1>20. ASSUME Push(u) \/ PushNext(u) PROVE TypeOK'
    <2>1. /\ call[u].conn \in ConnIds /\ link[call[u].conn].on
          /\ [packet |-> call[u].packet, to |-> u] \in Requests
      BY <1>1, <1>20 DEF Push, PushNext, IInv, InHand, Ready, Calls, SendersKeepTasks, HasSender, Requests
    <2>2. ASSUME HasRoom(call[u].conn), Enqueue(call[u].conn, [packet |-> call[u].packet, to |-> u]),
                 Goto(u, "wait"), UNCHANGED <<client, stops, beat, off>>
          PROVE  TypeOK'
      <3>1. call' \in [Users -> Calls]
        BY <1>2, <1>4, <2>2
      <3>2. beat' = beat /\ beat' \in [Beats -> [at : BeatPlaces, conn : ConnIds \cup {None}]]
        BY <1>1, <2>2 DEF TypeOK
      <3>3. QED
        BY <1>1, <2>1, <2>2, <3>1, <3>2, SentType
    <2>3. QED
      BY <1>1, <1>2, <1>3, <1>4, <1>20, <2>2, FrameType DEF Push, PushNext, client
  <1>21. QED
    BY <1>5, <1>6, <1>7, <1>8, <1>9, <1>10, <1>11, <1>12, <1>13, <1>14, <1>15, <1>16, <1>17, <1>18, <1>19,
       <1>20 DEF UserStep

\* What a connection task does: the reply, and what becomes of its link.
LEMMA ReplyTypes ==
  ASSUME TypeOK, NEW r \in Requests, NEW ok \in BOOLEAN, Reply(r, ok)
  PROVE  /\ call' \in [Users -> Calls]
         /\ beat' \in [Beats -> [at : BeatPlaces, conn : ConnIds \cup {None}]]
         /\ \A u \in Users \ {r.to} : call'[u] = call[u]
         /\ \A b \in Beats \ {r.to} : beat'[b] = beat[b]
         /\ r.to \in Beats => beat'[r.to].at # "gone" /\ beat'[r.to] \in {[at |-> "sleep", conn |-> None], [at |-> "judge", conn |-> None]}
         /\ r.to \in Users => call'[r.to] \in {NoCall, AfterFailure(call[r.to])}
  <1>1. call \in [Users -> Calls] /\ beat \in [Beats -> [at : BeatPlaces, conn : ConnIds \cup {None}]]
    BY DEF TypeOK
  <1>2. /\ call' \in [Users -> Calls]
        /\ \A u \in Users \ {r.to} : call'[u] = call[u]
        /\ r.to \in Users => call'[r.to] \in {NoCall, AfterFailure(call[r.to])}
    BY <1>1, CallTypes DEF Reply
  <1>3. /\ beat' \in [Beats -> [at : BeatPlaces, conn : ConnIds \cup {None}]]
        /\ \A b \in Beats \ {r.to} : beat'[b] = beat[b]
        /\ r.to \in Beats => beat'[r.to] \in {[at |-> "sleep", conn |-> None], [at |-> "judge", conn |-> None]}
    BY <1>1 DEF Reply, BeatPlaces
  <1>4. QED
    BY <1>2, <1>3

\* A task that changes its own link, and keeps it on.
LEMMA LinkChangeType ==
  ASSUME TypeOK, NEW c \in ConnIds, link[c].on, NEW m \in Links, link' = [link EXCEPT ![c] = m],
         m.on, Len(m.queue) <= Cap, Len(m.owed) <= MaxOwed + 1,
         call' \in [Users -> Calls],
         beat' \in [Beats -> [at : BeatPlaces, conn : ConnIds \cup {None}]],
         \A b \in told : beat'[b].at # "gone",
         UNCHANGED <<conns, connLock, cur, stops, off>>, connected' \in BOOLEAN
  PROVE  TypeOK'
  BY DEF TypeOK, stops

\* A task that takes a request of its channel: the requests move up, and unless the
\* stream has ended the answer to that request is the last one it owes.
LEMMA Takes ==
  ASSUME TypeOK, AnswerIsLast, NEW c \in ConnIds, TaskTakes(c)
  PROVE  LET l == link[c]
             m == link'[c]
         IN  /\ l.on /\ l.serving = None /\ l \in Links
             /\ m \in Links /\ link' = [link EXCEPT ![c] = m]
             /\ m.on /\ m.server = l.server /\ m.serving # None
             /\ \A i \in Nat : i \in Places(m) <=> i + 1 \in Places(l)
             /\ \A i \in Places(m) : At(m, i) = At(l, i + 1)
             /\ Len(m.queue) <= Cap /\ Len(m.owed) <= MaxOwed + 1
             /\ m.ended => m.owed = <<>>
             /\ ~m.ended => m.owed # <<>> /\ m.owed[Len(m.owed)] = m.serving.packet
  <1>1. /\ link[c] \in Links /\ link[c].on /\ link[c].serving = None /\ link[c].queue # <<>>
        /\ Len(link[c].queue) <= Cap /\ Len(link[c].owed) <= MaxOwed
        /\ link[c].ended => link[c].owed = <<>>
    BY DEF TypeOK, AnswerIsLast, TaskTakes
  <1>2. /\ link' = [link EXCEPT ![c] = link'[c]]
        /\ link'[c] = Taken(link[c])
    BY DEF TypeOK, TaskTakes, Taken
  <1>3. Len(link'[c].queue) <= Cap /\ Len(link'[c].owed) <= MaxOwed + 1
    <2>1. /\ Len(link'[c].queue) = Len(link[c].queue) - 1 /\ Len(link'[c].queue) \in Nat
          /\ Len(link[c].owed) \in Nat /\ Len(link'[c].owed) \in Nat
          /\ Len(link'[c].owed) <= Len(link[c].owed) + 1
      BY <1>1, <1>2, TakenMovesUp
    <2>2. QED
      BY <1>1, <2>1, AsyncAssumption
  <1>4. QED
    BY <1>1, <1>2, <1>3, TakenMovesUp

\* A task that is done with the request it serves replies, and the request is gone.
LEMMA Answers ==
  ASSUME TypeOK, NEW c \in ConnIds, TaskReads(c) \/ TaskFails(c), AnswerIsLast
  PROVE  LET l == link[c]
             m == link'[c]
         IN  /\ l.on /\ l \in Links /\ l.serving \in Requests /\ l.serving # None
             /\ 0 \in Places(l) /\ At(l, 0) = l.serving
             /\ \E ok \in BOOLEAN : Reply(l.serving, ok)
             /\ m \in Links /\ link' = [link EXCEPT ![c] = m]
             /\ m.on /\ m.server = l.server /\ m.serving = None
             /\ Places(m) = Places(l) \ {0}
             /\ \A i \in Places(m) : At(m, i) = At(l, i)
             /\ Len(m.queue) <= Cap /\ Len(m.owed) <= MaxOwed
             /\ m.ended => m.owed = <<>>
  <1>1. /\ link[c] \in Links /\ link[c].serving # None /\ link[c].on /\ Len(link[c].queue) <= Cap
        /\ Len(link[c].owed) <= MaxOwed + 1 /\ (link[c].ended => link[c].owed = <<>>)
    <2>1. link[c].serving # None
      BY DEF TaskReads, TaskFails
    <2>2. QED
      BY <2>1 DEF TypeOK, NoLink, AnswerIsLast
  <1>2. /\ link[c].owed \in Seq(Packets \cup {Probe}) /\ Len(link[c].owed) \in Nat
        /\ Len(link[c].queue) \in Nat /\ link[c].ended \in BOOLEAN /\ link[c].serving \in Requests
    BY <1>1, LenProperties DEF Links
  <1>3. 0 \in Places(link[c]) /\ At(link[c], 0) = link[c].serving
    BY <1>1, <1>2, PlacesHoldRequests DEF At
  <1>4. \E ok \in BOOLEAN : Reply(link[c].serving, ok)
    BY DEF TaskReads, TaskFails
  <1>5. /\ link' = [link EXCEPT ![c] = link'[c]] /\ link'[c] \in Links
        /\ link'[c].on /\ link'[c].server = link[c].server
        /\ link'[c].serving = None /\ link'[c].queue = link[c].queue
        /\ Len(link'[c].owed) <= MaxOwed /\ (link'[c].ended => link'[c].owed = <<>>)
    <2>1. CASE TaskReads(c)
      <3>1. link[c].owed # <<>>
        BY <2>1 DEF TaskReads
      <3>2. Tail(link[c].owed) \in Seq(Packets \cup {Probe}) /\ Len(Tail(link[c].owed)) <= MaxOwed
        BY <1>1, <1>2, <3>1, HeadTailProperties, AsyncAssumption
      <3>3. /\ link' = [link EXCEPT ![c] = link'[c]]
            /\ link'[c] = [link[c] EXCEPT !.serving = None, !.owed = Tail(@)]
        BY <2>1 DEF TaskReads, TypeOK
      <3>4. QED
        BY <1>1, <3>1, <3>2, <3>3 DEF Links
    <2>2. CASE TaskFails(c) /\ link' = [link EXCEPT ![c].serving = None, ![c].owed = <<>>, ![c].ended = TRUE]
      <3>1. <<>> \in Seq(Packets \cup {Probe}) /\ Len(<<>>) <= MaxOwed
        BY EmptySeq, AsyncAssumption
      <3>2. /\ link' = [link EXCEPT ![c] = link'[c]]
            /\ link'[c] = [link[c] EXCEPT !.serving = None, !.owed = <<>>, !.ended = TRUE]
        BY <2>2 DEF TypeOK
      <3>3. QED
        BY <1>1, <3>1, <3>2 DEF Links
    <2>3. CASE TaskFails(c) /\ ~link[c].ended /\ Len(link[c].owed) <= MaxOwed
               /\ link' = [link EXCEPT ![c].serving = None]
      <3>1. link' = [link EXCEPT ![c] = link'[c]] /\ link'[c] = [link[c] EXCEPT !.serving = None]
        BY <2>3 DEF TypeOK
      <3>2. QED
        BY <1>1, <2>3, <3>1 DEF Links
    <2>4. QED
      BY <2>1, <2>2, <2>3 DEF TaskFails
  <1>6. /\ Places(link'[c]) = Places(link[c]) \ {0}
        /\ \A i \in Places(link'[c]) : At(link'[c], i) = At(link[c], i)
    BY <1>1, <1>5, AnsweredLeaves
  <1>7. QED
    BY <1>1, <1>2, <1>3, <1>4, <1>5, <1>6

LEMMA TaskType == ASSUME IInv, NEW c \in ConnIds, TaskStep(c) PROVE TypeOK'
  <1>1. /\ TypeOK /\ AnswerIsLast
        /\ link \in [ConnIds -> Links] /\ call \in [Users -> Calls] /\ connected \in BOOLEAN
        /\ beat \in [Beats -> [at : BeatPlaces, conn : ConnIds \cup {None}]]
        /\ \A b \in told : b \in Beats /\ beat[b].at # "gone"
    BY DEF IInv, TypeOK
  <1>2. ASSUME TaskTakes(c) PROVE TypeOK'
    <2>1. UNCHANGED <<client, stops, beat, call, off>>
      BY <1>2 DEF TaskTakes
    <2>2. QED
      BY <1>1, <1>2, <2>1, Takes, LinkChangeType DEF client
  <1>3. ASSUME TaskReads(c) \/ TaskFails(c) PROVE TypeOK'
    <2>1. UNCHANGED <<client, stops, off>>
      BY <1>3 DEF TaskReads, TaskFails
    <2>2. /\ call' \in [Users -> Calls]
          /\ beat' \in [Beats -> [at : BeatPlaces, conn : ConnIds \cup {None}]]
          /\ \A b \in told : beat'[b].at # "gone"
      BY <1>1, <1>3, Answers, ReplyTypes
    <2>3. Len(link'[c].owed) \in Nat
      BY <1>1, <1>3, Answers, LenProperties DEF Links
    <2>4. QED
      BY <1>1, <1>3, <2>1, <2>2, <2>3, Answers, LinkChangeType, AsyncAssumption DEF client
  <1>4. ASSUME TaskEnds(c) PROVE TypeOK'
    <2>1. link' = [link EXCEPT ![c] = NoLink] /\ c \notin conns /\ UNCHANGED <<client, stops, beat, call, off>>
      BY <1>4 DEF TaskEnds, HasSender
    <2>2. QED
      BY <1>1, <2>1, LinkTypes, AsyncAssumption DEF TypeOK, client, stops
  <1>5. QED
    BY <1>2, <1>3, <1>4 DEF TaskStep

\* A probe enters a channel, or times out.
LEMMA BeatType == ASSUME IInv, NEW b \in Beats, BeatStep(b) PROVE TypeOK'
  <1>1. /\ TypeOK /\ link \in [ConnIds -> Links] /\ call \in [Users -> Calls] /\ connected \in BOOLEAN
        /\ beat \in [Beats -> [at : BeatPlaces, conn : ConnIds \cup {None}]]
        /\ \A d \in told : d \in Beats /\ beat[d].at # "gone"
        /\ \A c \in ConnIds : link[c] \in Links
    BY DEF IInv, TypeOK
  <1>2. \A c \in ConnIds \cup {None}, place \in BeatPlaces :
          /\ [beat EXCEPT ![b].at = place] \in [Beats -> [at : BeatPlaces, conn : ConnIds \cup {None}]]
          /\ [beat EXCEPT ![b] = [at |-> place, conn |-> c]] \in [Beats -> [at : BeatPlaces, conn : ConnIds \cup {None}]]
    BY <1>1
  <1>3. {"sleep", "pick", "judge", "probe", "await"} \subseteq BeatPlaces /\ "gone" \in BeatPlaces
    BY DEF BeatPlaces
  <1>4. ASSUME beat[b].at # "gone" => beat'[b].at # "gone" \/ b \notin told',
               \A d \in Beats \ {b} : beat'[d] = beat[d],
               beat' \in [Beats -> [at : BeatPlaces, conn : ConnIds \cup {None}]],
               told' \subseteq told, UNCHANGED <<conns, connLock, cur, slot, link, call, off>>,
               connected' \in BOOLEAN
        PROVE  TypeOK'
    BY <1>1, <1>4 DEF TypeOK
  <1>5. ASSUME BeatEnds(b) PROVE TypeOK'
    BY <1>1, <1>2, <1>3, <1>4, <1>5 DEF BeatEnds, client
  <1>6. ASSUME BeatTicks(b) PROVE TypeOK'
    BY <1>1, <1>2, <1>3, <1>4, <1>6 DEF BeatTicks, client, stops
  <1>7. ASSUME BeatPicks(b) PROVE TypeOK'
    <2>1. conns \subseteq ConnIds
      BY <1>1 DEF TypeOK
    <2>2. QED
      BY <1>1, <1>2, <1>3, <1>4, <1>7, <2>1 DEF BeatPicks, client, stops
  <1>8. ASSUME BeatProbes(b) PROVE TypeOK'
    <2>1. /\ beat[b].conn \in ConnIds /\ link[beat[b].conn].on
          /\ [packet |-> Probe, to |-> b] \in Requests
      BY <1>1, <1>8 DEF BeatProbes, IInv, InHand, SendersKeepTasks, HasSender, Requests
    <2>2. CASE HasRoom(beat[b].conn)
      <3>1. /\ Enqueue(beat[b].conn, [packet |-> Probe, to |-> b])
            /\ beat' = [beat EXCEPT ![b].at = "await"] /\ UNCHANGED <<client, stops, call, off>>
        BY <1>8, <2>1, <2>2 DEF BeatProbes
      <3>2. \A d \in Beats : beat'[d].at = "gone" <=> beat[d].at = "gone"
        BY <1>1, <1>8, <3>1 DEF BeatProbes
      <3>3. QED
        BY <1>1, <1>2, <1>3, <2>1, <2>2, <3>1, <3>2, SentType
    <2>3. CASE ~HasRoom(beat[b].conn)
      BY <1>1, <1>2, <1>3, <1>4, <1>8, <2>3, AsyncAssumption DEF BeatProbes, client, stops
    <2>4. QED
      BY <2>2, <2>3
  <1>9. ASSUME BeatTimesOut(b) PROVE TypeOK'
    <2> DEFINE c == beat[b].conn
    <2>1. c \in ConnIds /\ link[c].on /\ Len(link[c].queue) <= Cap /\ Len(link[c].owed) <= MaxOwed + 1
      BY <1>1, <1>9 DEF BeatTimesOut, IInv, InHand, SendersKeepTasks, HasSender, TypeOK
    <2>2. /\ Unheard(link[c], b) \in Links /\ Unheard(link[c], b).on
          /\ Len(Unheard(link[c], b).queue) <= Cap /\ Len(Unheard(link[c], b).owed) <= MaxOwed + 1
      BY <1>1, <2>1, UnheardStays
    <2>3. /\ link' = [link EXCEPT ![c] = Unheard(link[c], b)]
          /\ beat' = [beat EXCEPT ![b] = [at |-> "judge", conn |-> None]]
          /\ UNCHANGED <<client, stops, call, off>>
      BY <1>9 DEF BeatTimesOut
    <2>4. /\ \A d \in told : beat'[d].at # "gone"
          /\ beat' \in [Beats -> [at : BeatPlaces, conn : ConnIds \cup {None}]]
          /\ call' \in [Users -> Calls] /\ connected' \in BOOLEAN
          /\ UNCHANGED <<conns, connLock, cur, stops, off>>
      BY <1>1, <1>2, <1>3, <2>3 DEF client
    <2> HIDE DEF c
    <2>5. QED
      BY <1>1, <2>1, <2>2, <2>3, <2>4, LinkChangeType
  <1>10. ASSUME BeatJudges(b) PROVE TypeOK'
    <2>1. beat' = [beat EXCEPT ![b].at = "sleep"] /\ connected' \in BOOLEAN
      BY <1>10 DEF BeatJudges
    <2>2. UNCHANGED <<conns, connLock, cur, slot, told, link, call, off>>
      BY <1>10 DEF BeatJudges, stops
    <2>3. /\ beat' \in [Beats -> [at : BeatPlaces, conn : ConnIds \cup {None}]]
          /\ beat'[b].at # "gone" /\ \A d \in Beats \ {b} : beat'[d] = beat[d]
      BY <1>1, <1>2, <1>3, <2>1
    <2>4. QED
      BY <1>4, <2>1, <2>2, <2>3
  <1>11. QED
    BY <1>5, <1>6, <1>7, <1>8, <1>9, <1>10 DEF BeatStep

LEMMA StepType == ASSUME IInv, [Next]_vars PROVE TypeOK'
  <1>1. CASE Next
    BY <1>1, UserType, TaskType, BeatType DEF Next
  <1>2. CASE UNCHANGED vars
    BY <1>2 DEF vars, IInv, TypeOK
  <1>3. QED
    BY <1>1, <1>2
-----------------------------------------------------------------------------
(* What calls and heartbeats have in hand *)

\* A call that returns, begins or is retried has in hand what its place needs.
LEMMA ReadyRecords ==
  /\ Ready(NoCall)
  /\ \A c \in Calls : /\ Ready(c)
                      /\ c.at \in {"pick", "push", "pickNext", "pushNext", "wait"}
                      => Ready(AfterFailure(c)) /\ AfterFailure(c).at \in {"idle", "known"}
  /\ \A s \in Servers : Ready([NoCall EXCEPT !.job = "connect", !.at = "lock", !.target = s])
  /\ Ready([NoCall EXCEPT !.job = "any", !.at = "known"])
  /\ Ready([NoCall EXCEPT !.job = "disconnect", !.at = "stop"])
  /\ \A p \in Packets : Ready([NoCall EXCEPT !.job = "request", !.at = "pick", !.packet = p, !.left = Retries])
  <1>1. Ready(NoCall)
    BY DEF Ready, NoCall
  <1>2. ASSUME NEW c \in Calls, Ready(c), c.at \in {"pick", "push", "pickNext", "pushNext", "wait"}
        PROVE  Ready(AfterFailure(c)) /\ AfterFailure(c).at \in {"idle", "known"}
    <2>1. CASE c.left > 0
      BY <1>2, <2>1 DEF Ready, AfterFailure, Calls
    <2>2. CASE ~(c.left > 0)
      BY <1>1, <2>2 DEF AfterFailure, NoCall
    <2>3. QED
      BY <2>1, <2>2
  <1>3. ASSUME NEW s \in Servers PROVE Ready([NoCall EXCEPT !.job = "connect", !.at = "lock", !.target = s])
    BY AsyncAssumption DEF Ready, NoCall
  <1>4. /\ Ready([NoCall EXCEPT !.job = "any", !.at = "known"])
        /\ Ready([NoCall EXCEPT !.job = "disconnect", !.at = "stop"])
    BY DEF Ready, NoCall
  <1>5. ASSUME NEW p \in Packets
        PROVE  Ready([NoCall EXCEPT !.job = "request", !.at = "pick", !.packet = p, !.left = Retries])
    BY AsyncAssumption DEF Ready, NoCall
  <1>6. QED
    BY <1>1, <1>2, <1>3, <1>4, <1>5

\* A call's step leaves the other calls alone, and the call ready for its next place.
LEMMA UserReady ==
  ASSUME IInv, NEW u \in Users, Call(u) \/ UserStep(u)
  PROVE  Ready(call'[u]) /\ \A v \in Users \ {u} : call'[v] = call[v]
  <1>1. call \in [Users -> Calls] /\ call[u] \in Calls /\ Ready(call[u]) /\ cur \in Servers \cup {None}
        /\ conns \subseteq ConnIds
    BY DEF IInv, TypeOK, InHand
  <1>2. ASSUME Done(u) \/ (Failed(u) /\ call[u].at \in {"pick", "push", "pickNext", "pushNext", "wait"})
        PROVE  Ready(call'[u]) /\ \A v \in Users \ {u} : call'[v] = call[v]
    BY <1>1, <1>2, ReadyRecords DEF Done, Failed
  <1>3. ASSUME Call(u) PROVE Ready(call'[u]) /\ \A v \in Users \ {u} : call'[v] = call[v]
    <2>1. ASSUME NEW k, Begin(u, k), Ready(k) PROVE Ready(call'[u]) /\ \A v \in Users \ {u} : call'[v] = call[v]
      BY <1>1, <2>1 DEF Begin
    <2>2. QED
      BY <1>3, <2>1, ReadyRecords DEF Call, Connect, ConnectToAny, Disconnect, Request
  <1>4. ASSUME Known(u) \/ NextServer(u) PROVE Ready(call'[u]) /\ \A v \in Users \ {u} : call'[v] = call[v]
    <2>1. ASSUME NEW place \in {"recall", "pick"}, Goto(u, place), call[u].at \in {"known", "next"},
                 place = "pick" => call[u].job # "any"
          PROVE  Ready(call'[u]) /\ \A v \in Users \ {u} : call'[v] = call[v]
      BY <1>1, <2>1 DEF Goto, Ready, Calls
    <2>2. ASSUME NEW s \in call[u].togo, call[u].at = "next",
                 call' = [call EXCEPT ![u].at = "lock", ![u].target = s, ![u].togo = @ \ {s}]
          PROVE  Ready(call'[u]) /\ \A v \in Users \ {u} : call'[v] = call[v]
      <3>1. s # None
        BY <1>1, AsyncAssumption DEF Calls
      <3>2. QED
        BY <1>1, <2>2, <3>1 DEF Ready, Calls
    <2>3. QED
      BY <1>2, <1>4, <2>1, <2>2 DEF Known, NextServer
  <1>5. ASSUME Recall(u) PROVE Ready(call'[u]) /\ \A v \in Users \ {u} : call'[v] = call[v]
    BY <1>1, <1>5 DEF Recall, Ready, Calls
  <1>6. ASSUME Lock(u) \/ DialOne(u) \/ Unlock(u)
        PROVE  Ready(call'[u]) /\ \A v \in Users \ {u} : call'[v] = call[v]
    BY <1>1, <1>2, <1>6 DEF Lock, DialOne, Unlock, Goto, Ready, Calls
  <1>7. ASSUME StopBeat(u) \/ Mark(u) PROVE Ready(call'[u]) /\ \A v \in Users \ {u} : call'[v] = call[v]
    BY <1>1, <1>2, <1>7 DEF StopBeat, Mark, Goto, Ready, Calls
  <1>8. ASSUME Spawn(u) PROVE Ready(call'[u]) /\ \A v \in Users \ {u} : call'[v] = call[v]
    BY <1>1, <1>8, AsyncAssumption DEF Spawn, Spare, Ready, Calls
  <1>9. ASSUME Keep(u) PROVE Ready(call'[u]) /\ \A v \in Users \ {u} : call'[v] = call[v]
    BY <1>1, <1>9 DEF Keep, Ready, Calls
  <1>10. ASSUME Clear(u) \/ Forget(u) \/ Unmark(u)
         PROVE  Ready(call'[u]) /\ \A v \in Users \ {u} : call'[v] = call[v]
    <2>1. CASE Clear(u) \/ Forget(u)
      BY <1>1, <2>1 DEF Clear, Forget, Goto, Ready, Calls
    <2>2. CASE Unmark(u)
      BY <1>2, <2>2 DEF Unmark
    <2>3. QED
      BY <1>10, <2>1, <2>2
  <1>11. ASSUME Pick(u) \/ PickNext(u) PROVE Ready(call'[u]) /\ \A v \in Users \ {u} : call'[v] = call[v]
    <2>1. ASSUME NEW c \in conns, call[u].at \in {"pick", "pickNext"},
                 \/ call' = [call EXCEPT ![u].at = "pushNext", ![u].conn = c]
                 \/ call' = [call EXCEPT ![u].at = "push", ![u].conn = c,
                                         ![u].other = (Cardinality(conns) > 1)]
          PROVE  Ready(call'[u]) /\ \A v \in Users \ {u} : call'[v] = call[v]
      <3>1. c # None
        BY <1>1, AsyncAssumption
      <3>2. QED
        BY <1>1, <2>1, <3>1 DEF Ready, Calls
    <2>2. QED
      BY <1>2, <1>11, <2>1 DEF Pick, PickNext
  <1>12. ASSUME Push(u) \/ PushNext(u) PROVE Ready(call'[u]) /\ \A v \in Users \ {u} : call'[v] = call[v]
    <2>1. ASSUME NEW place \in {"wait", "pickNext"}, Goto(u, place), call[u].at \in {"push", "pushNext"}
          PROVE  Ready(call'[u]) /\ \A v \in Users \ {u} : call'[v] = call[v]
      BY <1>1, <2>1 DEF Goto, Ready, Calls
    <2>2. QED
      BY <1>2, <1>12, <2>1 DEF Push, PushNext
  <1>13. QED
    BY <1>3, <1>4, <1>5, <1>6, <1>7, <1>8, <1>9, <1>10, <1>11, <1>12 DEF UserStep

\* A task that answers: whoever it replies to awaited the answer, and no longer does.
LEMMA Replied ==
  ASSUME IInv, NEW c \in ConnIds, TaskReads(c) \/ TaskFails(c), NEW x, x = link[c].serving.to
  PROVE  /\ x # None => Awaits(x, c)
         /\ \A u \in Users \ {x} : call'[u] = call[u]
         /\ \A b \in Beats \ {x} : beat'[b] = beat[b]
         /\ x \in Users => Ready(call'[x]) /\ call'[x].at \in {"idle", "known"} /\ call'[x].conn = None
         /\ x \in Beats => beat'[x].at \in {"sleep", "judge"} /\ beat'[x].conn = None
         /\ UNCHANGED <<client, stops, off>>
  <1>1. TypeOK /\ AnswerIsLast /\ call \in [Users -> Calls]
    BY DEF IInv, TypeOK
  <1>2. /\ link[c].serving \in Requests /\ 0 \in Places(link[c]) /\ At(link[c], 0) = link[c].serving
        /\ \E ok \in BOOLEAN : Reply(link[c].serving, ok)
    BY <1>1, Answers
  <1>3. /\ \A u \in Users \ {x} : call'[u] = call[u]
        /\ \A b \in Beats \ {x} : beat'[b] = beat[b]
        /\ x \in Beats => beat'[x] \in {[at |-> "sleep", conn |-> None], [at |-> "judge", conn |-> None]}
        /\ x \in Users => call'[x] \in {NoCall, AfterFailure(call[x])}
    BY <1>1, <1>2, ReplyTypes
  <1>4. x # None => Awaits(x, c)
    <2>1. \A i \in Places(link[c]) : At(link[c], i).to # None => Awaits(At(link[c], i).to, c)
      BY DEF IInv, RepliesAreAwaited
    <2>2. At(link[c], 0).to # None => Awaits(At(link[c], 0).to, c)
      BY <1>2, <2>1
    <2>3. QED
      BY <1>2, <2>2
  <1>5. ASSUME x \in Users
        PROVE  Ready(call'[x]) /\ call'[x].at \in {"idle", "known"} /\ call'[x].conn = None
    <2>1. call[x] \in Calls /\ Ready(call[x]) /\ call[x].at = "wait"
      BY <1>1, <1>4, <1>5, AsyncAssumption DEF IInv, InHand, Awaits
    <2>2. Ready(call'[x]) /\ call'[x].at \in {"idle", "known"}
      <3>1. Ready(NoCall) /\ NoCall.at = "idle"
        BY ReadyRecords DEF NoCall
      <3>2. Ready(AfterFailure(call[x])) /\ AfterFailure(call[x]).at \in {"idle", "known"}
        BY <2>1, ReadyRecords
      <3>3. QED
        BY <1>3, <1>5, <3>1, <3>2
    <2>3. QED
      BY <2>2 DEF Ready
  <1>6. UNCHANGED <<client, stops, off>>
    BY DEF TaskReads, TaskFails
  <1>7. QED
    BY <1>3, <1>4, <1>5, <1>6

LEMMA StepInHand == ASSUME IInv, [Next]_vars PROVE InHand'
  <1>1. /\ InHand /\ None \notin ConnIds /\ conns \subseteq ConnIds
        /\ beat \in [Beats -> [at : BeatPlaces, conn : ConnIds \cup {None}]]
    BY AsyncAssumption DEF IInv, TypeOK
  <1>2. ASSUME NEW u \in Users, Call(u) \/ UserStep(u) PROVE InHand'
    <2>1. \A v \in Users : Ready(call'[v])
      BY <1>1, <1>2, UserReady DEF InHand
    <2>2. \A b \in Beats : beat'[b].conn # None <=> beat'[b].at \in {"probe", "await"}
      <3>1. CASE beat' = beat
        BY <1>1, <3>1 DEF InHand
      <3>2. CASE Spawn(u)
        BY <1>1, <3>2 DEF Spawn, Spare, Running, InHand
      <3>3. QED
        BY <1>2, <3>1, <3>2 DEF Call, Connect, ConnectToAny, Disconnect, Request, Begin, UserStep, Known,
          Recall, NextServer, Lock, DialOne, Unlock, StopBeat, Keep, Mark, Clear, Forget, Unmark, Pick, Push,
          PickNext, PushNext
    <2>3. QED
      BY <2>1, <2>2 DEF InHand
  <1>3. ASSUME NEW c \in ConnIds, TaskStep(c) PROVE InHand'
    <2>1. CASE TaskReads(c) \/ TaskFails(c)
      BY <1>1, <2>1, Replied DEF InHand
    <2>2. CASE TaskTakes(c) \/ TaskEnds(c)
      BY <1>1, <2>2 DEF TaskTakes, TaskEnds, InHand
    <2>3. QED
      BY <1>3, <2>1, <2>2 DEF TaskStep
  <1>4. ASSUME NEW b \in Beats, BeatStep(b) PROVE InHand'
    BY <1>1, <1>4 DEF BeatStep, BeatEnds, BeatTicks, BeatPicks, BeatProbes, BeatTimesOut, BeatJudges, InHand
  <1>5. QED
    BY <1>1, <1>2, <1>3, <1>4 DEF Next, vars, InHand
-----------------------------------------------------------------------------
(* The steps, as the connections see them *)

\* A call leaves the connections alone, makes a new one, or sends a request.
LEMMA UserMail ==
  ASSUME IInv, NEW u \in Users, Call(u) \/ UserStep(u)
  PROVE  \/ /\ link' = link /\ conns' \subseteq conns /\ call[u].at # "wait" /\ call'[u].at # "wait"
            /\ call'[u].conn \in conns \cup {None, call[u].conn}
            /\ \A b \in Beats : /\ beat'[b].conn = beat[b].conn
                                /\ beat'[b].at = "await" <=> beat[b].at = "await"
         \/ /\ UserStep(u) /\ call[u].at = "dial" /\ call' = call /\ beat' = beat
            /\ \E c \in ConnIds : /\ ~link[c].on /\ ~HasSender(c) /\ conns' = conns \cup {c}
                                  /\ link' = [link EXCEPT ![c] = NewLink(call[u].target)]
         \/ /\ call[u].at \in {"push", "pushNext"} /\ call'[u].at = "wait" /\ call'[u].conn = call[u].conn
            /\ Enqueue(call[u].conn, [packet |-> call[u].packet, to |-> u]) /\ HasRoom(call[u].conn)
            /\ conns' = conns /\ beat' = beat
  <1> DEFINE Silent == /\ link' = link /\ conns' \subseteq conns /\ call[u].at # "wait" /\ call'[u].at # "wait"
                       /\ call'[u].conn \in conns \cup {None, call[u].conn}
                       /\ \A b \in Beats : /\ beat'[b].conn = beat[b].conn
                                           /\ beat'[b].at = "await" <=> beat[b].at = "await"
  <1>1. /\ call \in [Users -> Calls] /\ call[u] \in Calls
        /\ beat \in [Beats -> [at : BeatPlaces, conn : ConnIds \cup {None}]]
    BY DEF IInv, TypeOK
  <1>2. ASSUME Done(u) \/ Failed(u) PROVE call'[u].at # "wait" /\ call'[u].conn \in {None, call[u].conn}
    <2>1. call'[u] \in {NoCall, AfterFailure(call[u])}
      BY <1>1, <1>2 DEF Done, Failed
    <2>2. /\ NoCall.at # "wait" /\ NoCall.conn = None
          /\ AfterFailure(call[u]).at # "wait" /\ AfterFailure(call[u]).conn = None
      BY <1>1 DEF AfterFailure, NoCall, Calls
    <2>3. QED
      BY <2>1, <2>2
  <1>3. ASSUME NEW place, Goto(u, place) PROVE call'[u].at = place /\ call'[u].conn = call[u].conn
    BY <1>1, <1>3 DEF Goto, Calls
  <1>4. CASE Call(u)
    <2>1. ASSUME NEW k, Begin(u, k), k.at # "wait", k.conn = None PROVE Silent
      BY <1>1, <2>1 DEF Begin, client
    <2>2. Silent
      BY <1>4, <2>1 DEF Call, Connect, ConnectToAny, Disconnect, Request, NoCall
    <2>3. QED
      BY <2>2
  <1>5. CASE Known(u)
    BY <1>1, <1>2, <1>3, <1>5 DEF Known, client
  <1>14. CASE NextServer(u)
    <2>1. ASSUME NEW s, call' = [call EXCEPT ![u].at = "lock", ![u].target = s, ![u].togo = @ \ {s}]
          PROVE  call'[u].at = "lock" /\ call'[u].conn = call[u].conn
      BY <1>1, <2>1 DEF Calls
    <2>2. call'[u].at # "wait" /\ call'[u].conn \in {None, call[u].conn}
      <3>1. CASE Done(u) \/ Goto(u, "pick")
        BY <1>2, <1>3, <3>1
      <3>2. CASE ~Done(u) /\ ~Goto(u, "pick")
        <4>1. PICK s \in call[u].togo :
                call' = [call EXCEPT ![u].at = "lock", ![u].target = s, ![u].togo = @ \ {s}]
          BY <1>14, <3>2, Zenon DEF NextServer
        <4>2. QED
          BY <2>1, <4>1
      <3>3. QED
        BY <3>1, <3>2
    <2>3. call[u].at # "wait" /\ UNCHANGED <<client, beat, link>>
      BY <1>14 DEF NextServer
    <2>4. QED
      BY <2>2, <2>3 DEF client
  <1>6. CASE Recall(u)
    BY <1>1, <1>6 DEF Recall, client, Calls
  <1>7. CASE Lock(u) \/ Unlock(u) \/ StopBeat(u)
    BY <1>3, <1>7 DEF Lock, Unlock, StopBeat, client
  <1>15. CASE Mark(u) \/ Clear(u) \/ Forget(u)
    BY <1>2, <1>3, <1>15 DEF Mark, Clear, Forget, client
  <1>16. CASE Unmark(u)
    <2>1. Done(u) /\ call[u].at # "wait" /\ UNCHANGED <<conns, beat, link>>
      BY <1>16 DEF Unmark
    <2>2. QED
      BY <1>2, <2>1
  <1>8. CASE Spawn(u)
    BY <1>1, <1>8 DEF Spawn, Spare, Running, client, Calls
  <1>9. CASE Keep(u)
    BY <1>1, <1>9 DEF Keep, client, Calls
  <1>10. CASE DialOne(u)
    BY <1>1, <1>2, <1>3, <1>10 DEF DialOne, UserStep
  <1>11. CASE Pick(u) \/ PickNext(u)
    <2>1. ASSUME NEW c \in conns,
                 \/ call' = [call EXCEPT ![u].at = "pushNext", ![u].conn = c]
                 \/ call' = [call EXCEPT ![u].at = "push", ![u].conn = c,
                                         ![u].other = (Cardinality(conns) > 1)]
          PROVE  call'[u].at # "wait" /\ call'[u].conn \in conns
      BY <1>1, <2>1 DEF Calls
    <2>2. call'[u].at # "wait" /\ call'[u].conn \in conns \cup {None, call[u].conn}
      BY <1>2, <1>11, <2>1 DEF Pick, PickNext
    <2>3. call[u].at # "wait" /\ UNCHANGED <<client, beat, link>>
      BY <1>11 DEF Pick, PickNext
    <2>4. QED
      BY <2>2, <2>3 DEF client
  <1>12. CASE Push(u) \/ PushNext(u)
    <2>1. ASSUME HasRoom(call[u].conn), Enqueue(call[u].conn, [packet |-> call[u].packet, to |-> u]),
                 Goto(u, "wait")
          PROVE  /\ call[u].at \in {"push", "pushNext"} /\ call'[u].at = "wait" /\ call'[u].conn = call[u].conn
                 /\ Enqueue(call[u].conn, [packet |-> call[u].packet, to |-> u]) /\ HasRoom(call[u].conn)
                 /\ conns' = conns /\ beat' = beat
      BY <1>3, <1>12, <2>1 DEF Push, PushNext, client
    <2>2. ASSUME Failed(u) \/ Goto(u, "pickNext"), link' = link PROVE Silent
      BY <1>1, <1>2, <1>3, <1>12, <2>2 DEF Push, PushNext, client
    <2>3. QED
      BY <1>12, <2>1, <2>2 DEF Push, PushNext
  <1>13. QED
    BY <1>4, <1>5, <1>6, <1>7, <1>8, <1>9, <1>10, <1>11, <1>12, <1>14, <1>15,
       <1>16 DEF UserStep

\* So does a heartbeat.
LEMMA BeatMail ==
  ASSUME IInv, NEW b \in Beats, BeatStep(b)
  PROVE  /\ call' = call /\ conns' = conns /\ \A d \in Beats \ {b} : beat'[d] = beat[d]
         /\ \/ /\ link' = link /\ beat[b].at # "await" /\ beat'[b].at # "await"
               /\ beat'[b].conn \in conns \cup {None, beat[b].conn}
            \/ /\ beat[b].at = "probe" /\ beat'[b].at = "await" /\ beat'[b].conn = beat[b].conn
               /\ Enqueue(beat[b].conn, [packet |-> Probe, to |-> b]) /\ HasRoom(beat[b].conn)
            \/ /\ beat[b].at = "await" /\ beat'[b].at = "judge" /\ beat'[b].conn = None
               /\ link' = [link EXCEPT ![beat[b].conn] = Unheard(@, b)]
  <1>1. beat \in [Beats -> [at : BeatPlaces, conn : ConnIds \cup {None}]]
    BY DEF IInv, TypeOK
  <1>2. CASE BeatEnds(b) \/ BeatTicks(b) \/ BeatJudges(b)
    BY <1>1, <1>2 DEF BeatEnds, BeatTicks, BeatJudges, client
  <1>3. CASE BeatPicks(b)
    BY <1>1, <1>3 DEF BeatPicks, client
  <1>4. CASE BeatProbes(b)
    BY <1>1, <1>4 DEF BeatProbes, client
  <1>5. CASE BeatTimesOut(b)
    BY <1>1, <1>5 DEF BeatTimesOut, client
  <1>6. QED
    BY <1>2, <1>3, <1>4, <1>5 DEF BeatStep

LEMMA StepSenders == ASSUME IInv, [Next]_vars PROVE SendersKeepTasks'
  <1>1. /\ SendersKeepTasks /\ None \notin ConnIds /\ link \in [ConnIds -> Links]
        /\ \A c \in conns : c \in ConnIds
    BY AsyncAssumption DEF IInv, TypeOK
  <1>2. ASSUME conns' \subseteq conns,
               \A v \in Users : call'[v].conn \in conns \cup {None, call[v].conn},
               \A b \in Beats : beat'[b].conn \in conns \cup {None, beat[b].conn},
               \A c \in ConnIds : link[c].on => link'[c].on
        PROVE  SendersKeepTasks'
    BY <1>1, <1>2 DEF SendersKeepTasks, HasSender
  <1>3. ASSUME NEW u \in Users, Call(u) \/ UserStep(u) PROVE SendersKeepTasks'
    <2>1. \A v \in Users \ {u} : call'[v] = call[v]
      BY <1>3, UserReady
    <2>2. ASSUME NEW c \in ConnIds, ~link[c].on, conns' = conns \cup {c}, call' = call, beat' = beat,
                 link' = [link EXCEPT ![c] = NewLink(call[u].target)], call[u].at = "dial"
          PROVE  SendersKeepTasks'
      <3>1. call[u].target \in Servers
        BY <2>2 DEF IInv, TypeOK, InHand, Ready, Calls
      <3>2. link'[c].on /\ \A d \in ConnIds \ {c} : link'[d] = link[d]
        BY <1>1, <2>2, <3>1, LinkTypes
      <3>3. QED
        BY <1>1, <2>2, <3>2 DEF SendersKeepTasks, HasSender
    <2>3. ASSUME Enqueue(call[u].conn, [packet |-> call[u].packet, to |-> u])
          PROVE  \A c \in ConnIds : link[c].on => link'[c].on
      BY <1>1, <2>3 DEF Enqueue, Links
    <2>4. QED
      BY <1>2, <1>3, <2>1, <2>2, <2>3, UserMail
  <1>4. ASSUME NEW c \in ConnIds, TaskStep(c) PROVE SendersKeepTasks'
    <2>1. CASE TaskTakes(c)
      BY <1>1, <1>2, <2>1 DEF TaskTakes, Links, client
    <2>2. CASE TaskReads(c) \/ TaskFails(c)
      <3>1. /\ conns' = conns /\ link'[c].on /\ link' = [link EXCEPT ![c] = link'[c]]
            /\ \A v \in Users : call'[v].conn \in {None, call[v].conn}
            /\ \A b \in Beats : beat'[b].conn \in {None, beat[b].conn}
        BY <2>2, Answers, Replied DEF IInv, client
      <3>2. QED
        BY <1>1, <1>2, <3>1
    <2>3. CASE TaskEnds(c)
      BY <1>1, <2>3 DEF TaskEnds, SendersKeepTasks, HasSender, client
    <2>4. QED
      BY <1>4, <2>1, <2>2, <2>3 DEF TaskStep
  <1>5. ASSUME NEW b \in Beats, BeatStep(b) PROVE SendersKeepTasks'
    <2>1. ASSUME beat[b].at = "await", link' = [link EXCEPT ![beat[b].conn] = Unheard(@, b)]
          PROVE  \A c \in ConnIds : link[c].on => link'[c].on
      BY <1>1, <2>1, UnheardStays
    <2>2. ASSUME Enqueue(beat[b].conn, [packet |-> Probe, to |-> b])
          PROVE  \A c \in ConnIds : link[c].on => link'[c].on
      BY <1>1, <2>2 DEF Enqueue, Links
    <2>3. QED
      BY <1>2, <1>5, <2>1, <2>2, BeatMail
  <1>6. CASE UNCHANGED vars
    BY <1>1, <1>6 DEF vars, SendersKeepTasks, HasSender
  <1>7. QED
    BY <1>3, <1>4, <1>5, <1>6 DEF Next
-----------------------------------------------------------------------------
(* Requests reach those who wait for their answers *)

\* Nobody begins or ceases to wait, and every request stays where it is.
LEMMA MailStays ==
  ASSUME RepliesAreAwaited, OneRequestEach, AwaitedAreSent,
         \A c \in ConnIds : /\ Places(link'[c]) = Places(link[c])
                            /\ \A i \in Places(link[c]) : At(link'[c], i).to = At(link[c], i).to,
         \A c \in ConnIds, x \in Users \cup Beats : Awaits(x, c)' <=> Awaits(x, c)
  PROVE  RepliesAreAwaited' /\ OneRequestEach' /\ AwaitedAreSent'
  <1>1. RepliesAreAwaited'
    <2> SUFFICES ASSUME NEW c \in ConnIds, NEW i \in Places(link'[c]), NEW x, x = At(link'[c], i).to, x # None
                 PROVE  Awaits(x, c)'
      BY DEF RepliesAreAwaited
    <2>1. Awaits(x, c)
      BY DEF RepliesAreAwaited
    <2>2. x \in Users \cup Beats
      BY <2>1 DEF Awaits
    <2>3. QED
      BY <2>1, <2>2
  <1>2. OneRequestEach'
    BY DEF OneRequestEach
  <1>3. AwaitedAreSent'
    BY DEF AwaitedAreSent
  <1>4. QED
    BY <1>1, <1>2, <1>3

\* x, who waited for nothing, sends a request to c and waits for its answer.
LEMMA MailSent ==
  ASSUME TypeOK, RepliesAreAwaited, OneRequestEach, AwaitedAreSent,
         NEW x \in Users \cup Beats, NEW c \in ConnIds, NEW r \in Requests, r.to = x, Enqueue(c, r),
         \A d \in ConnIds : ~Awaits(x, d) /\ (Awaits(x, d)' <=> d = c),
         \A y \in (Users \cup Beats) \ {x}, d \in ConnIds : Awaits(y, d)' <=> Awaits(y, d)
  PROVE  RepliesAreAwaited' /\ OneRequestEach' /\ AwaitedAreSent'
  <1> DEFINE n == Len(link[c].queue) + 1
  <1>1. /\ Places(link'[c]) = Places(link[c]) \cup {n} /\ n \notin Places(link[c])
        /\ At(link'[c], n) = r
        /\ \A i \in Places(link[c]) : At(link'[c], i) = At(link[c], i)
        /\ \A d \in ConnIds \ {c} : link'[d] = link[d]
    <2>1. link[c] \in Links /\ link'[c] = Sent(link[c], r) /\ \A d \in ConnIds \ {c} : link'[d] = link[d]
      BY DEF TypeOK, Enqueue, Sent
    <2>2. QED
      BY <2>1, SentIsLast
  <1> HIDE DEF n
  <1>2. x # None /\ \A d \in ConnIds : \A i \in Places(link[d]) : At(link[d], i).to # x
    BY AsyncAssumption DEF RepliesAreAwaited
  <1>3. RepliesAreAwaited'
    <2> SUFFICES ASSUME NEW d \in ConnIds, NEW i \in Places(link'[d]), NEW y, y = At(link'[d], i).to, y # None
                 PROVE  Awaits(y, d)'
      BY DEF RepliesAreAwaited
    <2>1. CASE d = c /\ i = n
      BY <1>1, <2>1
    <2>2. CASE ~(d = c /\ i = n)
      <3>1. i \in Places(link[d]) /\ At(link'[d], i) = At(link[d], i)
        BY <1>1, <2>2
      <3>2. Awaits(y, d)
        BY <3>1 DEF RepliesAreAwaited
      <3>3. y \in (Users \cup Beats) \ {x}
        BY <1>2, <3>1, <3>2 DEF Awaits
      <3>4. QED
        BY <3>1, <3>2, <3>3
    <2>3. QED
      BY <2>1, <2>2
  <1>4. OneRequestEach'
    <2> SUFFICES ASSUME NEW d \in ConnIds, NEW i \in Places(link'[d]), NEW j \in Places(link'[d]),
                        At(link'[d], i).to # None, At(link'[d], i).to = At(link'[d], j).to
                 PROVE  i = j
      BY DEF OneRequestEach
    <2>1. CASE d # c
      BY <1>1, <2>1 DEF OneRequestEach
    <2>2. CASE d = c
      BY <1>1, <1>2, <2>2 DEF OneRequestEach
    <2>3. QED
      BY <2>1, <2>2
  <1>5. AwaitedAreSent'
    <2> SUFFICES ASSUME NEW d \in ConnIds, NEW y \in Users \cup Beats, Awaits(y, d)'
                 PROVE  \E i \in Places(link'[d]) : At(link'[d], i).to = y
      BY DEF AwaitedAreSent
    <2>1. CASE y = x
      BY <1>1, <2>1
    <2>2. CASE y # x
      <3>1. PICK i \in Places(link[d]) : At(link[d], i).to = y
        BY <2>2 DEF AwaitedAreSent
      <3>2. i \in Places(link'[d]) /\ At(link'[d], i).to = y
        BY <1>1, <3>1
      <3>3. QED
        BY <3>2
    <2>3. QED
      BY <2>1, <2>2
  <1>6. QED
    BY <1>3, <1>4, <1>5

\* The task of c takes a request of its channel.
LEMMA MailTaken ==
  ASSUME IInv, NEW c \in ConnIds, TaskTakes(c)
  PROVE  RepliesAreAwaited' /\ OneRequestEach' /\ AwaitedAreSent'
  <1>1. /\ \A i \in Nat : i \in Places(link'[c]) <=> i + 1 \in Places(link[c])
        /\ \A i \in Places(link'[c]) : At(link'[c], i) = At(link[c], i + 1)
        /\ Places(link'[c]) \subseteq Nat /\ Places(link[c]) \subseteq Nat /\ 0 \notin Places(link[c])
    <2>1. /\ link[c] \in Links /\ link'[c] \in Links /\ link[c].serving = None
          /\ \A i \in Nat : i \in Places(link'[c]) <=> i + 1 \in Places(link[c])
          /\ \A i \in Places(link'[c]) : At(link'[c], i) = At(link[c], i + 1)
      BY Takes DEF IInv
    <2>2. Len(link[c].queue) \in Nat /\ Len(link'[c].queue) \in Nat
      BY <2>1, LenProperties DEF Links
    <2>3. /\ Places(link[c]) = 1..Len(link[c].queue) /\ Places(link[c]) \subseteq 0..Len(link[c].queue)
          /\ Places(link'[c]) \subseteq 0..Len(link'[c].queue)
      BY <2>1, PlacesHoldRequests
    <2>4. QED
      BY <2>1, <2>2, <2>3
  <1>2. (\A d \in ConnIds \ {c} : link'[d] = link[d]) /\ call' = call /\ beat' = beat
    BY DEF TaskTakes, IInv, TypeOK
  <1>3. \A x : \A d \in ConnIds : Awaits(x, d)' <=> Awaits(x, d)
    BY <1>2 DEF Awaits
  <1>4. RepliesAreAwaited'
    <2> SUFFICES ASSUME NEW d \in ConnIds, NEW i \in Places(link'[d]), NEW y, y = At(link'[d], i).to, y # None
                 PROVE  Awaits(y, d)'
      BY DEF RepliesAreAwaited
    <2>1. Awaits(y, d)
      <3>1. \A e \in ConnIds : \A j \in Places(link[e]) :
              At(link[e], j).to # None => Awaits(At(link[e], j).to, e)
        BY DEF IInv, RepliesAreAwaited
      <3>2. CASE d = c
        BY <1>1, <3>1, <3>2
      <3>3. CASE d # c
        BY <1>2, <3>1, <3>3
      <3>4. QED
        BY <3>2, <3>3
    <2>2. QED
      BY <1>3, <2>1
  <1>5. OneRequestEach'
    <2> SUFFICES ASSUME NEW d \in ConnIds, NEW i \in Places(link'[d]), NEW j \in Places(link'[d]),
                        At(link'[d], i).to # None, At(link'[d], i).to = At(link'[d], j).to
                 PROVE  i = j
      BY DEF OneRequestEach
    <2>1. \A e \in ConnIds : \A k, m \in Places(link[e]) :
            At(link[e], k).to # None /\ At(link[e], k).to = At(link[e], m).to => k = m
      BY DEF IInv, OneRequestEach
    <2>2. CASE d = c
      <3>1. i \in Nat /\ j \in Nat /\ i + 1 \in Places(link[c]) /\ j + 1 \in Places(link[c])
        BY <1>1, <2>2
      <3>2. i + 1 = j + 1
        BY <1>1, <2>1, <2>2, <3>1
      <3>3. QED
        BY <3>1, <3>2
    <2>3. CASE d # c
      BY <1>2, <2>1, <2>3
    <2>4. QED
      BY <2>2, <2>3
  <1>6. AwaitedAreSent'
    <2> SUFFICES ASSUME NEW d \in ConnIds, NEW x \in Users \cup Beats, Awaits(x, d)'
                 PROVE  \E i \in Places(link'[d]) : At(link'[d], i).to = x
      BY DEF AwaitedAreSent
    <2>1. PICK i \in Places(link[d]) : At(link[d], i).to = x
      BY <1>3 DEF IInv, AwaitedAreSent
    <2>2. CASE d = c
      <3>1. i - 1 \in Nat /\ i - 1 + 1 = i
        BY <1>1, <2>1, <2>2
      <3>2. i - 1 \in Places(link'[c]) /\ At(link'[c], i - 1) = At(link[c], i)
        BY <1>1, <2>1, <2>2, <3>1
      <3>3. QED
        BY <2>1, <2>2, <3>2
    <2>3. CASE d # c
      BY <1>2, <2>1, <2>3
    <2>4. QED
      BY <2>2, <2>3
  <1>7. QED
    BY <1>4, <1>5, <1>6

\* The task of c answers the request it serves: whoever waited for it no longer does.
LEMMA MailAnswered ==
  ASSUME IInv, NEW c \in ConnIds, TaskReads(c) \/ TaskFails(c)
  PROVE  RepliesAreAwaited' /\ OneRequestEach' /\ AwaitedAreSent'
  <1> DEFINE x == link[c].serving.to
  <1>1. /\ Places(link'[c]) = Places(link[c]) \ {0} /\ 0 \in Places(link[c]) /\ At(link[c], 0).to = x
        /\ \A i \in Places(link'[c]) : At(link'[c], i) = At(link[c], i)
        /\ \A d \in ConnIds \ {c} : link'[d] = link[d]
    BY Answers DEF IInv, TypeOK
  <1>2. /\ x # None => Awaits(x, c)
        /\ \A u \in Users \ {x} : call'[u] = call[u]
        /\ \A b \in Beats \ {x} : beat'[b] = beat[b]
        /\ x \in Users => call'[x].at \in {"idle", "known"}
        /\ x \in Beats => beat'[x].at \in {"sleep", "judge"}
    BY Replied
  <1> HIDE DEF x
  <1>3. \A y \in (Users \cup Beats) \ {x}, d \in ConnIds : Awaits(y, d)' <=> Awaits(y, d)
    BY <1>2 DEF Awaits
  <1>4. x # None => \A d \in ConnIds \ {c} : ~Awaits(x, d)
    BY <1>2, AsyncAssumption DEF Awaits
  <1>5. /\ \A d \in ConnIds : \A i \in Places(link'[d]) : i \in Places(link[d]) /\ At(link'[d], i) = At(link[d], i)
        /\ \A d \in ConnIds : \A i \in Places(link[d]) : d # c \/ i # 0 => i \in Places(link'[d])
    BY <1>1
  <1>6. RepliesAreAwaited'
    <2> SUFFICES ASSUME NEW d \in ConnIds, NEW i \in Places(link'[d]), NEW y, y = At(link'[d], i).to, y # None
                 PROVE  Awaits(y, d)'
      BY DEF RepliesAreAwaited
    <2>1. i \in Places(link[d]) /\ At(link[d], i).to = y /\ Awaits(y, d) /\ y \in Users \cup Beats
      BY <1>5 DEF IInv, RepliesAreAwaited, Awaits
    <2>2. y # x
      <3>1. SUFFICES ASSUME y = x PROVE FALSE
        OBVIOUS
      <3>2. d = c
        BY <1>4, <2>1, <3>1
      <3>3. i = 0
        BY <1>1, <2>1, <3>1, <3>2 DEF IInv, OneRequestEach
      <3>4. QED
        BY <1>1, <3>2, <3>3
    <2>3. QED
      BY <1>3, <2>1, <2>2
  <1>7. OneRequestEach'
    <2> SUFFICES ASSUME NEW d \in ConnIds, NEW i \in Places(link'[d]), NEW j \in Places(link'[d]),
                        At(link'[d], i).to # None, At(link'[d], i).to = At(link'[d], j).to
                 PROVE  i = j
      BY DEF OneRequestEach
    <2>1. QED
      BY <1>5 DEF IInv, OneRequestEach
  <1>8. AwaitedAreSent'
    <2> SUFFICES ASSUME NEW d \in ConnIds, NEW y \in Users \cup Beats, Awaits(y, d)'
                 PROVE  \E i \in Places(link'[d]) : At(link'[d], i).to = y
      BY DEF AwaitedAreSent
    <2>1. y # x
      BY <1>2, AsyncAssumption DEF Awaits
    <2>2. PICK i \in Places(link[d]) : At(link[d], i).to = y
      BY <1>3, <2>1 DEF IInv, AwaitedAreSent
    <2>3. i \in Places(link'[d]) /\ At(link'[d], i).to = y
      BY <1>1, <1>5, <2>1, <2>2
    <2>4. QED
      BY <2>3
  <1>9. QED
    BY <1>6, <1>7, <1>8

\* A heartbeat gives up waiting: its request is addressed to nobody any more.
LEMMA MailUnheard ==
  ASSUME IInv, NEW b \in Beats, NEW c \in ConnIds, beat[b].at = "await", beat[b].conn = c,
         link' = [link EXCEPT ![c] = Unheard(@, b)],
         call' = call, beat'[b].at = "judge", \A d \in Beats \ {b} : beat'[d] = beat[d]
  PROVE  RepliesAreAwaited' /\ OneRequestEach' /\ AwaitedAreSent'
  <1>1. /\ Places(link'[c]) = Places(link[c])
        /\ \A i \in Places(link[c]) : At(link'[c], i).to = IF At(link[c], i).to = b THEN None ELSE At(link[c], i).to
        /\ \A d \in ConnIds \ {c} : link'[d] = link[d]
    <2>1. link[c] \in Links /\ link'[c] = Unheard(link[c], b) /\ \A d \in ConnIds \ {c} : link'[d] = link[d]
      BY DEF IInv, TypeOK
    <2>2. QED
      BY <2>1, UnheardStays
  <1>2. \A y \in (Users \cup Beats) \ {b}, d \in ConnIds : Awaits(y, d)' <=> Awaits(y, d)
    BY DEF Awaits
  <1>3. b \notin Users /\ b # None /\ \A d \in ConnIds : (Awaits(b, d) => d = c) /\ ~Awaits(b, d)'
    BY AsyncAssumption DEF Awaits
  <1>4. /\ \A d \in ConnIds : Places(link'[d]) = Places(link[d])
        /\ \A d \in ConnIds : \A i \in Places(link[d]) :
             At(link'[d], i).to # None => At(link'[d], i).to = At(link[d], i).to /\ At(link[d], i).to # b
        /\ \A d \in ConnIds : \A i \in Places(link[d]) :
             At(link[d], i).to # b => At(link'[d], i).to = At(link[d], i).to
    <2>1. ASSUME NEW d \in ConnIds \ {c}, NEW i \in Places(link[d]) PROVE At(link[d], i).to # b
      BY <1>3 DEF IInv, RepliesAreAwaited
    <2>2. QED
      BY <1>1, <2>1
  <1>5. RepliesAreAwaited'
    <2> SUFFICES ASSUME NEW d \in ConnIds, NEW i \in Places(link'[d]), NEW y, y = At(link'[d], i).to, y # None
                 PROVE  Awaits(y, d)'
      BY DEF RepliesAreAwaited
    <2>1. i \in Places(link[d]) /\ At(link[d], i).to = y /\ y # b
      BY <1>4
    <2>2. Awaits(y, d) /\ y \in Users \cup Beats
      BY <2>1 DEF IInv, RepliesAreAwaited, Awaits
    <2>3. QED
      BY <1>2, <2>1, <2>2
  <1>6. OneRequestEach'
    BY <1>4 DEF IInv, OneRequestEach
  <1>7. AwaitedAreSent'
    <2> SUFFICES ASSUME NEW d \in ConnIds, NEW y \in Users \cup Beats, Awaits(y, d)'
                 PROVE  \E i \in Places(link'[d]) : At(link'[d], i).to = y
      BY DEF AwaitedAreSent
    <2>1. y # b
      BY <1>3
    <2>2. PICK i \in Places(link[d]) : At(link[d], i).to = y
      BY <1>2, <2>1 DEF IInv, AwaitedAreSent
    <2>3. QED
      BY <1>4, <2>1, <2>2
  <1>8. QED
    BY <1>5, <1>6, <1>7

LEMMA StepMail ==
  ASSUME IInv, [Next]_vars PROVE RepliesAreAwaited' /\ OneRequestEach' /\ AwaitedAreSent'
  <1>1. /\ TypeOK /\ RepliesAreAwaited /\ OneRequestEach /\ AwaitedAreSent
        /\ \A c \in ConnIds : link[c] \in Links /\ (~link[c].on => link[c] = NoLink)
        /\ link \in [ConnIds -> Links] /\ call \in [Users -> Calls]
        /\ Users \cap Beats = {} /\ None \notin ConnIds
    BY AsyncAssumption DEF IInv, TypeOK
  <1>2. ASSUME \A c \in ConnIds : link'[c] # link[c] => Places(link[c]) = {} /\ Places(link'[c]) = {},
               \A c \in ConnIds, x \in Users \cup Beats : Awaits(x, c)' <=> Awaits(x, c)
        PROVE  RepliesAreAwaited' /\ OneRequestEach' /\ AwaitedAreSent'
    <2>1. \A c \in ConnIds : /\ Places(link'[c]) = Places(link[c])
                             /\ \A i \in Places(link[c]) : At(link'[c], i).to = At(link[c], i).to
      BY <1>2
    <2>2. QED
      BY <1>1, <1>2, <2>1, MailStays
  <1>3. ASSUME NEW u \in Users, Call(u) \/ UserStep(u)
        PROVE  RepliesAreAwaited' /\ OneRequestEach' /\ AwaitedAreSent'
    <2>1. \A v \in Users \ {u} : call'[v] = call[v]
      BY <1>3, UserReady
    <2>2. ASSUME link' = link, call[u].at # "wait", call'[u].at # "wait",
                 \A b \in Beats : beat'[b].conn = beat[b].conn /\ (beat'[b].at = "await" <=> beat[b].at = "await")
          PROVE  RepliesAreAwaited' /\ OneRequestEach' /\ AwaitedAreSent'
      <3>1. \A c \in ConnIds, x \in Users \cup Beats : Awaits(x, c)' <=> Awaits(x, c)
        BY <2>1, <2>2 DEF Awaits
      <3>2. QED
        BY <1>2, <2>2, <3>1
    <2>3. ASSUME NEW c \in ConnIds, ~link[c].on, call' = call, beat' = beat, call[u].at = "dial",
                 link' = [link EXCEPT ![c] = NewLink(call[u].target)]
          PROVE  RepliesAreAwaited' /\ OneRequestEach' /\ AwaitedAreSent'
      <3>1. call[u].target \in Servers
        BY <1>1, <2>3 DEF IInv, InHand, Ready, Calls
      <3>2. Places(link[c]) = {} /\ Places(link'[c]) = {} /\ \A d \in ConnIds \ {c} : link'[d] = link[d]
        BY <1>1, <2>3, <3>1, LinkTypes
      <3>3. \A d \in ConnIds, x \in Users \cup Beats : Awaits(x, d)' <=> Awaits(x, d)
        BY <2>3 DEF Awaits
      <3>4. QED
        BY <1>2, <3>2, <3>3
    <2>4. ASSUME call[u].at \in {"push", "pushNext"}, call'[u].at = "wait", call'[u].conn = call[u].conn,
                 Enqueue(call[u].conn, [packet |-> call[u].packet, to |-> u]), beat' = beat
          PROVE  RepliesAreAwaited' /\ OneRequestEach' /\ AwaitedAreSent'
      <3> DEFINE c == call[u].conn
                 r == [packet |-> call[u].packet, to |-> u]
      <3>1. c \in ConnIds /\ r \in Requests /\ r.to = u
        BY <1>1, <2>4 DEF IInv, InHand, Ready, Calls, Requests
      <3>2. \A d \in ConnIds : ~Awaits(u, d) /\ (Awaits(u, d)' <=> d = c)
        BY <1>1, <2>4 DEF Awaits
      <3>3. \A y \in (Users \cup Beats) \ {u}, d \in ConnIds : Awaits(y, d)' <=> Awaits(y, d)
        BY <2>1, <2>4 DEF Awaits
      <3>4. Enqueue(c, r)
        BY <2>4
      <3> HIDE DEF c, r
      <3>5. QED
        BY <1>1, <3>1, <3>2, <3>3, <3>4, MailSent
    <2>5. QED
      BY <1>3, <2>2, <2>3, <2>4, UserMail
  <1>4. ASSUME NEW c \in ConnIds, TaskStep(c)
        PROVE  RepliesAreAwaited' /\ OneRequestEach' /\ AwaitedAreSent'
    <2>1. CASE TaskEnds(c)
      <3>1. Places(link[c]) = {}
        BY <1>1, <2>1, PlacesHoldRequests, EmptySeq DEF TaskEnds
      <3>2. /\ Places(link'[c]) = {} /\ \A d \in ConnIds \ {c} : link'[d] = link[d]
            /\ call' = call /\ beat' = beat
        BY <1>1, <2>1, LinkTypes DEF TaskEnds
      <3>3. \A d \in ConnIds, x \in Users \cup Beats : Awaits(x, d)' <=> Awaits(x, d)
        BY <3>2 DEF Awaits
      <3>4. QED
        BY <1>2, <3>1, <3>2, <3>3
    <2>2. QED
      BY <1>4, <2>1, MailTaken, MailAnswered DEF TaskStep
  <1>5. ASSUME NEW b \in Beats, BeatStep(b)
        PROVE  RepliesAreAwaited' /\ OneRequestEach' /\ AwaitedAreSent'
    <2>1. call' = call /\ \A d \in Beats \ {b} : beat'[d] = beat[d]
      BY <1>5, BeatMail
    <2>2. ASSUME link' = link, beat[b].at # "await", beat'[b].at # "await"
          PROVE  RepliesAreAwaited' /\ OneRequestEach' /\ AwaitedAreSent'
      <3>1. \A c \in ConnIds, x \in Users \cup Beats : Awaits(x, c)' <=> Awaits(x, c)
        BY <2>1, <2>2 DEF Awaits
      <3>2. QED
        BY <1>2, <2>2, <3>1
    <2>3. ASSUME beat[b].at = "probe", beat'[b].at = "await", beat'[b].conn = beat[b].conn,
                 Enqueue(beat[b].conn, [packet |-> Probe, to |-> b])
          PROVE  RepliesAreAwaited' /\ OneRequestEach' /\ AwaitedAreSent'
      <3> DEFINE c == beat[b].conn
                 r == [packet |-> Probe, to |-> b]
      <3>1. c \in ConnIds /\ r \in Requests /\ r.to = b
        BY <1>1, <2>3 DEF IInv, TypeOK, InHand, Requests
      <3>2. \A d \in ConnIds : ~Awaits(b, d) /\ (Awaits(b, d)' <=> d = c)
        BY <1>1, <2>3 DEF Awaits
      <3>3. \A y \in (Users \cup Beats) \ {b}, d \in ConnIds : Awaits(y, d)' <=> Awaits(y, d)
        BY <2>1, <2>3 DEF Awaits
      <3>4. Enqueue(c, r)
        BY <2>3
      <3> HIDE DEF c, r
      <3>5. QED
        BY <1>1, <3>1, <3>2, <3>3, <3>4, MailSent
    <2>4. ASSUME beat[b].at = "await", beat'[b].at = "judge",
                 link' = [link EXCEPT ![beat[b].conn] = Unheard(@, b)]
          PROVE  RepliesAreAwaited' /\ OneRequestEach' /\ AwaitedAreSent'
      <3>1. beat[b].conn \in ConnIds
        BY <1>1, <2>4 DEF IInv, TypeOK, InHand
      <3>2. QED
        BY <2>1, <2>4, <3>1, MailUnheard
    <2>5. QED
      BY <1>5, <2>2, <2>3, <2>4, BeatMail
  <1>6. CASE UNCHANGED vars
    <2>1. link' = link /\ \A c \in ConnIds, x \in Users \cup Beats : Awaits(x, c)' <=> Awaits(x, c)
      BY <1>6 DEF vars, Awaits
    <2>2. QED
      BY <1>2, <2>1
  <1>7. QED
    BY <1>3, <1>4, <1>5, <1>6 DEF Next
-----------------------------------------------------------------------------
(* Dials, servers, answers, heartbeats *)

\* A call begins to dial, ends dialling, or does neither; only a call that begins to
\* dial sets current_server to a server, and it drops the list of connections.
LEMMA UserDials ==
  ASSUME IInv, NEW u \in Users, Call(u) \/ UserStep(u)
  PROVE  \/ /\ connLock' = connLock /\ cur' \in {cur, None}
            /\ call' = call \/ (call[u].at # "dial" /\ call'[u].at # "dial")
         \/ /\ connLock = None /\ connLock' = u /\ cur' = call[u].target /\ conns' = {}
            /\ call'[u].target = call[u].target /\ call'[u].at = "dial"
         \/ /\ call[u].at = "dial" /\ connLock' = None /\ cur' = cur /\ call'[u].at # "dial"
  <1> DEFINE Aside == /\ connLock' = connLock /\ cur' \in {cur, None}
                      /\ call[u].at # "dial" /\ call'[u].at # "dial"
  <1>1. call \in [Users -> Calls] /\ call[u] \in Calls
    BY DEF IInv, TypeOK
  <1>2. ASSUME Done(u) \/ Failed(u) PROVE call'[u].at # "dial"
    <2>1. call'[u] \in {NoCall, AfterFailure(call[u])}
      BY <1>1, <1>2 DEF Done, Failed
    <2>2. NoCall.at # "dial" /\ AfterFailure(call[u]).at # "dial"
      BY <1>1 DEF AfterFailure, NoCall, Calls
    <2>3. QED
      BY <2>1, <2>2
  <1>3. ASSUME NEW place, Goto(u, place) PROVE call'[u].at = place /\ call'[u].target = call[u].target
    BY <1>1, <1>3 DEF Goto, Calls
  <1>4. CASE Call(u)
    <2>1. ASSUME NEW k, Begin(u, k), k.at # "dial" PROVE Aside
      BY <1>1, <2>1 DEF Begin, client
    <2>2. Aside
      BY <1>4, <2>1 DEF Call, Connect, ConnectToAny, Disconnect, Request, NoCall
    <2>3. QED
      BY <2>2
  <1>5. CASE Known(u)
    BY <1>2, <1>3, <1>5 DEF Known, client
  <1>6. CASE Recall(u)
    BY <1>1, <1>6 DEF Recall, client, Calls
  <1>7. CASE NextServer(u)
    <2>1. ASSUME NEW s, call' = [call EXCEPT ![u].at = "lock", ![u].target = s, ![u].togo = @ \ {s}]
          PROVE  call'[u].at # "dial"
      BY <1>1, <2>1 DEF Calls
    <2>2. call'[u].at # "dial"
      <3>1. CASE Done(u) \/ Goto(u, "pick")
        BY <1>2, <1>3, <3>1
      <3>2. CASE ~Done(u) /\ ~Goto(u, "pick")
        <4>1. PICK s \in call[u].togo :
                call' = [call EXCEPT ![u].at = "lock", ![u].target = s, ![u].togo = @ \ {s}]
          BY <1>7, <3>2, Zenon DEF NextServer
        <4>2. QED
          BY <2>1, <4>1
      <3>3. QED
        BY <3>1, <3>2
    <2>3. call[u].at # "dial" /\ UNCHANGED client
      BY <1>7 DEF NextServer
    <2>4. QED
      BY <2>2, <2>3 DEF client
  <1>8. CASE Lock(u)
    BY <1>3, <1>8 DEF Lock
  <1>9. CASE DialOne(u) \/ Unlock(u)
    BY <1>2, <1>3, <1>9 DEF DialOne, Unlock
  <1>10. CASE StopBeat(u) \/ Mark(u) \/ Clear(u) \/ Forget(u)
    BY <1>2, <1>3, <1>10 DEF StopBeat, Mark, Clear, Forget, client
  <1>11. CASE Spawn(u) \/ Keep(u)
    BY <1>1, <1>11 DEF Spawn, Keep, client, Calls
  <1>12. CASE Unmark(u)
    <2>1. Done(u) /\ call[u].at # "dial" /\ UNCHANGED <<connLock, cur>>
      BY <1>12 DEF Unmark
    <2>2. QED
      BY <1>2, <2>1
  <1>13. CASE Pick(u) \/ PickNext(u)
    <2>1. ASSUME NEW c \in conns,
                 \/ call' = [call EXCEPT ![u].at = "pushNext", ![u].conn = c]
                 \/ call' = [call EXCEPT ![u].at = "push", ![u].conn = c,
                                         ![u].other = (Cardinality(conns) > 1)]
          PROVE  call'[u].at # "dial"
      BY <1>1, <2>1 DEF Calls
    <2>2. call'[u].at # "dial"
      BY <1>2, <1>13, <2>1 DEF Pick, PickNext
    <2>3. call[u].at # "dial" /\ UNCHANGED client
      BY <1>13 DEF Pick, PickNext
    <2>4. QED
      BY <2>2, <2>3 DEF client
  <1>14. CASE Push(u) \/ PushNext(u)
    BY <1>2, <1>3, <1>14 DEF Push, PushNext, client
  <1>15. QED
    BY <1>4, <1>5, <1>6, <1>7, <1>8, <1>9, <1>10, <1>11, <1>12, <1>13, <1>14 DEF UserStep

LEMMA StepDials == ASSUME IInv, [Next]_vars PROVE DialsLocked' /\ DialsCurrent'
  <1>1. DialsLocked /\ DialsCurrent /\ None \notin Users
    BY AsyncAssumption DEF IInv
  <1>2. ASSUME connLock' = connLock, cur' = cur,
               \A u \in Users : call'[u] = call[u] \/ (call[u].at # "dial" /\ call'[u].at # "dial")
        PROVE  DialsLocked' /\ DialsCurrent'
    BY <1>1, <1>2 DEF DialsLocked, DialsCurrent
  <1>3. ASSUME NEW u \in Users, Call(u) \/ UserStep(u) PROVE DialsLocked' /\ DialsCurrent'
    <2>1. \A v \in Users \ {u} : call'[v] = call[v]
      BY <1>3, UserReady
    <2>2. DialsLocked'
      BY <1>1, <1>3, <2>1, UserDials DEF DialsLocked
    <2>3. DialsCurrent'
      BY <1>1, <1>3, <2>1, UserDials DEF DialsLocked, DialsCurrent
    <2>4. QED
      BY <2>2, <2>3
  <1>4. ASSUME NEW c \in ConnIds, TaskStep(c) PROVE DialsLocked' /\ DialsCurrent'
    <2>1. CASE TaskReads(c) \/ TaskFails(c)
      <3>1. PICK x : x = link[c].serving.to
        OBVIOUS
      <3>2. /\ connLock' = connLock /\ cur' = cur
            /\ \A u \in Users \ {x} : call'[u] = call[u]
            /\ x \in Users => call[x].at = "wait" /\ call'[x].at \in {"idle", "known"}
        BY <1>1, <2>1, <3>1, Replied, AsyncAssumption DEF client, Awaits
      <3>3. QED
        BY <1>2, <3>2
    <2>2. CASE TaskTakes(c) \/ TaskEnds(c)
      BY <1>2, <2>2 DEF TaskTakes, TaskEnds, client
    <2>3. QED
      BY <1>4, <2>1, <2>2 DEF TaskStep
  <1>5. ASSUME NEW b \in Beats, BeatStep(b) PROVE DialsLocked' /\ DialsCurrent'
    <2>1. call' = call /\ connLock' = connLock /\ cur' = cur
      BY <1>5 DEF BeatStep, BeatEnds, BeatTicks, BeatPicks, BeatProbes, BeatTimesOut, BeatJudges, client
    <2>2. QED
      BY <1>2, <2>1
  <1>6. CASE UNCHANGED vars
    BY <1>2, <1>6 DEF vars
  <1>7. QED
    BY <1>3, <1>4, <1>5, <1>6 DEF Next

\* All connections go to one server, as long as those who dial dial the current one.
LEMMA StepConns == ASSUME IInv, [Next]_vars PROVE ConnsOfCurrent'
  <1>1. /\ ConnsOfCurrent /\ DialsCurrent /\ link \in [ConnIds -> Links] /\ \A c \in conns : c \in ConnIds
        /\ None \notin ConnIds
    BY AsyncAssumption DEF IInv, TypeOK
  <1>2. ASSUME conns' \subseteq conns, cur' \in {cur, None},
               \A c \in conns : link'[c].server = link[c].server
        PROVE  ConnsOfCurrent'
    BY <1>1, <1>2 DEF ConnsOfCurrent
  <1>3. ASSUME NEW c \in ConnIds, NEW r, Enqueue(c, r) PROVE \A d \in conns : link'[d].server = link[d].server
    BY <1>1, <1>3 DEF Enqueue, Links
  <1>4. ASSUME NEW u \in Users, Call(u) \/ UserStep(u) PROVE ConnsOfCurrent'
    <2>1. ASSUME NEW c \in ConnIds, ~HasSender(c), conns' = conns \cup {c}, call' = call,
                 call[u].at = "dial", link' = [link EXCEPT ![c] = NewLink(call[u].target)]
          PROVE  ConnsOfCurrent'
      <3>1. call[u].target \in Servers /\ c \notin conns
        BY <2>1 DEF IInv, TypeOK, InHand, Ready, Calls, HasSender
      <3>2. link'[c].server = call[u].target /\ \A d \in conns : link'[d] = link[d]
        BY <1>1, <2>1, <3>1, LinkTypes
      <3>3. cur' \in {cur, None} \/ conns' = {}
        BY <1>4, <2>1, UserDials DEF IInv, DialsLocked
      <3>4. cur \in {call[u].target, None}
        BY <1>1, <2>1 DEF DialsCurrent
      <3>5. QED
        BY <1>1, <2>1, <3>2, <3>3, <3>4 DEF ConnsOfCurrent
    <2>2. CASE conns' = {}
      BY <2>2 DEF ConnsOfCurrent
    <2>3. cur' \in {cur, None} \/ conns' = {}
      BY <1>4, UserDials
    <2>4. ASSUME Enqueue(call[u].conn, [packet |-> call[u].packet, to |-> u]), conns' = conns,
                 call[u].at \in {"push", "pushNext"}
          PROVE  ConnsOfCurrent'
      <3>1. call[u].conn \in ConnIds
        BY <2>4 DEF IInv, TypeOK, InHand, Ready, Calls
      <3>2. QED
        BY <1>2, <1>3, <2>2, <2>3, <2>4, <3>1
    <2>5. QED
      BY <1>2, <1>4, <2>1, <2>2, <2>3, <2>4, UserMail
  <1>5. ASSUME NEW c \in ConnIds, TaskStep(c) PROVE ConnsOfCurrent'
    <2>1. CASE TaskTakes(c)
      BY <1>1, <1>2, <2>1 DEF TaskTakes, Links, client
    <2>2. CASE TaskReads(c) \/ TaskFails(c)
      <3>1. link'[c].server = link[c].server /\ link' = [link EXCEPT ![c] = link'[c]] /\ UNCHANGED client
        BY <2>2, Answers, Replied DEF IInv
      <3>2. QED
        BY <1>1, <1>2, <3>1 DEF client
    <2>3. CASE TaskEnds(c)
      BY <1>1, <1>2, <2>3 DEF TaskEnds, HasSender, client
    <2>4. QED
      BY <1>5, <2>1, <2>2, <2>3 DEF TaskStep
  <1>6. ASSUME NEW b \in Beats, BeatStep(b) PROVE ConnsOfCurrent'
    <2>1. conns' = conns /\ cur' = cur
      BY <1>6 DEF BeatStep, BeatEnds, BeatTicks, BeatPicks, BeatProbes, BeatTimesOut, BeatJudges, client
    <2>2. ASSUME Enqueue(beat[b].conn, [packet |-> Probe, to |-> b]), beat[b].at = "probe"
          PROVE  \A d \in conns : link'[d].server = link[d].server
      <3>1. beat[b].conn \in ConnIds
        BY <2>2 DEF IInv, TypeOK, InHand
      <3>2. QED
        BY <1>3, <2>2, <3>1
    <2>3. ASSUME link' = [link EXCEPT ![beat[b].conn] = Unheard(@, b)]
          PROVE  \A d \in conns : link'[d].server = link[d].server
      BY <1>1, <2>3, UnheardStays
    <2>4. \A d \in conns : link'[d].server = link[d].server
      BY <1>6, <2>2, <2>3, BeatMail
    <2>5. QED
      BY <1>2, <2>1, <2>4
  <1>7. CASE UNCHANGED vars
    BY <1>2, <1>7 DEF vars
  <1>8. QED
    BY <1>4, <1>5, <1>6, <1>7 DEF Next

\* The stream owes last the answer to the request its task serves.
LEMMA StepAnswers == ASSUME IInv, [Next]_vars PROVE AnswerIsLast'
  <1> DEFINE Fits(l) == /\ l.ended => l.owed = <<>>
                        /\ l.serving = None => Len(l.owed) <= MaxOwed
                        /\ l.serving # None /\ ~l.ended => l.owed # <<>> /\ l.owed[Len(l.owed)] = l.serving.packet
  <1>1. /\ link \in [ConnIds -> Links] /\ None \notin ConnIds /\ 0 <= MaxOwed
        /\ \A c \in ConnIds : Fits(link[c])
    BY AsyncAssumption DEF IInv, TypeOK, AnswerIsLast
  <1>2. ASSUME \A c \in ConnIds : Fits(link'[c]) PROVE AnswerIsLast'
    BY <1>2 DEF AnswerIsLast
  <1>3. Fits(NoLink) /\ \A s \in Servers : Fits(NewLink(s))
    BY <1>1, LinkTypes DEF NoLink
  <1>4. ASSUME NEW c \in ConnIds, NEW r, Enqueue(c, r) PROVE \A d \in ConnIds : Fits(link'[d])
    <2>1. /\ link'[c].owed = link[c].owed /\ link'[c].ended = link[c].ended /\ link'[c].serving = link[c].serving
          /\ \A d \in ConnIds \ {c} : link'[d] = link[d]
      BY <1>1, <1>4 DEF Enqueue, Links
    <2>2. Fits(link'[c])
      BY <1>1, <2>1
    <2>3. QED
      BY <1>1, <2>1, <2>2
  <1>5. ASSUME NEW u \in Users, Call(u) \/ UserStep(u) PROVE \A d \in ConnIds : Fits(link'[d])
    <2>1. ASSUME NEW c \in ConnIds, call[u].at = "dial", link' = [link EXCEPT ![c] = NewLink(call[u].target)]
          PROVE  \A d \in ConnIds : Fits(link'[d])
      <3>1. call[u].target \in Servers
        BY <2>1 DEF IInv, TypeOK, InHand, Ready, Calls
      <3>2. \A d \in ConnIds : link'[d] = link[d] \/ link'[d] = NewLink(call[u].target)
        BY <1>1, <2>1
      <3>3. QED
        BY <1>1, <1>3, <3>1, <3>2
    <2>2. ASSUME call[u].at \in {"push", "pushNext"},
                 Enqueue(call[u].conn, [packet |-> call[u].packet, to |-> u])
          PROVE  \A d \in ConnIds : Fits(link'[d])
      <3>1. call[u].conn \in ConnIds
        BY <2>2 DEF IInv, TypeOK, InHand, Ready, Calls
      <3>2. QED
        BY <1>4, <2>2, <3>1
    <2>3. ASSUME link' = link PROVE \A d \in ConnIds : Fits(link'[d])
      BY <1>1, <2>3
    <2> HIDE DEF Fits
    <2>4. QED
      BY <1>5, <2>1, <2>2, <2>3, UserMail
  <1>6. ASSUME NEW c \in ConnIds, TaskStep(c) PROVE \A d \in ConnIds : Fits(link'[d])
    <2>1. Fits(link'[c]) /\ link' = [link EXCEPT ![c] = link'[c]]
      <3>1. CASE TaskTakes(c)
        <4>1. /\ link' = [link EXCEPT ![c] = link'[c]] /\ link'[c].serving # None
              /\ link'[c].ended => link'[c].owed = <<>>
              /\ ~link'[c].ended => /\ link'[c].owed # <<>>
                                    /\ link'[c].owed[Len(link'[c].owed)] = link'[c].serving.packet
          BY <3>1, Takes DEF IInv
        <4>2. QED
          BY <4>1
      <3>2. CASE TaskReads(c) \/ TaskFails(c)
        <4>1. /\ link' = [link EXCEPT ![c] = link'[c]] /\ link'[c].serving = None
              /\ link'[c].ended => link'[c].owed = <<>>
              /\ Len(link'[c].owed) <= MaxOwed
          BY <3>2, Answers DEF IInv
        <4>2. QED
          BY <4>1
      <3>3. CASE TaskEnds(c)
        <4>1. link' = [link EXCEPT ![c] = NoLink] /\ link'[c] = NoLink
          BY <1>1, <3>3 DEF TaskEnds
        <4> HIDE DEF Fits
        <4>2. QED
          BY <1>3, <4>1
      <3>4. QED
        BY <1>6, <3>1, <3>2, <3>3 DEF TaskStep
    <2> HIDE DEF Fits
    <2>2. \A d \in ConnIds \ {c} : link'[d] = link[d]
      BY <1>1, <2>1
    <2>3. QED
      BY <1>1, <2>1, <2>2
  <1>7. ASSUME NEW b \in Beats, BeatStep(b) PROVE \A d \in ConnIds : Fits(link'[d])
    <2>1. ASSUME beat[b].at = "probe", Enqueue(beat[b].conn, [packet |-> Probe, to |-> b])
          PROVE  \A d \in ConnIds : Fits(link'[d])
      <3>1. beat[b].conn \in ConnIds
        BY <2>1 DEF IInv, TypeOK, InHand
      <3>2. QED
        BY <1>4, <2>1, <3>1
    <2>2. ASSUME beat[b].at = "await", link' = [link EXCEPT ![beat[b].conn] = Unheard(@, b)]
          PROVE  \A d \in ConnIds : Fits(link'[d])
      <3>1. PICK c \in ConnIds : c = beat[b].conn
        BY <2>2 DEF IInv, TypeOK, InHand
      <3>2. /\ link'[c].owed = link[c].owed /\ link'[c].ended = link[c].ended
            /\ link'[c].serving = None <=> link[c].serving = None
            /\ link[c].serving # None => link'[c].serving.packet = link[c].serving.packet
            /\ \A d \in ConnIds \ {c} : link'[d] = link[d]
        BY <1>1, <2>2, <3>1, UnheardStays
      <3>3. Fits(link'[c])
        BY <1>1, <3>2
      <3>4. QED
        BY <1>1, <3>2, <3>3
    <2>3. ASSUME link' = link PROVE \A d \in ConnIds : Fits(link'[d])
      BY <1>1, <2>3
    <2> HIDE DEF Fits
    <2>4. QED
      BY <1>7, <2>1, <2>2, <2>3, BeatMail
  <1>8. CASE UNCHANGED vars
    BY <1>1, <1>2, <1>8 DEF vars
  <1> HIDE DEF Fits
  <1>9. QED
    BY <1>2, <1>5, <1>6, <1>7, <1>8 DEF Next

\* The heartbeats are touched by a call only when it stops, starts or stores one.
LEMMA UserBeats ==
  ASSUME IInv, NEW u \in Users, Call(u) \/ UserStep(u)
  PROVE  \/ StopBeat(u) \/ Spawn(u) \/ Keep(u)
         \/ call[u].at \notin {"stop", "spawn", "keep"} /\ UNCHANGED <<slot, told, beat>>
  BY DEF Call, Connect, ConnectToAny, Disconnect, Request, Begin, UserStep, Known, Recall, NextServer, Lock,
     DialOne, Unlock, Mark, Clear, Forget, Unmark, Pick, Push, PickNext, PushNext, stops

LEMMA StepBeats == ASSUME IInv, [Next]_vars PROVE OneHeartbeat'
  <1> DEFINE Held == {slot} \cup {call[u].beat : u \in Users}
  <1>1. /\ OneHeartbeat /\ InHand /\ None \notin Beats /\ call \in [Users -> Calls]
        /\ beat \in [Beats -> [at : BeatPlaces, conn : ConnIds \cup {None}]]
    BY AsyncAssumption DEF IInv, TypeOK
  <1>2. ASSUME slot' = slot, told' = told,
               \A b \in Beats : beat'[b].at # "gone" => beat[b].at # "gone",
               \A v \in Users : call[v].beat \in {None, call'[v].beat}
        PROVE  OneHeartbeat'
    BY <1>1, <1>2 DEF OneHeartbeat, Running
  <1>3. ASSUME NEW u \in Users, Call(u) \/ UserStep(u) PROVE OneHeartbeat'
    <2>1. \A v \in Users \ {u} : call'[v] = call[v]
      BY <1>3, UserReady
    <2>2. CASE StopBeat(u)
      <3>1. \A v \in Users : call'[v].beat = call[v].beat
        BY <1>1, <2>1, <2>2 DEF StopBeat, Goto, Calls
      <3>2. QED
        BY <1>1, <2>2, <3>1 DEF StopBeat, OneHeartbeat, Running
    <2>3. CASE Spawn(u)
      <3>1. PICK b \in Beats : /\ beat' = [beat EXCEPT ![b].at = "sleep"]
                               /\ call' = [call EXCEPT ![u].at = "keep", ![u].beat = b]
        BY <2>3 DEF Spawn, Spare
      <3>2. call'[u].beat = b /\ call[u].beat = None /\ UNCHANGED <<slot, told>>
        BY <1>1, <2>3, <3>1 DEF Spawn, stops, InHand, Ready, Calls
      <3>3. \A d \in Beats \ {b} : beat'[d] = beat[d]
        BY <3>1
      <3>4. QED
        BY <1>1, <2>1, <3>2, <3>3 DEF OneHeartbeat, Running
    <2>4. CASE Keep(u)
      <3>1. /\ call'[u].beat = None /\ slot' = call[u].beat
            /\ told' = told \cup ({slot} \cap Running) /\ beat' = beat
        BY <1>1, <2>4 DEF Keep, Calls
      <3>2. QED
        BY <1>1, <2>1, <3>1 DEF OneHeartbeat, Running
    <2>5. ASSUME call[u].at \notin {"stop", "spawn", "keep"}, UNCHANGED <<slot, told, beat>>
          PROVE  OneHeartbeat'
      <3>1. call[u].beat = None
        BY <1>1, <2>5 DEF InHand, Ready
      <3>2. QED
        BY <1>2, <2>1, <2>5, <3>1
    <2>6. QED
      BY <1>3, <2>2, <2>3, <2>4, <2>5, UserBeats
  <1>4. ASSUME NEW c \in ConnIds, TaskStep(c) PROVE OneHeartbeat'
    <2>1. CASE TaskReads(c) \/ TaskFails(c)
      <3>1. PICK x : x = link[c].serving.to
        OBVIOUS
      <3>2. /\ x # None => Awaits(x, c)
            /\ \A u \in Users \ {x} : call'[u] = call[u]
            /\ \A b \in Beats \ {x} : beat'[b] = beat[b]
            /\ UNCHANGED <<client, stops, off>>
        BY <2>1, <3>1, Replied
      <3>3. /\ x \in Users => call[x].beat = None
            /\ x \in Beats => beat[x].at # "gone"
        BY <1>1, <3>2, AsyncAssumption DEF Awaits, InHand, Ready
      <3>4. QED
        BY <1>2, <3>2, <3>3 DEF stops
    <2>2. CASE TaskTakes(c) \/ TaskEnds(c)
      BY <1>2, <2>2 DEF TaskTakes, TaskEnds, stops
    <2>3. QED
      BY <1>4, <2>1, <2>2 DEF TaskStep
  <1>5. ASSUME NEW b \in Beats, BeatStep(b) PROVE OneHeartbeat'
    <2>1. CASE BeatEnds(b)
      <3>1. /\ beat'[b].at = "gone" /\ \A d \in Beats \ {b} : beat'[d] = beat[d]
            /\ told' = told \ {b} /\ slot' = slot /\ call' = call
        BY <1>1, <2>1 DEF BeatEnds
      <3>2. QED
        BY <1>1, <3>1 DEF OneHeartbeat, Running
    <2>2. CASE ~BeatEnds(b)
      <3>1. /\ beat[b].at # "gone" /\ slot' = slot /\ told' = told /\ call' = call
            /\ \A d \in Beats \ {b} : beat'[d] = beat[d]
        BY <1>1, <1>5, <2>2 DEF BeatStep, BeatTicks, BeatPicks, BeatProbes, BeatTimesOut, BeatJudges, stops
      <3>2. QED
        BY <1>2, <3>1
    <2>3. QED
      BY <2>1, <2>2
  <1>6. CASE UNCHANGED vars
    BY <1>2, <1>6 DEF vars
  <1>7. QED
    BY <1>3, <1>4, <1>5, <1>6 DEF Next
-----------------------------------------------------------------------------
(* Theorems *)

\* IInv holds at first and is kept by every step.
THEOREM Inductive == Spec => []IInv
  <1>1. Init => IInv
    BY InitIInv
  <1>2. IInv /\ [Next]_vars => IInv'
    <2> SUFFICES ASSUME IInv, [Next]_vars PROVE IInv'
      OBVIOUS
    <2>1. TypeOK' /\ InHand' /\ DialsLocked' /\ DialsCurrent' /\ SendersKeepTasks'
      BY StepType, StepInHand, StepDials, StepSenders
    <2>2. RepliesAreAwaited' /\ OneRequestEach' /\ AwaitedAreSent' /\ AnswerIsLast'
      BY StepMail, StepAnswers
    <2>3. OneHeartbeat' /\ ConnsOfCurrent'
      BY StepBeats, StepConns
    <2>4. QED
      BY <2>1, <2>2, <2>3 DEF IInv
  <1>3. QED
    BY <1>1, <1>2, PTL DEF Spec

\* Every variable keeps its type; in particular no channel holds more than its
\* capacity, and the client's list names only tasks that run.
THEOREM TypeCorrect == Spec => []TypeOK
  <1>1. IInv => TypeOK
    BY DEF IInv
  <1>2. QED
    BY <1>1, Inductive, PTL

\* Whoever connects at the same time as whom, a heartbeat that was not told to stop
\* is in the slot or about to be put there.
THEOREM OneHeartbeatAtATime == Spec => []OneHeartbeat
  <1>1. IInv => OneHeartbeat
    BY DEF IInv
  <1>2. QED
    BY <1>1, Inductive, PTL

\* Connects, disconnects and retries that overlap never leave connections to two
\* servers in the list, nor to another one than current_server.
THEOREM ConnectionsAgree == Spec => []ConnsOfCurrent
  <1>1. IInv => ConnsOfCurrent
    BY DEF IInv
  <1>2. QED
    BY <1>1, Inductive, PTL

\* No request in flight is lost: a caller that waits has its request, once, in the
\* channel or in the hands of a task that runs.
THEOREM NoRequestIsLost == Spec => []WaitersAreServed
  <1>1. ASSUME IInv PROVE WaitersAreServed
    <2> SUFFICES ASSUME NEW u \in Users, call[u].at = "wait", NEW c, c = call[u].conn, NEW l, l = link[c]
                 PROVE  /\ l.on
                        /\ (l.serving # None /\ l.serving.to = u) <=>
                             \A i \in DOMAIN l.queue : ~(l.queue[i] # None /\ l.queue[i].to = u)
      BY DEF WaitersAreServed
    <2>1. c \in ConnIds /\ l \in Links /\ u # None
      BY <1>1, AsyncAssumption DEF IInv, TypeOK, InHand, Ready, Calls
    <2>2. l.on
      BY <1>1, <2>1 DEF IInv, SendersKeepTasks, HasSender
    <2>3. PICK i \in Places(l) : At(l, i).to = u
      BY <1>1, <2>1 DEF IInv, AwaitedAreSent, Awaits
    <2>4. \A j \in Places(l) : At(l, j).to = u => j = i
      BY <1>1, <2>1, <2>3 DEF IInv, OneRequestEach
    <2>5. /\ DOMAIN l.queue = 1..Len(l.queue) /\ Len(l.queue) \in Nat
          /\ \A j \in DOMAIN l.queue : j \in Places(l) /\ l.queue[j] # None /\ j # 0 /\ At(l, j) = l.queue[j]
      <3>1. DOMAIN l.queue = 1..Len(l.queue) /\ Len(l.queue) \in Nat
        BY <2>1, LenProperties DEF Links
      <3>2. \A j \in DOMAIN l.queue : j \in Places(l) /\ j # 0 /\ At(l, j) = l.queue[j]
        BY <3>1 DEF Places, At
      <3>3. \A j \in DOMAIN l.queue : l.queue[j] # None
        BY <2>1, <3>2, PlacesHoldRequests, AsyncAssumption DEF Requests
      <3>4. QED
        BY <3>1, <3>2, <3>3
    <2>6. l.serving # None <=> 0 \in Places(l)
      BY <2>5 DEF Places
    <2>7. CASE i = 0
      <3>1. l.serving # None /\ l.serving.to = u
        BY <2>3, <2>6, <2>7 DEF At
      <3>2. \A j \in DOMAIN l.queue : ~(l.queue[j].to = u)
        BY <2>4, <2>5, <2>7
      <3>3. QED
        BY <2>2, <3>1, <3>2
    <2>8. CASE i # 0
      <3>1. i \in DOMAIN l.queue /\ l.queue[i].to = u /\ l.queue[i] # None
        BY <2>3, <2>5, <2>8 DEF Places, At
      <3>2. ~(l.serving # None /\ l.serving.to = u)
        BY <2>4, <2>6, <2>8 DEF At
      <3>3. QED
        BY <2>2, <3>1, <3>2
    <2>9. QED
      BY <2>7, <2>8
  <1>2. QED
    BY <1>1, Inductive, PTL

\* However many reads timed out, what a stream owes last is the answer to the request
\* its task serves: late answers shift what callers get and never replace it.
THEOREM AnswersStayInOrder == Spec => []AnswerIsLast
  <1>1. IInv => AnswerIsLast
    BY DEF IInv
  <1>2. QED
    BY <1>1, Inductive, PTL
-----------------------------------------------------------------------------
(* One caller *)

\* The steps of a call that touch neither the heartbeats nor the flags.
Calm(u) ==
  /\ call[u].at \notin {"idle", "clear", "forget", "unmark", "spawn", "keep", "mark"}
  /\ call'[u].at \notin {"clear", "forget", "unmark", "spawn", "keep", "mark"}
  /\ UNCHANGED <<connected, slot, told, beat, off>>

LEMMA CalmSteps ==
  ASSUME IInv, NEW u \in Users, UserStep(u)
  PROVE  Calm(u) \/ StopBeat(u) \/ Spawn(u) \/ Keep(u) \/ Mark(u) \/ Clear(u) \/ Forget(u) \/ Unmark(u)
  <1> DEFINE Late == {"clear", "forget", "unmark", "spawn", "keep", "mark"}
  <1>1. call \in [Users -> Calls] /\ call[u] \in Calls
    BY DEF IInv, TypeOK
  <1>2. ASSUME Done(u) \/ Failed(u) PROVE call'[u].at \notin Late
    <2>1. call'[u] \in {NoCall, AfterFailure(call[u])}
      BY <1>1, <1>2 DEF Done, Failed
    <2>2. NoCall.at = "idle" /\ AfterFailure(call[u]).at \in {"idle", "known"}
      BY <1>1 DEF AfterFailure, NoCall, Calls
    <2>3. QED
      BY <2>1, <2>2
  <1>3. ASSUME NEW place, Goto(u, place) PROVE call'[u].at = place
    BY <1>1, <1>3 DEF Goto, Calls
  <1>4. CASE Known(u) \/ Lock(u) \/ DialOne(u) \/ Unlock(u)
    BY <1>2, <1>3, <1>4 DEF Known, Lock, DialOne, Unlock, Calm, client, stops
  <1>5. CASE Recall(u)
    BY <1>1, <1>5 DEF Recall, Calm, client, stops, Calls
  <1>6. CASE NextServer(u)
    <2>1. ASSUME NEW s, call' = [call EXCEPT ![u].at = "lock", ![u].target = s, ![u].togo = @ \ {s}]
          PROVE  call'[u].at \notin Late
      BY <1>1, <2>1 DEF Calls
    <2>2. call'[u].at \notin Late
      <3>1. CASE Done(u) \/ Goto(u, "pick")
        BY <1>2, <1>3, <3>1
      <3>2. CASE ~Done(u) /\ ~Goto(u, "pick")
        <4>1. PICK s \in call[u].togo :
                call' = [call EXCEPT ![u].at = "lock", ![u].target = s, ![u].togo = @ \ {s}]
          BY <1>6, <3>2, Zenon DEF NextServer
        <4>2. QED
          BY <2>1, <4>1
      <3>3. QED
        BY <3>1, <3>2
    <2>3. call[u].at = "next" /\ UNCHANGED <<client, stops, beat, off>>
      BY <1>6 DEF NextServer
    <2>4. QED
      BY <2>2, <2>3 DEF Calm, client, stops
  <1>7. CASE Pick(u) \/ PickNext(u)
    <2>1. ASSUME NEW c \in conns,
                 \/ call' = [call EXCEPT ![u].at = "pushNext", ![u].conn = c]
                 \/ call' = [call EXCEPT ![u].at = "push", ![u].conn = c,
                                         ![u].other = (Cardinality(conns) > 1)]
          PROVE  call'[u].at \notin Late
      BY <1>1, <2>1 DEF Calls
    <2>2. call'[u].at \notin Late
      BY <1>2, <1>7, <2>1 DEF Pick, PickNext
    <2>3. call[u].at \in {"pick", "pickNext"} /\ UNCHANGED <<client, stops, beat, off>>
      BY <1>7 DEF Pick, PickNext
    <2>4. QED
      BY <2>2, <2>3 DEF Calm, client, stops
  <1>8. CASE Push(u) \/ PushNext(u)
    BY <1>2, <1>3, <1>8 DEF Push, PushNext, Calm, client, stops
  <1>9. QED
    BY <1>4, <1>5, <1>6, <1>7, <1>8 DEF UserStep

\* With one caller, how far disconnect has come.
OneCallerInv == DisconnectSoFar /\ DisconnectIsFinal

LEMMA InitOneCaller == Init => OneCallerInv
  BY DEF Init, NoCall, OneCallerInv, DisconnectSoFar, DisconnectIsFinal, Quiet

\* Steps of a connection task and of a heartbeat, with one caller.
LEMMA OthersOneCaller ==
  ASSUME NEW u, Users = {u}, IInv, OneCallerInv,
         \/ \E c \in ConnIds : TaskStep(c)
         \/ \E b \in Beats : BeatStep(b)
         \/ UNCHANGED vars
  PROVE  OneCallerInv'
  <1>1. /\ call \in [Users -> Calls] /\ beat \in [Beats -> [at : BeatPlaces, conn : ConnIds \cup {None}]]
        /\ \A b \in told : b \in Running
    BY DEF IInv, TypeOK, Running
  <1>2. ASSUME conns' = conns, cur' = cur, slot' = slot, off' = off, connected' \in {connected, FALSE},
               call'[u] = call[u] \/ (call[u].at = "wait" /\ call'[u].at \in {"idle", "known"}),
               Running' \ told' = Running \ told
        PROVE  OneCallerInv'
    <2>1. call[u].at = "wait" => ~off
      BY DEF OneCallerInv, DisconnectSoFar, Quiet
    <2>2. DisconnectSoFar'
      BY <1>2, <2>1 DEF OneCallerInv, DisconnectSoFar, Quiet
    <2>3. DisconnectIsFinal'
      BY <1>2 DEF OneCallerInv, DisconnectIsFinal
    <2>4. QED
      BY <2>2, <2>3 DEF OneCallerInv
  <1>3. ASSUME NEW c \in ConnIds, TaskStep(c) PROVE OneCallerInv'
    <2>1. CASE TaskReads(c) \/ TaskFails(c)
      <3>1. PICK x : x = link[c].serving.to
        OBVIOUS
      <3>2. /\ x # None => Awaits(x, c)
            /\ \A v \in Users \ {x} : call'[v] = call[v]
            /\ \A b \in Beats \ {x} : beat'[b] = beat[b]
            /\ x \in Users => call'[x].at \in {"idle", "known"}
            /\ x \in Beats => beat'[x].at \in {"sleep", "judge"}
            /\ UNCHANGED <<client, stops, off>>
        BY <2>1, <3>1, Replied
      <3>3. call'[u] = call[u] \/ (call[u].at = "wait" /\ call'[u].at \in {"idle", "known"})
        BY <3>2, AsyncAssumption DEF Awaits
      <3>4. \A b \in Beats : beat'[b].at = "gone" <=> beat[b].at = "gone"
        BY <3>2, AsyncAssumption DEF Awaits
      <3>5. QED
        BY <1>2, <3>2, <3>3, <3>4 DEF client, stops, Running
    <2>2. CASE TaskTakes(c) \/ TaskEnds(c)
      BY <1>2, <2>2 DEF TaskTakes, TaskEnds, client, stops, Running
    <2>3. QED
      BY <1>3, <2>1, <2>2 DEF TaskStep
  <1>4. ASSUME NEW b \in Beats, BeatStep(b) PROVE OneCallerInv'
    <2>1. CASE BeatEnds(b)
      <3>1. /\ beat'[b].at = "gone" /\ \A d \in Beats \ {b} : beat'[d] = beat[d]
            /\ told' = told \ {b} /\ b \in told /\ call' = call /\ UNCHANGED <<client, slot, off>>
        BY <1>1, <2>1 DEF BeatEnds
      <3>2. QED
        BY <1>2, <3>1 DEF Running, client
    <2>2. CASE ~BeatEnds(b)
      <3>1. /\ beat[b].at # "gone" /\ beat'[b].at # "gone" /\ \A d \in Beats \ {b} : beat'[d] = beat[d]
            /\ call' = call /\ UNCHANGED <<conns, cur, slot, told, off>>
        BY <1>1, <1>4, <2>2
           DEF BeatStep, BeatTicks, BeatPicks, BeatProbes, BeatTimesOut, BeatJudges, stops, client
      <3>2. connected' = connected \/ connected' = FALSE
        BY <1>4 DEF BeatStep, BeatEnds, BeatTicks, BeatPicks, BeatProbes, BeatTimesOut, BeatJudges, client
      <3>3. QED
        BY <1>2, <3>1, <3>2 DEF Running
    <2>3. QED
      BY <2>1, <2>2
  <1>5. CASE UNCHANGED vars
    BY <1>2, <1>5 DEF vars, Running
  <1>6. QED
    BY <1>3, <1>4, <1>5

\* Steps of the caller itself.
LEMMA CallerOneCaller ==
  ASSUME NEW u, Users = {u}, IInv, OneCallerInv, Call(u) \/ UserStep(u)
  PROVE  OneCallerInv'
  <1>1. /\ call \in [Users -> Calls] /\ u \in Users /\ call[u] \in Calls
        /\ beat \in [Beats -> [at : BeatPlaces, conn : ConnIds \cup {None}]]
        /\ None \notin Beats /\ \A b \in told : b \in Running
    BY AsyncAssumption DEF IInv, TypeOK, Running
  <1>2. /\ call[u].at # "idle" => ~off
        /\ call[u].at \in {"clear", "forget", "unmark", "spawn", "keep"} => slot = None
        /\ call[u].at \in {"forget", "unmark"} => conns = {}
        /\ call[u].at = "unmark" => cur = None
    BY <1>1 DEF OneCallerInv, DisconnectSoFar, Quiet
  <1>3. ASSUME ~off',
               call'[u].at \in {"clear", "forget", "unmark", "spawn", "keep"} => slot' = None,
               call'[u].at \in {"forget", "unmark"} => conns' = {},
               call'[u].at = "unmark" => cur' = None
        PROVE  OneCallerInv'
    BY <1>3 DEF OneCallerInv, DisconnectSoFar, DisconnectIsFinal, Quiet
  <1>4. ASSUME NEW place, Goto(u, place) PROVE call'[u].at = place /\ call'[u].beat = call[u].beat
    BY <1>1, <1>4 DEF Goto, Calls
  <1>5. CASE Call(u)
    <2>1. ASSUME NEW k, Begin(u, k), k.at \in {"lock", "known", "stop", "pick"} PROVE OneCallerInv'
      <3>1. /\ call'[u].at \in {"lock", "known", "stop", "pick"} /\ call[u].at = "idle" /\ off' = FALSE
            /\ UNCHANGED <<connected, slot, told, beat>>
        BY <1>1, <2>1 DEF Begin, client, stops
      <3>2. QED
        BY <1>2, <1>3, <3>1 DEF Running
    <2>2. QED
      BY <1>5, <2>1 DEF Call, Connect, ConnectToAny, Disconnect, Request, NoCall
  <1>6. CASE Calm(u)
    BY <1>2, <1>3, <1>6 DEF Calm, Running
  <1>7. CASE StopBeat(u)
    <2>1. call'[u].at \in {"clear", "spawn"} /\ slot' = None /\ off' = off /\ call[u].at = "stop"
      BY <1>4, <1>7 DEF StopBeat
    <2>2. QED
      BY <1>2, <1>3, <2>1
  <1>8. CASE Spawn(u)
    <2>1. PICK b \in Spare : /\ beat' = [beat EXCEPT ![b].at = "sleep"]
                             /\ call' = [call EXCEPT ![u].at = "keep", ![u].beat = b]
      BY <1>8 DEF Spawn
    <2>2. call'[u].at = "keep" /\ call'[u].beat = b /\ b \in Beats /\ b \notin told
      BY <1>1, <2>1 DEF Spare, Calls
    <2>3. b \in Running' /\ call[u].at = "spawn" /\ UNCHANGED <<slot, told, off>>
      BY <1>1, <1>8, <2>1, <2>2 DEF Spawn, Running, stops
    <2>4. QED
      BY <1>2, <1>3, <2>2, <2>3
  <1>9. CASE Keep(u)
    <2>1. /\ call'[u].at = "mark" /\ slot' = call[u].beat /\ call[u].at = "keep" /\ off' = off /\ beat' = beat
          /\ told' = told \cup ({slot} \cap Running)
      BY <1>1, <1>9 DEF Keep, Calls
    <2>2. told' = told
      BY <1>1, <1>2, <2>1 DEF Running
    <2>3. QED
      BY <1>2, <1>3, <2>1, <2>2 DEF Running
  <1>10. CASE Mark(u)
    <2>1. call'[u].at \in {"pick", "idle"} /\ call[u].at = "mark" /\ UNCHANGED <<slot, told, beat, off>>
      BY <1>1, <1>4, <1>10 DEF Mark, Done, NoCall, stops
    <2>2. QED
      BY <1>2, <1>3, <2>1 DEF Running
  <1>11. CASE Clear(u)
    <2>1. call'[u].at = "forget" /\ call[u].at = "clear" /\ conns' = {} /\ UNCHANGED <<slot, off>>
      BY <1>4, <1>11 DEF Clear, stops
    <2>2. QED
      BY <1>2, <1>3, <2>1
  <1>12. CASE Forget(u)
    <2>1. call'[u].at = "unmark" /\ call[u].at = "forget" /\ cur' = None /\ UNCHANGED <<conns, slot, off>>
      BY <1>4, <1>12 DEF Forget, stops
    <2>2. QED
      BY <1>2, <1>3, <2>1
  <1>13. CASE Unmark(u)
    <2>1. /\ call'[u] = NoCall /\ call[u].at = "unmark" /\ connected' = FALSE
          /\ UNCHANGED <<conns, cur, slot, told, beat>>
      BY <1>1, <1>13 DEF Unmark, Done, stops
    <2>2. conns' = {} /\ cur' = None /\ slot' = None /\ call'[u].at = "idle"
      BY <1>2, <2>1 DEF NoCall
    <2>3. Running' \subseteq told'
      <3>1. call[u].beat = None /\ Running' = Running /\ told' = told
        BY <1>1, <2>1 DEF IInv, InHand, Ready, Running
      <3>2. Running \ told \subseteq {slot} \cup {call[v].beat : v \in Users}
        BY DEF IInv, OneHeartbeat
      <3>3. None \notin Running /\ slot = None
        BY <1>1, <1>2, <2>1 DEF Running
      <3>4. QED
        BY <3>1, <3>2, <3>3
    <2>4. QED
      BY <2>1, <2>2, <2>3 DEF OneCallerInv, DisconnectSoFar, DisconnectIsFinal, Quiet
  <1>14. QED
    BY <1>1, <1>5, <1>6, <1>7, <1>8, <1>9, <1>10, <1>11, <1>12, <1>13, CalmSteps

LEMMA OneCallerKept == ASSUME NEW u, Users = {u} PROVE Spec => []OneCallerInv
  <1>1. Init => OneCallerInv
    BY InitOneCaller
  <1>2. IInv /\ OneCallerInv /\ [Next]_vars => OneCallerInv'
    <2> SUFFICES ASSUME IInv, OneCallerInv, [Next]_vars PROVE OneCallerInv'
      OBVIOUS
    <2>1. CASE Call(u) \/ UserStep(u)
      BY <2>1, CallerOneCaller
    <2>2. CASE ~(Call(u) \/ UserStep(u))
      BY <2>2, OthersOneCaller DEF Next
    <2>3. QED
      BY <2>1, <2>2
  <1>3. QED
    BY <1>1, <1>2, Inductive, PTL DEF Spec

\* With one caller, disconnect is final: until the next call nothing that still runs
\* brings back the flag, a connection, the server or a heartbeat to be stopped.
THEOREM DisconnectStays == ASSUME NEW u, Users = {u} PROVE Spec => []DisconnectIsFinal
  <1>1. OneCallerInv => DisconnectIsFinal
    BY DEF OneCallerInv
  <1>2. QED
    BY <1>1, OneCallerKept, PTL
-----------------------------------------------------------------------------
(* Any callers, while no other call runs beside a disconnect *)

LEMMA InitWatch == Init => WatchInv
  BY DEF Init, NoCall, WatchInv, BeatsApart, OnlyDisconnectsLeave, Leaving, FlagIsWatched

\* What leaves the sender, the heartbeats and the places of the calls as they are, as
\* far as WatchInv tells them apart, keeps it.
LEMMA WatchStays ==
  ASSUME IInv, WatchInv, slot' = slot, Running' \ told' = Running \ told, connected' \in {connected, FALSE},
         \A v \in Users :
           \/ call'[v] = call[v]
           \/ /\ call[v].at \notin {"spawn", "keep"} \cup Leaving /\ call'[v].at \notin {"keep", "mark"} \cup Leaving
              /\ call'[v].beat = None
  PROVE  WatchInv'
  <1>1. None \notin Running
    BY AsyncAssumption DEF Running
  <1>2. BeatsApart'
    BY <1>1 DEF WatchInv, BeatsApart
  <1>3. OnlyDisconnectsLeave'
    BY DEF WatchInv, OnlyDisconnectsLeave
  <1>4. FlagIsWatched'
    BY DEF WatchInv, FlagIsWatched
  <1>5. QED
    BY <1>2, <1>3, <1>4 DEF WatchInv

\* The steps of connection tasks and heartbeats.
LEMMA OthersWatch ==
  ASSUME IInv, WatchInv,
         \/ \E c \in ConnIds : TaskStep(c)
         \/ \E b \in Beats : BeatStep(b)
         \/ UNCHANGED vars
  PROVE  WatchInv'
  <1>1. /\ beat \in [Beats -> [at : BeatPlaces, conn : ConnIds \cup {None}]]
        /\ \A b \in told : b \in Running
    BY DEF IInv, TypeOK, Running
  <1>2. ASSUME NEW c \in ConnIds, TaskStep(c) PROVE WatchInv'
    <2>1. CASE TaskReads(c) \/ TaskFails(c)
      <3>1. PICK x : x = link[c].serving.to
        OBVIOUS
      <3>2. /\ x # None => Awaits(x, c)
            /\ \A v \in Users \ {x} : call'[v] = call[v]
            /\ \A b \in Beats \ {x} : beat'[b] = beat[b]
            /\ x \in Users => Ready(call'[x]) /\ call'[x].at \in {"idle", "known"}
            /\ x \in Beats => beat'[x].at \in {"sleep", "judge"}
            /\ UNCHANGED <<client, stops, off>>
        BY <2>1, <3>1, Replied
      <3>3. x \in Users => call[x].at = "wait" /\ call'[x].beat = None
        BY <3>2, AsyncAssumption DEF Awaits, Ready
      <3>4. \A b \in Beats : beat'[b].at = "gone" <=> beat[b].at = "gone"
        BY <3>2, AsyncAssumption DEF Awaits
      <3>5. Running' \ told' = Running \ told /\ slot' = slot /\ connected' = connected
        BY <3>2, <3>4 DEF Running, client, stops
      <3>6. QED
        BY <3>2, <3>3, <3>5, WatchStays DEF Leaving
    <2>2. CASE TaskTakes(c) \/ TaskEnds(c)
      BY <2>2, WatchStays DEF TaskTakes, TaskEnds, client, stops, Running
    <2>3. QED
      BY <1>2, <2>1, <2>2 DEF TaskStep
  <1>3. ASSUME NEW b \in Beats, BeatStep(b) PROVE WatchInv'
    <2>1. CASE BeatEnds(b)
      <3>1. /\ beat'[b].at = "gone" /\ \A d \in Beats \ {b} : beat'[d] = beat[d]
            /\ told' = told \ {b} /\ b \in told /\ call' = call /\ UNCHANGED <<client, slot>>
        BY <1>1, <2>1 DEF BeatEnds
      <3>2. Running' \ told' = Running \ told
        BY <3>1 DEF Running
      <3>3. QED
        BY <3>1, <3>2, WatchStays DEF client
    <2>2. CASE ~BeatEnds(b)
      <3>1. /\ beat[b].at # "gone" /\ beat'[b].at # "gone" /\ \A d \in Beats \ {b} : beat'[d] = beat[d]
            /\ call' = call /\ UNCHANGED <<slot, told>>
        BY <1>1, <1>3, <2>2
           DEF BeatStep, BeatTicks, BeatPicks, BeatProbes, BeatTimesOut, BeatJudges, stops, client
      <3>2. connected' = connected \/ connected' = FALSE
        BY <1>3 DEF BeatStep, BeatEnds, BeatTicks, BeatPicks, BeatProbes, BeatTimesOut, BeatJudges, client
      <3>3. Running' = Running
        BY <3>1 DEF Running
      <3>4. QED
        BY <3>1, <3>2, <3>3, WatchStays
    <2>3. QED
      BY <2>1, <2>2
  <1>4. CASE UNCHANGED vars
    BY <1>4, WatchStays DEF vars, Running
  <1>5. QED
    BY <1>2, <1>3, <1>4

\* The steps of a call, and a call that begins.
LEMMA CallsWatch ==
  ASSUME IInv, InHand', WatchInv, DisconnectsAlone, NEW u \in Users, Call(u) \/ UserStep(u)
  PROVE  WatchInv'
  <1>1. /\ call \in [Users -> Calls] /\ call[u] \in Calls
        /\ beat \in [Beats -> [at : BeatPlaces, conn : ConnIds \cup {None}]]
        /\ None \notin Running /\ \A b \in told : b \in Running
    BY AsyncAssumption DEF IInv, TypeOK, Running
  <1>2. \A v \in Users \ {u} : call'[v] = call[v]
    BY UserReady
  <1>3. \A v \in Users : /\ call[v].beat # None <=> call[v].at = "keep"
                         /\ call'[v].beat # None <=> call'[v].at = "keep"
    BY DEF IInv, InHand, Ready
  <1>4. ASSUME NEW place, Goto(u, place) PROVE call'[u].at = place /\ call'[u].beat = call[u].beat /\ call'[u].job = call[u].job
    BY <1>1, <1>4 DEF Goto, Calls
  <1>5. CASE Call(u)
    <2>1. ASSUME NEW k, Begin(u, k), k.at \in {"lock", "known", "stop", "pick"} PROVE WatchInv'
      <3>1. /\ call'[u].at \in {"lock", "known", "stop", "pick"} /\ call[u].at = "idle"
            /\ UNCHANGED <<connected, slot, told, beat>>
        BY <1>1, <2>1 DEF Begin, client, stops
      <3>2. QED
        BY <1>2, <1>3, <3>1, WatchStays DEF Running, Leaving
    <2>2. QED
      BY <1>5, <2>1 DEF Call, Connect, ConnectToAny, Disconnect, Request, NoCall
  <1>6. CASE Calm(u)
    <2>1. Running' = Running /\ told' = told /\ slot' = slot /\ connected' = connected
      BY <1>6 DEF Calm, Running
    <2>2. call[u].at \notin {"spawn", "keep"} \cup Leaving /\ call'[u].at \notin {"keep", "mark"} \cup Leaving
      BY <1>6 DEF Calm, Leaving
    <2>3. QED
      BY <1>2, <1>3, <2>1, <2>2, WatchStays
  <1>7. CASE StopBeat(u)
    <2>1. /\ slot' = None /\ told' = told \cup ({slot} \cap Running) /\ beat' = beat /\ call[u].at = "stop"
          /\ call'[u].job = call[u].job /\ call'[u].at \in {"clear", "spawn"}
          /\ call'[u].at = "clear" => call[u].job = "disconnect"
      BY <1>4, <1>7 DEF StopBeat
    <2>2. BeatsApart'
      BY <1>1, <1>2, <1>3, <2>1 DEF WatchInv, BeatsApart, Running
    <2>3. OnlyDisconnectsLeave'
      BY <1>2, <2>1 DEF WatchInv, OnlyDisconnectsLeave, Leaving
    <2>4. FlagIsWatched'
      BY <2>1 DEF FlagIsWatched, Leaving
    <2>5. QED
      BY <2>2, <2>3, <2>4 DEF WatchInv
  <1>8. CASE Spawn(u)
    <2>1. PICK b \in Spare : /\ beat' = [beat EXCEPT ![b].at = "sleep"]
                             /\ call' = [call EXCEPT ![u].at = "keep", ![u].beat = b]
      BY <1>8 DEF Spawn
    <2>2. /\ call'[u].at = "keep" /\ call'[u].beat = b /\ b \in Beats /\ b \notin Running
          /\ b # slot /\ \A v \in Users : call[v].beat # b
      BY <1>1, <2>1 DEF Spare, Calls
    <2>3. Running' = Running \cup {b} /\ slot' = slot /\ told' = told /\ b \notin told
      BY <1>1, <1>8, <2>1, <2>2 DEF Spawn, Running, stops
    <2>4. BeatsApart'
      BY <1>2, <2>2, <2>3 DEF WatchInv, BeatsApart
    <2>5. OnlyDisconnectsLeave'
      BY <1>2, <2>2 DEF WatchInv, OnlyDisconnectsLeave, Leaving
    <2>6. FlagIsWatched'
      BY <2>2 DEF FlagIsWatched
    <2>7. QED
      BY <2>4, <2>5, <2>6 DEF WatchInv
  <1>9. CASE Keep(u)
    <2>1. /\ call'[u].at = "mark" /\ slot' = call[u].beat /\ call[u].at = "keep" /\ beat' = beat
          /\ told' = told \cup ({slot} \cap Running)
      BY <1>1, <1>9 DEF Keep, Calls
    <2>2. Running' = Running /\ slot' \in Running \ told' /\ call[u].beat # slot
      BY <1>1, <2>1 DEF WatchInv, BeatsApart, Running
    <2>3. BeatsApart'
      BY <1>1, <1>2, <1>3, <2>1, <2>2 DEF WatchInv, BeatsApart
    <2>4. OnlyDisconnectsLeave'
      BY <1>2, <2>1 DEF WatchInv, OnlyDisconnectsLeave, Leaving
    <2>5. FlagIsWatched'
      BY <2>2 DEF FlagIsWatched
    <2>6. QED
      BY <2>3, <2>4, <2>5 DEF WatchInv
  <1>10. CASE Mark(u)
    <2>1. /\ call'[u].at \in {"pick", "idle"} /\ call[u].at = "mark" /\ UNCHANGED <<slot, told, beat>>
      BY <1>1, <1>4, <1>10 DEF Mark, Done, NoCall, stops
    <2>2. Running' = Running
      BY <2>1 DEF Running
    <2>3. slot \in Running \ told \/ \E v \in Users : call[v].at \in {"spawn", "keep"} \cup Leaving
      BY <2>1 DEF WatchInv, FlagIsWatched
    <2>4. BeatsApart' /\ OnlyDisconnectsLeave'
      BY <1>2, <1>3, <1>1, <2>1, <2>2 DEF WatchInv, BeatsApart, OnlyDisconnectsLeave, Leaving
    <2>5. FlagIsWatched'
      BY <1>2, <2>1, <2>2, <2>3 DEF FlagIsWatched, Leaving
    <2>6. QED
      BY <2>4, <2>5 DEF WatchInv
  <1>11. CASE Clear(u) \/ Forget(u)
    <2>1. /\ call[u].at \in Leaving /\ call'[u].at \in Leaving /\ call'[u].job = call[u].job
          /\ UNCHANGED <<slot, told, beat>>
      BY <1>4, <1>11 DEF Clear, Forget, stops, Leaving
    <2>2. BeatsApart' /\ OnlyDisconnectsLeave'
      BY <1>1, <1>2, <1>3, <2>1 DEF WatchInv, BeatsApart, OnlyDisconnectsLeave, Leaving, Running
    <2>3. FlagIsWatched'
      BY <2>1 DEF FlagIsWatched
    <2>4. QED
      BY <2>2, <2>3 DEF WatchInv
  <1>12. CASE Unmark(u)
    <2>1. /\ call'[u].at = "idle" /\ call[u].at = "unmark" /\ connected' = FALSE /\ UNCHANGED <<slot, told, beat>>
      BY <1>1, <1>12 DEF Unmark, Done, NoCall, stops
    <2>2. call[u].job = "disconnect"
      BY <2>1 DEF WatchInv, OnlyDisconnectsLeave, Leaving
    <2>3. \A v \in Users : call'[v].at = "idle"
      BY <1>2, <2>1, <2>2 DEF DisconnectsAlone
    <2>4. QED
      BY <2>1, <2>3 DEF WatchInv, BeatsApart, OnlyDisconnectsLeave, Leaving, FlagIsWatched
  <1>13. QED
    BY <1>5, <1>6, <1>7, <1>8, <1>9, <1>10, <1>11, <1>12, CalmSteps

\* However many callers connect, call connect_to_any and reconnect at once: an idle
\* client that says it is connected has a heartbeat that was not told to stop, and
\* holds the sender that stops it, as long as no other call runs beside a disconnect.
THEOREM WatchedWhileAlone == Spec => WatchedIfAlone
  <1>1. Init => WatchInv
    BY InitWatch
  <1>2. IInv /\ WatchInv /\ DisconnectsAlone /\ [Next]_vars => WatchInv'
    <2> SUFFICES ASSUME IInv, WatchInv, DisconnectsAlone, [Next]_vars PROVE WatchInv'
      OBVIOUS
    <2>1. ASSUME NEW u \in Users, Call(u) \/ UserStep(u) PROVE WatchInv'
      BY <2>1, CallsWatch, StepInHand
    <2>2. QED
      BY <2>1, OthersWatch DEF Next
  <1>3. WatchInv => ConnectedIsWatched
    BY DEF WatchInv, FlagIsWatched, Leaving, ConnectedIsWatched, Quiet
  <1>4. QED
    BY <1>1, <1>2, <1>3, Inductive, PTL DEF Spec, WatchedIfAlone
=============================================================================
