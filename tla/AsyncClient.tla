------------------------------ MODULE AsyncClient ------------------------------
(***************************************************************************)
(* AsyncTdxHqClient, src/src/net/async_client.rs: connection tasks behind  *)
(* bounded channels, requests spread over them with retry, and the         *)
(* heartbeat task.                                                         *)
(*                                                                         *)
(* Users are concurrent calls of the client.  A step is what a task does   *)
(* between two awaits at which another task can change what it sees.  The  *)
(* rate limiter and the caches only delay or spare requests and are left   *)
(* out; which connection the round robin counters point at is left open.   *)
(***************************************************************************)
EXTENDS Naturals, FiniteSets, Sequences

CONSTANTS
  Users,      \* concurrent callers
  Beats,      \* identities for heartbeat tasks, reused once a task has ended
  Servers,    \* DEFAULT_SERVERS
  Packets,    \* the requests users send
  Probe,      \* the heartbeat's request
  ConnIds,    \* identities for connection tasks, reused once a task has ended
  None,
  PoolSize,   \* pool_size
  Cap,        \* capacity of a connection's channel
  Retries,    \* length of RETRY_INTERVALS
  MaxOwed     \* bound: late answers a stream may carry; more, and it breaks

ASSUME AsyncAssumption ==
  /\ IsFiniteSet(ConnIds) /\ IsFiniteSet(Users) /\ IsFiniteSet(Beats)
  /\ Users \cap Beats = {} /\ None \notin Users \cup Beats \cup Servers \cup Packets \cup ConnIds
  /\ Probe \notin Packets /\ Probe # None
  /\ None \notin [packet : Packets \cup {Probe}, to : Users \cup Beats \cup {None}]
  /\ PoolSize \in Nat \ {0} /\ Cap \in Nat \ {0} /\ Retries \in Nat /\ MaxOwed \in Nat

VARIABLES
  conns,       \* connections: the tasks whose channel the client holds
  connLock,    \* who holds connections across awaits: connect while it dials
  cur,         \* current_server
  connected,   \* connected
  slot,        \* heartbeat_stop: the heartbeat whose stop sender it holds
  told,        \* heartbeats whose stop sender was used or dropped
  beat,        \* each heartbeat: where it is, the connection it probes
  link,        \* each connection task: its channel, its stream, its request
  call,        \* each user's call: where it is, and its locals
  off          \* the last call that ended is disconnect, no other began since

vars == <<conns, connLock, cur, connected, slot, told, beat, link, call, off>>
client == <<conns, connLock, cur, connected>>
stops == <<slot, told>>

\* A request in a channel: what is sent, and who waits for the answer.
Requests == [packet : Packets \cup {Probe}, to : Users \cup Beats \cup {None}]

\* A connection task: whether it runs, its server, the channel, the request it
\* serves, the answers the stream still owes in order, whether the stream ended.
NoLink == [on |-> FALSE, server |-> None, queue |-> <<>>, serving |-> None, owed |-> <<>>,
           ended |-> FALSE]
Links == [on : BOOLEAN, server : Servers \cup {None}, queue : Seq(Requests),
          serving : Requests \cup {None}, owed : Seq(Packets \cup {Probe}), ended : BOOLEAN]
NewLink(s) == [NoLink EXCEPT !.on = TRUE, !.server = s]

\* A call and its locals.
NoCall == [job |-> "none", at |-> "idle", target |-> None, togo |-> {}, packet |-> None,
           conn |-> None, other |-> FALSE, left |-> 0, beat |-> None]

CallPlaces == {"idle", "known", "recall", "next", "lock", "dial", "stop", "spawn", "keep",
  "mark", "clear", "forget", "unmark", "pick", "push", "pickNext", "pushNext", "wait"}
BeatPlaces == {"gone", "sleep", "pick", "probe", "await", "judge"}
Calls == [job : {"none", "connect", "any", "disconnect", "request"}, at : CallPlaces,
          target : Servers \cup {None}, togo : SUBSET Servers, packet : Packets \cup {None},
          conn : ConnIds \cup {None}, other : BOOLEAN, left : 0..Retries, beat : Beats \cup {None}]

TypeOK ==
  /\ conns \subseteq {c \in ConnIds : link[c].on}
  /\ connLock \in Users \cup {None}
  /\ cur \in Servers \cup {None}
  /\ connected \in BOOLEAN
  /\ slot \in Beats \cup {None}
  /\ told \subseteq {b \in Beats : beat[b].at # "gone"}
  /\ beat \in [Beats -> [at : BeatPlaces, conn : ConnIds \cup {None}]]
  /\ link \in [ConnIds -> Links]
  /\ \A c \in ConnIds :
       /\ Len(link[c].queue) <= Cap /\ Len(link[c].owed) <= MaxOwed + 1
       /\ ~link[c].on => link[c] = NoLink
  /\ call \in [Users -> Calls]
  /\ off \in BOOLEAN

\* with_pool_size
Init ==
  /\ conns = {} /\ connLock = None /\ cur = None /\ connected = FALSE
  /\ slot = None /\ told = {}
  /\ beat = [b \in Beats |-> [at |-> "gone", conn |-> None]]
  /\ link = [c \in ConnIds |-> NoLink]
  /\ call = [u \in Users |-> NoCall]
  /\ off = FALSE
-----------------------------------------------------------------------------
(* Helpers *)

Running == {b \in Beats : beat[b].at # "gone"}
Spare == {b \in Beats : b \notin Running \cup {slot} \cup {call[u].beat : u \in Users}}

\* Whoever holds a sender of c's channel.
HasSender(c) ==
  \/ c \in conns
  \/ \E u \in Users : call[u].conn = c
  \/ \E b \in Beats : beat[b].conn = c

Goto(u, place) == call' = [call EXCEPT ![u].at = place]

\* The call returns.
Done(u) == call' = [call EXCEPT ![u] = NoCall]

\* An attempt failed: the next retry, or the error is returned.
AfterFailure(c) ==
  IF c.left > 0
  THEN [c EXCEPT !.left = @ - 1, !.at = "known", !.conn = None, !.other = FALSE]
  ELSE NoCall
Failed(u) == call' = [call EXCEPT ![u] = AfterFailure(@)]

HasRoom(c) == Len(link[c].queue) < Cap
Enqueue(c, r) == link' = [link EXCEPT ![c].queue = Append(@, r)]
-----------------------------------------------------------------------------
(* The calls *)

Begin(u, c) ==
  /\ call[u].at = "idle"
  /\ call' = [call EXCEPT ![u] = c]
  /\ off' = FALSE
  /\ UNCHANGED <<client, stops, beat, link>>

Connect(u, s) == Begin(u, [NoCall EXCEPT !.job = "connect", !.at = "lock", !.target = s])

ConnectToAny(u) == Begin(u, [NoCall EXCEPT !.job = "any", !.at = "known"])

\* The heartbeat is left running.
MutDisconnect(u) == Begin(u, [NoCall EXCEPT !.job = "disconnect", !.at = "clear"])

Disconnect(u) == Begin(u, [NoCall EXCEPT !.job = "disconnect", !.at = "stop"])

Request(u, p) ==
  Begin(u, [NoCall EXCEPT !.job = "request", !.at = "pick", !.packet = p, !.left = Retries])
-----------------------------------------------------------------------------
(* connect_to_any, and the reconnect of a retry *)

Known(u) ==
  /\ call[u].at = "known"
  /\ \/ ~connected /\ Goto(u, "recall")
     \/ /\ connected
        /\ IF call[u].job = "any" THEN Done(u) ELSE Goto(u, "pick")
  /\ UNCHANGED <<client, stops, beat, link, off>>

\* connect_to_any goes on with DEFAULT_SERVERS, a retry only knows current_server.
Recall(u) ==
  /\ call[u].at = "recall"
  /\ call' = [call EXCEPT ![u].at = IF cur = None THEN "next" ELSE "lock",
                          ![u].target = cur,
                          ![u].togo = IF call[u].job = "any" THEN Servers ELSE {}]
  /\ UNCHANGED <<client, stops, beat, link, off>>

NextServer(u) ==
  /\ call[u].at = "next"
  /\ \/ /\ call[u].togo = {}
        /\ IF call[u].job = "any" THEN Done(u) ELSE Goto(u, "pick")
     \/ \E s \in call[u].togo :
          call' = [call EXCEPT ![u].at = "lock", ![u].target = s, ![u].togo = @ \ {s}]
  /\ UNCHANGED <<client, stops, beat, link, off>>
-----------------------------------------------------------------------------
(* connect, and start_heartbeat which it ends with *)

\* The old connection tasks end with the channels, their requests unanswered.
MutLock(u) ==
  /\ call[u].at = "lock" /\ connLock = None
  /\ connLock' = u
  /\ cur' = call[u].target
  /\ conns' = {}
  /\ link' = [c \in ConnIds |-> IF c \in conns THEN NoLink ELSE link[c]]
  /\ Goto(u, "dial")
  /\ UNCHANGED <<connected, stops, beat, off>>

\* The old connections stay in the list.
MutLockKeeps(u) ==
  /\ call[u].at = "lock" /\ connLock = None
  /\ connLock' = u
  /\ cur' = call[u].target
  /\ Goto(u, "dial")
  /\ UNCHANGED <<conns, connected, stops, beat, link, off>>

\* Dropping the senders lets the old tasks end once their channels are empty.
Lock(u) ==
  /\ call[u].at = "lock" /\ connLock = None
  /\ connLock' = u
  /\ cur' = call[u].target
  /\ conns' = {}
  /\ Goto(u, "dial")
  /\ UNCHANGED <<connected, stops, beat, link, off>>

\* One dial and handshake after the other, connections locked.  A failure leaves
\* the connections made so far, current_server, the heartbeat and connected.
DialOne(u) ==
  /\ call[u].at = "dial" /\ Cardinality(conns) < PoolSize
  /\ \/ /\ \E c \in ConnIds :
             /\ ~link[c].on /\ ~HasSender(c)
             /\ conns' = conns \cup {c}
             /\ link' = [link EXCEPT ![c] = NewLink(call[u].target)]
        /\ UNCHANGED <<connLock, call>>
     \/ /\ connLock' = None
        /\ IF call[u].job = "connect" THEN Done(u) ELSE Goto(u, "next")
        /\ UNCHANGED <<conns, link>>
  /\ UNCHANGED <<cur, connected, stops, beat, off>>

Unlock(u) ==
  /\ call[u].at = "dial" /\ Cardinality(conns) = PoolSize
  /\ connLock' = None
  /\ Goto(u, "stop")
  /\ UNCHANGED <<conns, cur, connected, stops, beat, link, off>>

\* stop_heartbeat tells the task to stop and does not wait for it.
StopBeat(u) ==
  /\ call[u].at = "stop"
  /\ told' = told \cup ({slot} \cap Running)
  /\ slot' = None
  /\ Goto(u, IF call[u].job = "disconnect" THEN "clear" ELSE "spawn")
  /\ UNCHANGED <<client, beat, link, off>>

Spawn(u) ==
  /\ call[u].at = "spawn"
  /\ \E b \in Spare :
       /\ beat' = [beat EXCEPT ![b].at = "sleep"]
       /\ call' = [call EXCEPT ![u].at = "keep", ![u].beat = b]
  /\ UNCHANGED <<client, stops, link, off>>

\* A sender that is dropped does not stop its heartbeat.
MutKeep(u) ==
  /\ call[u].at = "keep"
  /\ slot' = call[u].beat
  /\ call' = [call EXCEPT ![u].at = "mark", ![u].beat = None]
  /\ UNCHANGED <<client, told, beat, link, off>>

\* Storing the sender drops the one another connect stored meanwhile; the
\* receiver of a dropped sender is ready too, so that heartbeat ends as well.
Keep(u) ==
  /\ call[u].at = "keep"
  /\ told' = told \cup ({slot} \cap Running)
  /\ slot' = call[u].beat
  /\ call' = [call EXCEPT ![u].at = "mark", ![u].beat = None]
  /\ UNCHANGED <<client, beat, link, off>>

Mark(u) ==
  /\ call[u].at = "mark"
  /\ connected' = TRUE
  /\ IF call[u].job = "request" THEN Goto(u, "pick") ELSE Done(u)
  /\ UNCHANGED <<conns, connLock, cur, stops, beat, link, off>>
-----------------------------------------------------------------------------
(* disconnect, after stop_heartbeat *)

Clear(u) ==
  /\ call[u].at = "clear" /\ connLock = None
  /\ conns' = {}
  /\ Goto(u, "forget")
  /\ UNCHANGED <<connLock, cur, connected, stops, beat, link, off>>

Forget(u) ==
  /\ call[u].at = "forget"
  /\ cur' = None
  /\ Goto(u, "unmark")
  /\ UNCHANGED <<conns, connLock, connected, stops, beat, link, off>>

\* The flag forgotten.
MutUnmark(u) ==
  /\ call[u].at = "unmark"
  /\ Done(u)
  /\ UNCHANGED <<client, stops, beat, link, off>>

Unmark(u) ==
  /\ call[u].at = "unmark"
  /\ connected' = FALSE
  /\ Done(u)
  /\ off' = (\A v \in Users \ {u} : call[v].at = "idle")
  /\ UNCHANGED <<conns, connLock, cur, stops, beat, link>>
-----------------------------------------------------------------------------
(* send_and_recv and try_send of the client *)

\* Under the lock only the sender is cloned; whether there are other connections
\* is remembered.
Pick(u) ==
  /\ call[u].at = "pick" /\ connLock = None
  /\ \/ conns = {} /\ Failed(u)
     \/ \E c \in conns :
          call' = [call EXCEPT ![u].at = "push", ![u].conn = c,
                               ![u].other = (Cardinality(conns) > 1)]
  /\ UNCHANGED <<client, stops, beat, link, off>>

\* try_send: the request enters the channel, or the next connection is tried.
Push(u) ==
  /\ call[u].at = "push"
  /\ \/ /\ HasRoom(call[u].conn)
        /\ Enqueue(call[u].conn, [packet |-> call[u].packet, to |-> u])
        /\ Goto(u, "wait")
     \/ /\ ~HasRoom(call[u].conn)
        /\ IF call[u].other THEN Goto(u, "pickNext") ELSE Failed(u)
        /\ UNCHANGED link
  /\ UNCHANGED <<client, stops, beat, off>>

PickNext(u) ==
  /\ call[u].at = "pickNext" /\ connLock = None
  /\ \/ conns = {} /\ Failed(u)
     \/ \E c \in conns : call' = [call EXCEPT ![u].at = "pushNext", ![u].conn = c]
  /\ UNCHANGED <<client, stops, beat, link, off>>

PushNext(u) ==
  /\ call[u].at = "pushNext"
  /\ \/ /\ HasRoom(call[u].conn)
        /\ Enqueue(call[u].conn, [packet |-> call[u].packet, to |-> u])
        /\ Goto(u, "wait")
     \/ ~HasRoom(call[u].conn) /\ Failed(u) /\ UNCHANGED link
  /\ UNCHANGED <<client, stops, beat, off>>
-----------------------------------------------------------------------------
(* ConnectionTask::run *)

\* The oneshot reply: a user's call returns or retries, a heartbeat rests or
\* judges; nobody may be listening any more.
Reply(r, ok) ==
  /\ IF r.to \in Users
     THEN call' = [call EXCEPT ![r.to] = IF ok THEN NoCall ELSE AfterFailure(@)]
     ELSE UNCHANGED call
  /\ IF r.to \in Beats
     THEN beat' = [beat EXCEPT ![r.to] =
                     [at |-> IF ok THEN "sleep" ELSE "judge", conn |-> None]]
     ELSE UNCHANGED beat

\* The next request of the channel is sent; the stream will owe its answer.
TaskTakes(c) ==
  /\ link[c].on /\ link[c].serving = None /\ link[c].queue # <<>>
  /\ link' = [link EXCEPT ![c].serving = Head(link[c].queue),
                          ![c].queue = Tail(@),
                          ![c].owed = IF link[c].ended THEN @
                                      ELSE Append(@, Head(link[c].queue).packet)]
  /\ UNCHANGED <<client, stops, beat, call, off>>

\* An answer that does not decode is left in the stream.
MutTaskReads(c) ==
  /\ link[c].serving # None /\ link[c].owed # <<>>
  /\ \/ /\ Reply(link[c].serving, TRUE)
        /\ link' = [link EXCEPT ![c].serving = None, ![c].owed = Tail(@)]
     \/ /\ Reply(link[c].serving, FALSE)
        /\ link' = [link EXCEPT ![c].serving = None]
  /\ UNCHANGED <<client, stops, off>>

\* The next answer of the stream is read; it may not decode.
TaskReads(c) ==
  /\ link[c].serving # None /\ link[c].owed # <<>>
  /\ \E ok \in BOOLEAN : Reply(link[c].serving, ok)
  /\ link' = [link EXCEPT ![c].serving = None, ![c].owed = Tail(@)]
  /\ UNCHANGED <<client, stops, off>>

\* An answer that never comes: the read waits for ever.
MutTaskFails(c) ==
  /\ link[c].serving # None /\ link[c].ended
  /\ Reply(link[c].serving, FALSE)
  /\ link' = [link EXCEPT ![c].serving = None]
  /\ UNCHANGED <<client, stops, off>>

\* The send or the read fails.  The stream has ended for good, or the read timed
\* out and the answer will come later; the task serves the next request with the
\* same stream either way.
TaskFails(c) ==
  /\ link[c].serving # None
  /\ Reply(link[c].serving, FALSE)
  /\ \/ link' = [link EXCEPT ![c].serving = None, ![c].owed = <<>>, ![c].ended = TRUE]
     \/ /\ ~link[c].ended /\ Len(link[c].owed) <= MaxOwed
        /\ link' = [link EXCEPT ![c].serving = None]
  /\ UNCHANGED <<client, stops, off>>

\* recv returns None: no sender is left and the channel is empty.
TaskEnds(c) ==
  /\ link[c].on /\ link[c].serving = None /\ link[c].queue = <<>> /\ ~HasSender(c)
  /\ link' = [link EXCEPT ![c] = NoLink]
  /\ UNCHANGED <<client, stops, beat, call, off>>
-----------------------------------------------------------------------------
(* The heartbeat task *)

BeatEnds(b) ==
  /\ beat[b].at = "sleep" /\ b \in told
  /\ beat' = [beat EXCEPT ![b].at = "gone"]
  /\ told' = told \ {b}
  /\ UNCHANGED <<client, slot, link, call, off>>

BeatTicks(b) ==
  /\ beat[b].at = "sleep" /\ b \notin told
  /\ beat' = [beat EXCEPT ![b].at = "pick"]
  /\ UNCHANGED <<client, stops, link, call, off>>

\* Without connections there is nothing to probe, so nothing is concluded.
MutBeatPicks(b) ==
  /\ beat[b].at = "pick" /\ connLock = None
  /\ \/ conns = {} /\ beat' = [beat EXCEPT ![b].at = "sleep"]
     \/ \E c \in conns : beat' = [beat EXCEPT ![b] = [at |-> "probe", conn |-> c]]
  /\ UNCHANGED <<client, stops, link, call, off>>

BeatPicks(b) ==
  /\ beat[b].at = "pick" /\ connLock = None
  /\ \/ conns = {} /\ beat' = [beat EXCEPT ![b].at = "judge"]
     \/ \E c \in conns : beat' = [beat EXCEPT ![b] = [at |-> "probe", conn |-> c]]
  /\ UNCHANGED <<client, stops, link, call, off>>

\* try_send: a channel that is full counts as a connection that is dead.
BeatProbes(b) ==
  /\ beat[b].at = "probe"
  /\ \/ /\ HasRoom(beat[b].conn)
        /\ Enqueue(beat[b].conn, [packet |-> Probe, to |-> b])
        /\ beat' = [beat EXCEPT ![b].at = "await"]
     \/ /\ ~HasRoom(beat[b].conn)
        /\ beat' = [beat EXCEPT ![b] = [at |-> "judge", conn |-> None]]
        /\ UNCHANGED link
  /\ UNCHANGED <<client, stops, call, off>>

\* A connection whose requests for b nobody listens to any more.
Unheard(l, b) ==
  LET deaf(r) == IF r.to = b THEN [r EXCEPT !.to = None] ELSE r
  IN [l EXCEPT !.serving = IF @ = None THEN None ELSE deaf(@),
               !.queue = [i \in DOMAIN @ |-> deaf(@[i])]]

\* The probe's timeout (5 s): nobody listens for its answer any more.
BeatTimesOut(b) ==
  /\ beat[b].at = "await"
  /\ link' = [link EXCEPT ![beat[b].conn] = Unheard(@, b)]
  /\ beat' = [beat EXCEPT ![b] = [at |-> "judge", conn |-> None]]
  /\ UNCHANGED <<client, stops, call, off>>

\* A probe that failed lowers connected; one that succeeds does not raise it.
BeatJudges(b) ==
  /\ beat[b].at = "judge"
  /\ connected' = FALSE
  /\ beat' = [beat EXCEPT ![b].at = "sleep"]
  /\ UNCHANGED <<conns, connLock, cur, stops, link, call, off>>
-----------------------------------------------------------------------------
Call(u) ==
  \/ \E s \in Servers : Connect(u, s)
  \/ ConnectToAny(u)
  \/ Disconnect(u)
  \/ \E p \in Packets : Request(u, p)

UserStep(u) ==
  \/ Known(u) \/ Recall(u) \/ NextServer(u)
  \/ Lock(u) \/ DialOne(u) \/ Unlock(u) \/ StopBeat(u) \/ Spawn(u) \/ Keep(u) \/ Mark(u)
  \/ Clear(u) \/ Forget(u) \/ Unmark(u)
  \/ Pick(u) \/ Push(u) \/ PickNext(u) \/ PushNext(u)

TaskStep(c) == TaskTakes(c) \/ TaskReads(c) \/ TaskFails(c) \/ TaskEnds(c)

BeatStep(b) ==
  BeatEnds(b) \/ BeatTicks(b) \/ BeatPicks(b) \/ BeatProbes(b) \/ BeatTimesOut(b) \/ BeatJudges(b)

Next ==
  \/ \E u \in Users : Call(u) \/ UserStep(u)
  \/ \E c \in ConnIds : TaskStep(c)
  \/ \E b \in Beats : BeatStep(b)

Spec == Init /\ [][Next]_vars

\* The runtime polls every task that is ready and fires its timers; its mutexes
\* serve waiters in order, so a heartbeat gets its turn among calls that connect.
\* Calls are free, and no server need ever answer.
FairSpec ==
  /\ Spec
  /\ \A u \in Users : WF_vars(UserStep(u))
  /\ \A c \in ConnIds : WF_vars(TaskTakes(c)) /\ WF_vars(TaskFails(c)) /\ WF_vars(TaskEnds(c))
  /\ \A b \in Beats : WF_vars(BeatStep(b)) /\ SF_vars(BeatPicks(b))
-----------------------------------------------------------------------------
(* Properties *)

Quiet == \A u \in Users : call[u].at = "idle"

\* After disconnect has returned and until the next call the flag is down, there
\* are no connections, no server is remembered, and the heartbeats that still run
\* end without raising the flag, although disconnect does not wait for them (with
\* one caller).
DisconnectIsFinal ==
  off => ~connected /\ conns = {} /\ cur = None /\ slot = None /\ Running \subseteq told

\* Between calls a client that says it is connected has a heartbeat that would
\* find out otherwise (comment of start_heartbeat: a keepalive every 10 seconds
\* tells whether the connection lives).  A disconnect that runs between the two
\* steps in which start_heartbeat stores the sender and raises connected leaves the
\* flag up and no heartbeat.
ConnectedIsWatched == Quiet /\ connected => slot \in Running \ told

\* Nothing else does: while no other call runs beside a disconnect, connects, calls
\* of connect_to_any and reconnecting requests may overlap as they like, and an
\* idle client that says it is connected has a heartbeat which the next disconnect
\* can stop.
DisconnectsAlone ==
  \A u, v \in Users : call[u].job = "disconnect" /\ u # v => call[v].at = "idle"
WatchedIfAlone == []DisconnectsAlone => []ConnectedIsWatched

\* Of the heartbeats that run, all but those that were told to stop are in the
\* slot or about to be put there: also when several callers connect at once, no
\* heartbeat outlives its connection.
OneHeartbeat == Running \ told \subseteq {slot} \cup {call[u].beat : u \in Users}

\* A caller that waits for an answer has its request in the channel it chose or
\* in the hands of that connection's task, which runs: connect and disconnect
\* drop the list of connections under requests in flight and lose none.
WaitersAreServed ==
  \A u \in Users : call[u].at = "wait" =>
    LET l == link[call[u].conn]
        mine(r) == r # None /\ r.to = u
    IN l.on /\ (mine(l.serving) <=> \A i \in DOMAIN l.queue : ~mine(l.queue[i]))

\* All connections go to one server, the one a retry would reconnect to, if any.
ConnsOfCurrent == \A c \in conns : cur \in {link[c].server, None}

\* An idle client with connections remembers their server, or no retry could ever
\* reconnect (comment of the field current_server: for reconnecting after a
\* disconnection).  A disconnect that has dropped the old connections forgets the
\* server of a connect that began meanwhile.
ServerRemembered == Quiet /\ conns # {} => cur # None

\* The answer a task reads next, and returns to the caller it serves, is the
\* answer to that caller's request (ARCHITECTURE: the task replies with the result
\* of the request).  After a read that timed out the stream still owes the old
\* answer, and the next request takes it for its own; nothing else breaks this.
AnswersMatch ==
  \A c \in ConnIds :
    LET l == link[c] IN l.serving # None /\ l.owed # <<>> => Head(l.owed) = l.serving.packet

\* A channel that is full makes the heartbeat skip its turn, not judge (comment in
\* start_heartbeat: a full channel is a busy connection, skip).
BusyIsSkipped ==
  [][\A b \in Beats : beat[b].at = "probe" => beat'[b].at # "judge"]_vars

\* Every call returns: no request waits for ever for an answer, and retries end.
CallsReturn == \A u \in Users : call[u].at # "idle" ~> call[u].at = "idle"

\* A connect that fails at its first dial leaves connected raised with no
\* connection left; the heartbeat notices.
EmptyNoticed == connected /\ conns = {} ~> ~connected \/ conns # {}
-----------------------------------------------------------------------------
(* The inductive invariant.  A request is at place 0 of a connection while the *)
(* task serves it, and at its place in the channel before.                     *)

Places(l) == (IF l.serving = None THEN {} ELSE {0}) \cup DOMAIN l.queue
At(l, i) == IF i = 0 THEN l.serving ELSE l.queue[i]

\* x waits for the answer to a request it gave to c.
Awaits(x, c) ==
  \/ x \in Users /\ call[x].at = "wait" /\ call[x].conn = c
  \/ x \in Beats /\ beat[x].at = "await" /\ beat[x].conn = c

\* connections is locked by the call that dials and by no other.
DialsLocked == \A u \in Users : call[u].at = "dial" <=> connLock = u

\* What a call has in hand at each place.
Ready(c) ==
  /\ c.beat # None <=> c.at = "keep"
  /\ c.conn # None <=> c.at \in {"push", "pickNext", "pushNext", "wait"}
  /\ c.job = "request" => c.packet # None
  /\ c.at \in {"pick", "push", "pickNext", "pushNext", "wait"} => c.job = "request"
  /\ c.at \in {"known", "recall", "next"} => c.job \in {"any", "request"}
  /\ c.at \in {"lock", "dial"} => c.target # None /\ c.job \in {"connect", "any", "request"}

InHand ==
  /\ \A u \in Users : Ready(call[u])
  /\ \A b \in Beats : beat[b].conn # None <=> beat[b].at \in {"probe", "await"}

\* Whoever dials made its server the current one; a disconnect may have forgotten it.
DialsCurrent == \A u \in Users : call[u].at = "dial" => cur \in {call[u].target, None}

\* A sender keeps its task running.
SendersKeepTasks == \A c \in ConnIds : HasSender(c) => link[c].on

\* Whoever a request will be answered to awaits the answer from that connection.
RepliesAreAwaited ==
  \A c \in ConnIds : \A i \in Places(link[c]) :
    LET x == At(link[c], i).to IN x # None => Awaits(x, c)

\* Nobody has two requests with one connection.
OneRequestEach ==
  \A c \in ConnIds : \A i, j \in Places(link[c]) :
    LET x == At(link[c], i).to IN x # None /\ x = At(link[c], j).to => i = j

\* Whoever awaits an answer from a connection has a request with it.
AwaitedAreSent ==
  \A c \in ConnIds : \A x \in Users \cup Beats :
    Awaits(x, c) => \E i \in Places(link[c]) : At(link[c], i).to = x

\* What a stream owes last is the answer to the request that is served; before the
\* next request is sent it owes no more than timed-out reads left.
AnswerIsLast ==
  \A c \in ConnIds :
    LET l == link[c] IN
    /\ l.ended => l.owed = <<>>
    /\ l.serving = None => Len(l.owed) <= MaxOwed
    /\ l.serving # None /\ ~l.ended => l.owed # <<>> /\ l.owed[Len(l.owed)] = l.serving.packet

IInv ==
  /\ TypeOK /\ InHand /\ DialsLocked /\ DialsCurrent /\ SendersKeepTasks
  /\ RepliesAreAwaited /\ OneRequestEach /\ AwaitedAreSent
  /\ AnswerIsLast /\ OneHeartbeat /\ ConnsOfCurrent

\* With one caller: how far disconnect has come.
DisconnectSoFar ==
  /\ off => Quiet
  /\ \A u \in Users :
       /\ call[u].at \in {"clear", "forget", "unmark", "spawn", "keep"} => slot = None
       /\ call[u].at \in {"forget", "unmark"} => conns = {}
       /\ call[u].at = "unmark" => cur = None

\* While no other call runs beside a disconnect: a heartbeat about to be stored is
\* one of its own that nobody stopped, and that of a raised flag is missing only
\* while a call replaces it or a disconnect is about to lower the flag.
BeatsApart ==
  \A u \in Users : call[u].at = "keep" =>
    /\ call[u].beat \in Running \ told /\ call[u].beat # slot
    /\ \A v \in Users \ {u} : call[v].beat # call[u].beat
Leaving == {"clear", "forget", "unmark"}
OnlyDisconnectsLeave == \A u \in Users : call[u].at \in Leaving => call[u].job = "disconnect"
FlagIsWatched ==
  connected \/ (\E u \in Users : call[u].at = "mark") =>
    slot \in Running \ told \/ \E u \in Users : call[u].at \in {"spawn", "keep"} \cup Leaving
WatchInv == BeatsApart /\ OnlyDisconnectsLeave /\ FlagIsWatched
=============================================================================
