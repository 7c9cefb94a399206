------------------------------- MODULE HqClient -------------------------------
(***************************************************************************)
(* TdxHqClient, src/src/net/client.rs: connecting, disconnecting, requests *)
(* with retry, and the heartbeat thread, over ConnectionPool.              *)
(*                                                                         *)
(* Users are the threads that call the client (Python releases the GIL     *)
(* around every call).  Beats are heartbeat threads; a thread that was     *)
(* joined gives its identity back.  A step is one access to shared state:  *)
(* an atomic, a mutex section, a dial, a send and receive.                 *)
(***************************************************************************)
EXTENDS Integers, FiniteSets

CONSTANTS
  Users,      \* threads that call the client
  Beats,      \* identities for heartbeat threads (bound: how many may live)
  Servers,    \* every known server; all of them PRIMARY_SERVERS
  Default,    \* PRIMARY_SERVERS[0]
  ConnIds, None, MaxSize, MaxTotal,   \* as in ConnectionPool
  Retries     \* length of RETRY_INTERVALS

Threads == Users \cup Beats

ASSUME ClientAssumption ==
  /\ Users \cap Beats = {} /\ IsFiniteSet(Users) /\ IsFiniteSet(Beats)
  /\ Default \in Servers /\ IsFiniteSet([server : Servers, id : ConnIds])
  /\ None \notin Threads \cup Servers \cup [server : Servers, id : ConnIds]
  /\ MaxSize \in Nat /\ MaxTotal \in Nat /\ Retries \in Nat

VARIABLES
  idle, active, total, broken, pc, want, held,   \* the pool
  up,          \* servers that answer at present
  connected,   \* TdxHqClient.connected
  last,        \* last_server
  poolLock,    \* who holds the mutex around the pool's Arc, or None
  stopSlot,    \* heartbeat_stop: the heartbeat whose stop flag it holds
  handleSlot,  \* heartbeat_handle: the heartbeat it can join
  joinLock,    \* who holds heartbeat_handle's mutex while joining
  stopped,     \* heartbeats whose stop flag is set
  bat,         \* where each heartbeat is
  bcur,        \* the server a heartbeat works on
  btogo,       \* the servers left in a heartbeat's scan
  uat,         \* where each user is
  job,         \* the call each user executes
  target,      \* the server a user connects to or sends to
  togo,        \* the servers left in a user's scan
  left,        \* retries left
  beat,        \* the heartbeat a user joins or has spawned
  off          \* the last call that finished is disconnect, no other began since

poolVars == <<idle, active, total, broken, pc, want, held>>
beatSlots == <<stopSlot, handleSlot, joinLock>>
beatVars == <<bat, bcur, btogo>>
userVars == <<uat, job, target, togo, left, beat>>
vars == <<poolVars, up, connected, last, poolLock, beatSlots, stopped, beatVars,
          userVars, off>>

Pool == INSTANCE ConnectionPool

UserPlaces == {"idle", "known", "aim", "next", "dial", "clear", "deposit", "mark",
  "record", "stop", "take", "join", "spawn", "keepStop", "keepHandle", "confirm",
  "close", "unmark", "send", "borrow", "poolDial", "io", "hangUp"}
BeatPlaces == {"gone", "wait", "read", "borrow", "poolDial", "ping", "unmark", "clear",
  "scan", "deposit", "record", "mark", "drop"}

OwnTypes ==
  /\ up \in SUBSET Servers
  /\ connected \in BOOLEAN
  /\ last \in Servers \cup {None}
  /\ {poolLock, joinLock} \subseteq Users \cup {None}
  /\ {stopSlot, handleSlot} \subseteq Beats \cup {None}
  /\ stopped \in SUBSET Beats
  /\ bat \in [Beats -> BeatPlaces]
  /\ bcur \in [Beats -> Servers \cup {None}]
  /\ btogo \in [Beats -> SUBSET Servers]
  /\ uat \in [Users -> UserPlaces]
  /\ job \in [Users -> {"none", "connect", "any", "disconnect", "request"}]
  /\ target \in [Users -> Servers \cup {None}]
  /\ togo \in [Users -> SUBSET Servers]
  /\ left \in [Users -> 0..Retries]
  /\ beat \in [Users -> Beats \cup {None}]
  /\ off \in BOOLEAN
TypeOK == Pool!TypeOK /\ OwnTypes

\* TdxHqClient::new
Init ==
  /\ Pool!Init
  /\ up = Servers
  /\ connected = FALSE
  /\ last = None
  /\ poolLock = None
  /\ stopSlot = None /\ handleSlot = None /\ joinLock = None
  /\ stopped = {}
  /\ bat = [b \in Beats |-> "gone"]
  /\ bcur = [b \in Beats |-> None]
  /\ btogo = [b \in Beats |-> {}]
  /\ uat = [u \in Users |-> "idle"]
  /\ job = [u \in Users |-> "none"]
  /\ target = [u \in Users |-> None]
  /\ togo = [u \in Users |-> {}]
  /\ left = [u \in Users |-> 0]
  /\ beat = [u \in Users |-> None]
  /\ off = FALSE
-----------------------------------------------------------------------------
(* Helpers *)

Or(s, default) == IF s = None THEN default ELSE s

UserAt(u, place) == uat' = [uat EXCEPT ![u] = place]
BeatAt(b, place) == bat' = [bat EXCEPT ![b] = place]

\* The call returns: its locals are gone.
Done(u) ==
  /\ UserAt(u, "idle")
  /\ job' = [job EXCEPT ![u] = "none"]
  /\ target' = [target EXCEPT ![u] = None]
  /\ togo' = [togo EXCEPT ![u] = {}]
  /\ left' = [left EXCEPT ![u] = 0]
  /\ beat' = [beat EXCEPT ![u] = None]

\* The call goes on at place with its other locals unchanged.
Goto(u, place) == UserAt(u, place) /\ UNCHANGED <<job, target, togo, left, beat>>

\* Heartbeat identities nobody runs or refers to.
Spare == {b \in Beats : bat[b] = "gone" /\ b \notin {stopSlot, handleSlot} \cup {beat[u] : u \in Users}}
Connecting == {u \in Users : uat[u] \in {"clear", "deposit", "mark", "record", "stop", "take", "join", "spawn"}}
Alive == {b \in Beats : bat[b] # "gone"}

\* Groups of variables a step leaves alone.
restOfPool == <<poolVars, poolLock>>
restOfHeart == <<beatSlots, stopped, beatVars>>
-----------------------------------------------------------------------------
(* The calls *)

Begin(u, j, place) ==
  /\ uat[u] = "idle"
  /\ UserAt(u, place)
  /\ job' = [job EXCEPT ![u] = j]
  /\ off' = FALSE
  /\ UNCHANGED <<restOfPool, up, connected, last, restOfHeart, togo, beat>>

Connect(u, s) ==
  /\ Begin(u, "connect", "dial")
  /\ target' = [target EXCEPT ![u] = s]
  /\ UNCHANGED left

ConnectToAny(u) == Begin(u, "any", "known") /\ UNCHANGED <<target, left>>

MutDisconnect(u) == Begin(u, "disconnect", "close") /\ UNCHANGED <<target, left>>

Disconnect(u) == Begin(u, "disconnect", "stop") /\ UNCHANGED <<target, left>>

Request(u) ==
  /\ Begin(u, "request", "send")
  /\ left' = [left EXCEPT ![u] = Retries]
  /\ UNCHANGED target
-----------------------------------------------------------------------------
(* connect_to_any and reconnect_if_needed: which server to try *)

\* Nothing to do while connected is set.
Known(u) ==
  /\ uat[u] = "known"
  /\ \/ /\ connected
        /\ IF job[u] = "any" THEN Done(u) ELSE Goto(u, "send")
     \/ ~connected /\ Goto(u, "aim")
  /\ UNCHANGED <<restOfPool, up, connected, last, restOfHeart, off>>

\* First the last server, if any; reconnect_if_needed then leaves it out.
Aim(u) ==
  /\ uat[u] = "aim"
  /\ UserAt(u, IF last = None THEN "next" ELSE "dial")
  /\ target' = [target EXCEPT ![u] = last]
  /\ togo' = [togo EXCEPT ![u] = IF job[u] = "any" THEN Servers ELSE Servers \ {last}]
  /\ UNCHANGED <<restOfPool, up, connected, last, restOfHeart, job, left, beat, off>>

\* Then the lists.  When none answers connect_to_any fails, a request goes on.
NextServer(u) ==
  /\ uat[u] = "next"
  /\ \/ /\ togo[u] = {}
        /\ IF job[u] = "any" THEN Done(u) ELSE Goto(u, "send")
     \/ \E s \in togo[u] :
          /\ UserAt(u, "dial")
          /\ target' = [target EXCEPT ![u] = s]
          /\ togo' = [togo EXCEPT ![u] = @ \ {s}]
          /\ UNCHANGED <<job, left, beat>>
  /\ UNCHANGED <<restOfPool, up, connected, last, restOfHeart, off>>
-----------------------------------------------------------------------------
(* connect_internal *)

\* Connect and shake hands outside every lock.  Bound: it succeeds only while
\* there is an identity for the heartbeat it will start.
Dial(u) ==
  /\ uat[u] = "dial"
  /\ \/ /\ target[u] \in up
        /\ Cardinality(Spare) > Cardinality(Connecting)
        /\ Goto(u, "clear")
     \/ IF job[u] = "connect" THEN Done(u) ELSE Goto(u, "next")
  /\ UNCHANGED <<restOfPool, up, connected, last, restOfHeart, off>>

\* A new pool replaces the one that heartbeats still use.
MutClearPool(u) ==
  /\ uat[u] = "clear" /\ poolLock = None
  /\ idle' = {} /\ active' = 0 /\ total' = 0
  /\ UNCHANGED <<broken, pc, want, held>>
  /\ poolLock' = u
  /\ Goto(u, "deposit")
  /\ UNCHANGED <<up, connected, last, restOfHeart, off>>

\* Under the client's pool mutex: close_all, then push the new connection.
ClearPool(u) ==
  /\ uat[u] = "clear" /\ poolLock = None
  /\ Pool!CloseAll
  /\ poolLock' = u
  /\ Goto(u, "deposit")
  /\ UNCHANGED <<up, connected, last, restOfHeart, off>>

Deposit(u) ==
  /\ uat[u] = "deposit"
  /\ Pool!Push(target[u])
  /\ poolLock' = None
  /\ Goto(u, "mark")
  /\ UNCHANGED <<up, connected, last, restOfHeart, off>>

Mark(u) ==
  /\ uat[u] = "mark"
  /\ connected' = TRUE
  /\ Goto(u, "record")
  /\ UNCHANGED <<restOfPool, up, last, restOfHeart, off>>

\* last_server is stored (and the caches are cleared, which are not modelled).
Record(u) ==
  /\ uat[u] = "record"
  /\ last' = target[u]
  /\ Goto(u, "stop")
  /\ UNCHANGED <<restOfPool, up, connected, restOfHeart, off>>
-----------------------------------------------------------------------------
(* stop_heartbeat, from start_heartbeat and disconnect *)

AfterStop(u) == IF job[u] = "disconnect" THEN "close" ELSE "spawn"

\* The stop flag is taken out of its slot but never raised.
MutTakeStop(u) ==
  /\ uat[u] = "stop"
  /\ stopSlot' = None
  /\ Goto(u, "take")
  /\ UNCHANGED <<restOfPool, up, connected, last, handleSlot, joinLock, stopped, beatVars, off>>

TakeStop(u) ==
  /\ uat[u] = "stop"
  /\ stopped' = stopped \cup ({stopSlot} \cap Alive)
  /\ stopSlot' = None
  /\ Goto(u, "take")
  /\ UNCHANGED <<restOfPool, up, connected, last, handleSlot, joinLock, beatVars, off>>

\* The stop flag raised, the thread not waited for.
MutTakeHandle(u) ==
  /\ uat[u] = "take" /\ joinLock = None
  /\ handleSlot' = None
  /\ Goto(u, AfterStop(u))
  /\ UNCHANGED <<restOfPool, up, connected, last, stopSlot, joinLock, stopped, beatVars, off>>

\* The handle's mutex stays locked while its thread is joined (a temporary of
\* `if let`).
TakeHandle(u) ==
  /\ uat[u] = "take" /\ joinLock = None
  /\ \/ /\ handleSlot = None
        /\ Goto(u, AfterStop(u))
        /\ UNCHANGED <<handleSlot, joinLock>>
     \/ /\ handleSlot # None
        /\ beat' = [beat EXCEPT ![u] = handleSlot]
        /\ handleSlot' = None
        /\ joinLock' = u
        /\ UserAt(u, "join")
        /\ UNCHANGED <<job, target, togo, left>>
  /\ UNCHANGED <<restOfPool, up, connected, last, stopSlot, stopped, beatVars, off>>

Join(u) ==
  /\ uat[u] = "join"
  /\ bat[beat[u]] = "gone"
  /\ joinLock' = None
  /\ beat' = [beat EXCEPT ![u] = None]
  /\ UserAt(u, AfterStop(u))
  /\ UNCHANGED <<restOfPool, up, connected, last, stopSlot, handleSlot, stopped, beatVars,
                 job, target, togo, left, off>>
-----------------------------------------------------------------------------
(* start_heartbeat, after stop_heartbeat *)

Spawn(u) ==
  /\ uat[u] = "spawn" /\ poolLock = None
  /\ \E b \in Spare :
       /\ BeatAt(b, "wait")
       /\ beat' = [beat EXCEPT ![u] = b]
  /\ UserAt(u, "keepStop")
  /\ UNCHANGED <<restOfPool, up, connected, last, beatSlots, stopped, bcur, btogo,
                 job, target, togo, left, off>>

\* What the slots held before is dropped: a flag nobody raises, a thread nobody
\* joins.
KeepStop(u) ==
  /\ uat[u] = "keepStop"
  /\ stopSlot' = beat[u]
  /\ Goto(u, "keepHandle")
  /\ UNCHANGED <<restOfPool, up, connected, last, handleSlot, joinLock, stopped, beatVars, off>>

KeepHandle(u) ==
  /\ uat[u] = "keepHandle" /\ joinLock = None
  /\ handleSlot' = beat[u]
  /\ Goto(u, "confirm")
  /\ UNCHANGED <<restOfPool, up, connected, last, stopSlot, joinLock, stopped, beatVars, off>>

Confirm(u) ==
  /\ uat[u] = "confirm"
  /\ connected' = TRUE
  /\ IF job[u] = "request"
     THEN /\ UserAt(u, "send")
          /\ beat' = [beat EXCEPT ![u] = None]
          /\ UNCHANGED <<job, target, togo, left>>
     ELSE Done(u)
  /\ UNCHANGED <<restOfPool, up, last, restOfHeart, off>>
-----------------------------------------------------------------------------
(* disconnect, after stop_heartbeat *)

Close(u) ==
  /\ uat[u] = "close" /\ poolLock = None
  /\ Pool!CloseAll
  /\ Goto(u, "unmark")
  /\ UNCHANGED <<poolLock, up, connected, last, restOfHeart, off>>

Unmark(u) ==
  /\ uat[u] = "unmark"
  /\ connected' = FALSE
  /\ Done(u)
  /\ off' = (\A v \in Users \ {u} : uat[v] = "idle")
  /\ UNCHANGED <<restOfPool, up, last, restOfHeart>>
-----------------------------------------------------------------------------
(* send_and_recv_limited and try_send_and_recv *)

\* An attempt failed.  The first one may be final (auto_retry off, an error that
\* is not a connection error); after that every error leads to the next retry.
Failed(u) ==
  \/ /\ left[u] \in {0, Retries}
     /\ Done(u)
  \/ /\ left[u] > 0
     /\ left' = [left EXCEPT ![u] = @ - 1]
     /\ UserAt(u, "known")
     /\ UNCHANGED <<job, target, togo, beat>>

\* The server is read before the pool's mutex is taken.
Send(u) ==
  /\ uat[u] = "send"
  /\ UserAt(u, "borrow")
  /\ target' = [target EXCEPT ![u] = Or(last, Default)]
  /\ UNCHANGED <<restOfPool, up, connected, last, restOfHeart, job, togo, left, beat, off>>

\* The mutex is dropped before the connection is used.
MutBorrow(u) ==
  /\ uat[u] = "borrow" /\ poolLock = None
  /\ \/ Pool!TakeIdle(u, target[u]) /\ Goto(u, "io")
     \/ Pool!ReserveSlot(u, target[u]) /\ Goto(u, "poolDial")
     \/ Pool!Exhausted(u, target[u]) /\ Failed(u)
  /\ UNCHANGED <<poolLock, up, connected, last, restOfHeart, off>>

\* The client's pool mutex is held from here to the end of the attempt.
Borrow(u) ==
  /\ uat[u] = "borrow" /\ poolLock = None
  /\ \/ Pool!TakeIdle(u, target[u]) /\ poolLock' = u /\ Goto(u, "io")
     \/ Pool!ReserveSlot(u, target[u]) /\ poolLock' = u /\ Goto(u, "poolDial")
     \/ Pool!Exhausted(u, target[u]) /\ UNCHANGED poolLock /\ Failed(u)
  /\ UNCHANGED <<up, connected, last, restOfHeart, off>>

PoolDial(u) ==
  /\ uat[u] = "poolDial"
  /\ \/ /\ target[u] \in up
        /\ Pool!Dialled(u)
        /\ Goto(u, "io")
        /\ UNCHANGED poolLock
     \/ /\ Pool!DialFailed(u)
        /\ poolLock' = None
        /\ Failed(u)
  /\ UNCHANGED <<up, connected, last, restOfHeart, off>>

\* A whole answer is read: the request is done, or the answer does not decode
\* and the attempt failed all the same.
Answered(u) ==
  /\ uat[u] = "io" /\ target[u] \in up
  /\ Pool!Return(u)
  /\ poolLock' = None
  /\ Done(u) \/ Failed(u)
  /\ UNCHANGED <<up, connected, last, restOfHeart, off>>

Broken(u) ==
  /\ uat[u] = "io"
  /\ Pool!IoError(u)
  /\ Goto(u, "hangUp")
  /\ UNCHANGED <<poolLock, up, connected, last, restOfHeart, off>>

HangUp(u) ==
  /\ uat[u] = "hangUp"
  /\ Pool!Return(u)
  /\ poolLock' = None
  /\ Failed(u)
  /\ UNCHANGED <<up, connected, last, restOfHeart, off>>
-----------------------------------------------------------------------------
(* The heartbeat thread *)

restOfUsers == <<poolLock, beatSlots, userVars, off>>

\* The wait polls the stop flag; a raised flag ends the thread.
BeatStops(b) ==
  /\ bat[b] = "wait" /\ b \in stopped
  /\ BeatAt(b, "gone")
  /\ stopped' = stopped \ {b}
  /\ UNCHANGED <<poolVars, up, connected, last, restOfUsers, bcur, btogo>>

BeatDue(b) ==
  /\ bat[b] = "wait" /\ b \notin stopped
  /\ BeatAt(b, "read")
  /\ UNCHANGED <<poolVars, up, connected, last, restOfUsers, stopped, bcur, btogo>>

BeatReads(b) ==
  /\ bat[b] = "read"
  /\ BeatAt(b, "borrow")
  /\ bcur' = [bcur EXCEPT ![b] = Or(last, Default)]
  /\ UNCHANGED <<poolVars, up, connected, last, restOfUsers, stopped, btogo>>

\* Back to waiting with no server in hand.
Rest(b) ==
  /\ BeatAt(b, "wait")
  /\ bcur' = [bcur EXCEPT ![b] = None]
  /\ btogo' = [btogo EXCEPT ![b] = {}]

\* Ok(None), the pool is full: nothing is tried this time.
BeatBorrows(b) ==
  /\ bat[b] = "borrow"
  /\ \/ Pool!TakeIdle(b, bcur[b]) /\ BeatAt(b, "ping") /\ UNCHANGED <<bcur, btogo>>
     \/ Pool!ReserveSlot(b, bcur[b]) /\ BeatAt(b, "poolDial") /\ UNCHANGED <<bcur, btogo>>
     \/ Pool!Exhausted(b, bcur[b]) /\ Rest(b)
  /\ UNCHANGED <<up, connected, last, restOfUsers, stopped>>

\* Err, the dial inside try_borrow failed: `if let Ok(Some(..))` passes over it.
BeatDials(b) ==
  /\ bat[b] = "poolDial"
  /\ \/ /\ bcur[b] \in up
        /\ Pool!Dialled(b)
        /\ BeatAt(b, "ping")
        /\ UNCHANGED <<bcur, btogo>>
     \/ Pool!DialFailed(b) /\ Rest(b)
  /\ UNCHANGED <<up, connected, last, restOfUsers, stopped>>

PingOk(b) ==
  /\ bat[b] = "ping" /\ bcur[b] \in up
  /\ Pool!Return(b)
  /\ Rest(b)
  /\ UNCHANGED <<up, connected, last, restOfUsers, stopped>>

PingFails(b) ==
  /\ bat[b] = "ping"
  /\ Pool!IoError(b)
  /\ BeatAt(b, "unmark")
  /\ UNCHANGED <<up, connected, last, restOfUsers, stopped, bcur, btogo>>

BeatUnmarks(b) ==
  /\ bat[b] = "unmark"
  /\ connected' = FALSE
  /\ BeatAt(b, "clear")
  /\ UNCHANGED <<poolVars, up, last, restOfUsers, stopped, bcur, btogo>>

\* close_all; then every server but the one that failed is a candidate.  The
\* guard of the dead connection stays out during the scan.
BeatClears(b) ==
  /\ bat[b] = "clear"
  /\ Pool!CloseAll
  /\ BeatAt(b, "scan")
  /\ btogo' = [btogo EXCEPT ![b] = Servers \ {bcur[b]}]
  /\ UNCHANGED <<up, connected, last, restOfUsers, stopped, bcur>>

\* The stop flag is polled before each dial.
BeatScans(b) ==
  /\ bat[b] = "scan"
  /\ \/ /\ b \in stopped \/ btogo[b] = {}
        /\ BeatAt(b, "drop")
        /\ UNCHANGED <<bcur, btogo>>
     \/ /\ b \notin stopped
        /\ \E s \in btogo[b] :
             /\ btogo' = [btogo EXCEPT ![b] = @ \ {s}]
             /\ \/ /\ s \in up
                   /\ bcur' = [bcur EXCEPT ![b] = s]
                   /\ BeatAt(b, "deposit")
                \/ UNCHANGED <<bcur, bat>>
  /\ UNCHANGED <<poolVars, up, connected, last, restOfUsers, stopped>>

BeatDeposits(b) ==
  /\ bat[b] = "deposit"
  /\ Pool!Push(bcur[b])
  /\ BeatAt(b, "record")
  /\ UNCHANGED <<up, connected, last, restOfUsers, stopped, bcur, btogo>>

BeatRecords(b) ==
  /\ bat[b] = "record"
  /\ last' = bcur[b]
  /\ BeatAt(b, "mark")
  /\ UNCHANGED <<poolVars, up, connected, restOfUsers, stopped, bcur, btogo>>

BeatMarks(b) ==
  /\ bat[b] = "mark"
  /\ connected' = TRUE
  /\ BeatAt(b, "drop")
  /\ UNCHANGED <<poolVars, up, last, restOfUsers, stopped, bcur, btogo>>

BeatDrops(b) ==
  /\ bat[b] = "drop"
  /\ Pool!Return(b)
  /\ Rest(b)
  /\ UNCHANGED <<up, connected, last, restOfUsers, stopped>>
-----------------------------------------------------------------------------
\* Servers stop and start answering.
Toggle(s) ==
  /\ up' = IF s \in up THEN up \ {s} ELSE up \cup {s}
  /\ UNCHANGED <<poolVars, connected, last, poolLock, beatSlots, stopped, beatVars, userVars, off>>

Call(u) ==
  \/ \E s \in Servers : Connect(u, s)
  \/ ConnectToAny(u)
  \/ Disconnect(u)
  \/ Request(u)

UserStep(u) ==
  \/ Known(u) \/ Aim(u) \/ NextServer(u)
  \/ Dial(u) \/ ClearPool(u) \/ Deposit(u) \/ Mark(u) \/ Record(u)
  \/ TakeStop(u) \/ TakeHandle(u) \/ Join(u)
  \/ Spawn(u) \/ KeepStop(u) \/ KeepHandle(u) \/ Confirm(u)
  \/ Close(u) \/ Unmark(u)
  \/ Send(u) \/ Borrow(u) \/ PoolDial(u) \/ Answered(u) \/ Broken(u) \/ HangUp(u)

BeatStep(b) ==
  \/ BeatStops(b) \/ BeatDue(b) \/ BeatReads(b) \/ BeatBorrows(b) \/ BeatDials(b)
  \/ PingOk(b) \/ PingFails(b) \/ BeatUnmarks(b) \/ BeatClears(b) \/ BeatScans(b)
  \/ BeatDeposits(b) \/ BeatRecords(b) \/ BeatMarks(b) \/ BeatDrops(b)

Next ==
  \/ \E u \in Users : Call(u) \/ UserStep(u)
  \/ \E b \in Beats : BeatStep(b)
  \/ \E s \in Servers : Toggle(s)

Spec == Init /\ [][Next]_vars

\* The operating system runs every thread; calls and outages are free.
FairSpec ==
  /\ Spec
  /\ \A u \in Users : WF_vars(UserStep(u))
  /\ \A b \in Beats : WF_vars(BeatStep(b))
-----------------------------------------------------------------------------
(* Properties *)

Quiet == \A u \in Users : uat[u] = "idle"

\* After disconnect has returned and until the next call nothing is left of the
\* connection: the flag is down, no heartbeat thread runs that could raise it
\* again or dial, and the pool is empty (with one thread calling).
DisconnectIsFinal == off => ~connected /\ Alive = {} /\ idle = {} /\ active = 0

\* Between calls a client that says it is connected has exactly one heartbeat,
\* which the next disconnect can stop (with one thread calling).
ConnectedIsWatched ==
  Quiet /\ connected =>
    \E b \in Beats : Alive = {b} /\ stopSlot = b /\ handleSlot = b /\ b \notin stopped

\* A request that gets the client's pool mutex finds a connection or room for one,
\* so it is never answered POOL_EXHAUSTED, which send_and_recv does not retry: only
\* one request is in the pool at a time, the heartbeats take no more than one slot
\* each, and no call or failover leaves a connection counted that is gone.
RoomForRequests ==
  \A u \in Users : uat[u] = "borrow" /\ poolLock = None => ~Pool!Refuses(target[u])

\* What the client does with the pool is what ConnectionPool says threads do.
PoolSpec == Pool!Spec

\* Every call returns: joining the heartbeat, scanning the servers and retrying
\* all come to an end, whatever servers do.
CallsReturn == \A u \in Users : uat[u] # "idle" ~> uat[u] = "idle"

\* Between calls every heartbeat that goes on running can be stopped
\* (API_REFERENCE: disconnect stops the heartbeat).  Two threads that connect at
\* once spawn two heartbeats, and the slots keep one of them.
HeartbeatsInReach == Quiet => Alive \ stopped \subseteq {stopSlot} \cap {handleSlot}

\* connect(s) that has stopped the old heartbeat stands at s (API_REFERENCE: it
\* connects to the server given).  The old heartbeat, still scanning, can store
\* another server after connect stored s and before connect joined it; requests
\* then go to that server although connect returns success.
ConnectLands == \A u \in Users : job[u] = "connect" /\ uat[u] = "spawn" => last = target[u]

\* When one server is down for good and the others answer, the client does not
\* keep that server and say it is connected (CHANGELOG: a heartbeat that finds
\* the connection dead tries another server at once).  A failed request takes
\* its connection out of the pool; try_borrow then dials, its error is passed
\* over, and nobody ever looks for another server.
FailsOver ==
  \A s \in Servers : <>[](up = Servers \ {s}) => []<>~(connected /\ last = s)
-----------------------------------------------------------------------------
(* The inductive invariant *)

\* Places at which a thread has a guard of the pool, and those at which a call or
\* a heartbeat has a server in hand.
Borrowed == {"io", "hangUp", "ping", "unmark", "clear", "scan", "deposit", "record", "mark", "drop"}
Aiming == {"dial", "clear", "deposit", "mark", "record", "borrow", "poolDial"}
Probing == BeatPlaces \ {"gone", "wait", "read"}

\* The pool sees of each thread what the thread does.
UsersInPool ==
  \A u \in Users :
    /\ pc[u] = "dialling" <=> uat[u] = "poolDial"
    /\ pc[u] = "using" <=> uat[u] \in {"io", "hangUp"}
BeatsInPool ==
  \A b \in Beats :
    /\ pc[b] = "dialling" <=> bat[b] = "poolDial"
    /\ pc[b] = "using" <=> bat[b] \in Borrowed

\* Who is about to dial or borrow knows for which server.
ServersInHand ==
  /\ \A u \in Users : uat[u] \in Aiming => target[u] # None
  /\ \A b \in Beats : bat[b] \in Probing => bcur[b] # None

\* The two mutexes are held across steps exactly where the code holds them.
LocksHeld ==
  \A u \in Users :
    /\ poolLock = u <=> uat[u] \in {"deposit", "poolDial", "io", "hangUp"}
    /\ joinLock = u <=> uat[u] = "join"

Coupled ==
  /\ OwnTypes /\ pc \in [Threads -> {"out", "dialling", "using"}]
  /\ UsersInPool /\ BeatsInPool /\ ServersInHand /\ LocksHeld
  /\ stopped \subseteq Alive

\* With one caller: which heartbeat lives and which slots refer to it, by the place
\* of the call.  Between stop_heartbeat and the end of start_heartbeat the slots are
\* filled one after the other; everywhere else both hold the heartbeat that lives.
Replacing == {"take", "join", "spawn", "keepStop", "keepHandle", "confirm", "close", "unmark"}
HeartbeatInSlots ==
  \A u \in Users :
    /\ uat[u] \notin Replacing =>
         /\ stopSlot = handleSlot /\ Alive = {handleSlot} \ {None} /\ stopped = {}
         /\ connected => handleSlot # None \/ uat[u] \in {"record", "stop"}
    /\ uat[u] \in Replacing \ {"keepHandle", "confirm"} => stopSlot = None
    /\ uat[u] \in Replacing \ {"take", "confirm"} => handleSlot = None
    /\ uat[u] = "take" => Alive \subseteq {handleSlot} /\ Alive \subseteq stopped
    /\ uat[u] = "join" => Alive \subseteq {beat[u]} /\ Alive \subseteq stopped
    /\ uat[u] \in {"spawn", "close", "unmark"} => Alive = {}
    /\ uat[u] \in {"keepStop", "keepHandle", "confirm"} => Alive = {beat[u]} /\ stopped = {}
    /\ uat[u] \in {"keepHandle", "confirm"} => stopSlot = beat[u]
    /\ uat[u] = "confirm" => handleSlot = beat[u]
    /\ uat[u] = "unmark" => idle = {}
    /\ off => uat[u] = "idle"
=============================================================================
