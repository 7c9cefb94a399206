--------------------------- MODULE ConnectionPool ---------------------------
(***************************************************************************)
(* The synchronous connection pool, src/src/net/pool.rs.                   *)
(*                                                                         *)
(* PoolInner {idle, active, total} is protected by one mutex, so each      *)
(* critical section is one action.  borrow and try_borrow leave the mutex  *)
(* while they dial, so a borrow that dials is two actions with any step of *)
(* another thread in between.                                              *)
(*                                                                         *)
(* A connection is an identity that carries the server it was dialled to.  *)
(* The idle VecDeque is the set of the connections in it: nothing observes *)
(* its order, and a borrow takes any of the matching connections where the *)
(* code takes the oldest.                                                  *)
(***************************************************************************)
EXTENDS Integers, FiniteSets

CONSTANTS
  Threads,    \* threads that borrow: request threads and heartbeat threads
  Servers,    \* server addresses
  ConnIds,    \* distinguish the connections to one server; reused once closed
  None,       \* no connection, no server
  MaxSize,    \* PoolConfig.max_size
  MaxTotal    \* bound: push deposits nothing once total reaches it

\* A live TcpConnection together with PooledConnection.server.
Conns == [server : Servers, id : ConnIds]

ASSUME PoolAssumption ==
  /\ IsFiniteSet(Threads)
  /\ IsFiniteSet(Conns)
  /\ None \notin Conns /\ None \notin Servers
  /\ MaxSize \in Nat
  /\ MaxTotal \in Nat

VARIABLES
  idle,     \* PoolInner.idle
  active,   \* PoolInner.active
  total,    \* PoolInner.total
  broken,   \* connections whose healthy flag is false
  pc,       \* each thread: "out", "dialling" or "using" a guard
  want,     \* the server each thread borrows for
  held      \* the connection of each thread's guard

vars == <<idle, active, total, broken, pc, want, held>>

TypeOK ==
  /\ idle \in SUBSET Conns
  /\ active \in Nat
  /\ total \in Nat
  /\ broken \in SUBSET Conns
  /\ pc \in [Threads -> {"out", "dialling", "using"}]
  /\ want \in [Threads -> Servers \cup {None}]
  /\ held \in [Threads -> Conns \cup {None}]

\* new_single: an empty pool.
Init ==
  /\ idle = {}
  /\ active = 0
  /\ total = 0
  /\ broken = {}
  /\ pc = [t \in Threads |-> "out"]
  /\ want = [t \in Threads |-> None]
  /\ held = [t \in Threads |-> None]

-----------------------------------------------------------------------------
\* usize::saturating_sub
SatSub(a, b) == IF a >= b THEN a - b ELSE 0

Busy == {t \in Threads : pc[t] # "out"}
Held == {held[t] : t \in {u \in Threads : pc[u] = "using"}}
Fresh == Conns \ (idle \cup Held)

\* Every idle connection, as before the queue was filtered by server.
MutMatching(s) == idle

\* The connections of other servers closed without leaving total.
MutTotalKept(s) == total

\* The idle connections of server s: borrow keeps these and closes the rest,
\* each one leaving total.
Matching(s) == {c \in idle : c.server = s}
TotalKept(s) == SatSub(total, Cardinality(idle \ Matching(s)))

\* The answer to a borrower of server s would be that there is no room.
Refuses(s) == Matching(s) = {} /\ ~(TotalKept(s) < MaxSize)

-----------------------------------------------------------------------------
\* borrow and try_borrow share their critical section.

\* A matching idle connection: the guard is handed out under the lock.
TakeIdle(t, s) ==
  /\ pc[t] = "out"
  /\ \E c \in Matching(s) :
       /\ idle' = Matching(s) \ {c}
       /\ held' = [held EXCEPT ![t] = c]
  /\ total' = TotalKept(s)
  /\ active' = active + 1
  /\ pc' = [pc EXCEPT ![t] = "using"]
  /\ want' = [want EXCEPT ![t] = s]
  /\ UNCHANGED broken

\* No matching idle connection and room: count the slot, unlock, dial.
ReserveSlot(t, s) ==
  /\ pc[t] = "out"
  /\ Matching(s) = {}
  /\ TotalKept(s) < MaxSize
  /\ idle' = {}
  /\ total' = TotalKept(s) + 1
  /\ active' = active + 1
  /\ pc' = [pc EXCEPT ![t] = "dialling"]
  /\ want' = [want EXCEPT ![t] = s]
  /\ UNCHANGED <<broken, held>>

\* No room: POOL_EXHAUSTED from borrow, Ok(None) from try_borrow.
Exhausted(t, s) ==
  /\ pc[t] = "out"
  /\ Refuses(s)
  /\ idle' = {}
  /\ total' = TotalKept(s)
  /\ UNCHANGED <<active, broken, pc, want, held>>

Borrow(t, s) == TakeIdle(t, s) \/ ReserveSlot(t, s) \/ Exhausted(t, s)

\* The heartbeat's variant differs in what it returns when there is no room.
TryBorrow(t, s) == TakeIdle(t, s) \/ ReserveSlot(t, s) \/ Exhausted(t, s)

\* TcpConnection::connect and the handshake succeed: the guard is built
\* without taking the lock again.
Dialled(t) ==
  /\ pc[t] = "dialling"
  /\ \E c \in Fresh : c.server = want[t] /\ held' = [held EXCEPT ![t] = c]
  /\ pc' = [pc EXCEPT ![t] = "using"]
  /\ UNCHANGED <<idle, active, total, broken, want>>

\* The counters as they were: the rollback of a failed dial forgotten.
MutDialFailed(t) ==
  /\ pc[t] = "dialling"
  /\ pc' = [pc EXCEPT ![t] = "out"]
  /\ want' = [want EXCEPT ![t] = None]
  /\ UNCHANGED <<idle, active, total, broken, held>>

\* The dial or the handshake fails: lock again and roll the counters back.
DialFailed(t) ==
  /\ pc[t] = "dialling"
  /\ total' = SatSub(total, 1)
  /\ active' = SatSub(active, 1)
  /\ pc' = [pc EXCEPT ![t] = "out"]
  /\ want' = [want EXCEPT ![t] = None]
  /\ UNCHANGED <<idle, broken, held>>

\* A send or recv through the guard fails: healthy becomes false.
IoError(t) ==
  /\ pc[t] = "using"
  /\ broken' = broken \cup {held[t]}
  /\ UNCHANGED <<idle, active, total, pc, want, held>>

-----------------------------------------------------------------------------
\* What every drop of a guard does to the thread that held it.
LetGo(t) ==
  /\ pc' = [pc EXCEPT ![t] = "out"]
  /\ want' = [want EXCEPT ![t] = None]
  /\ held' = [held EXCEPT ![t] = None]
  /\ active' = SatSub(active, 1)

\* Liveness judged by the socket alone, as before is_open read healthy.
MutParks(t, sockOk) == sockOk /\ Cardinality(idle) < MaxSize

\* is_open: no I/O error so far, and none pending on the socket (sockOk);
\* and the idle queue has room.
Parks(t, sockOk) ==
  /\ held[t] \notin broken
  /\ sockOk
  /\ Cardinality(idle) < MaxSize

\* return_connection, from the guard's Drop: park the connection or close it.
Return(t) ==
  /\ pc[t] = "using"
  /\ LetGo(t)
  /\ \E sockOk \in BOOLEAN :
       \/ /\ Parks(t, sockOk)
          /\ idle' = idle \cup {held[t]}
          /\ UNCHANGED <<total, broken>>
       \/ /\ ~Parks(t, sockOk)
          /\ total' = SatSub(total, 1)
          /\ broken' = broken \ {held[t]}
          /\ UNCHANGED idle

\* push: a connection dialled and shaken by the client joins the idle queue,
\* whatever MaxSize says.
Push(s) ==
  /\ total < MaxTotal
  /\ \E c \in Fresh : c.server = s /\ idle' = idle \cup {c}
  /\ total' = total + 1
  /\ UNCHANGED <<active, broken, pc, want, held>>

\* The counters zeroed with the queue: guards in flight are forgotten.
MutCloseAll ==
  /\ idle' = {}
  /\ total' = 0
  /\ active' = 0
  /\ UNCHANGED <<broken, pc, want, held>>

\* The same on plain integers: total wraps below zero.
MutCloseAllPlain ==
  /\ idle' = {}
  /\ total' = total - Cardinality(idle) - active
  /\ UNCHANGED <<active, broken, pc, want, held>>

\* close_all: the idle connections are closed; active is left to the guards.
CloseAll ==
  /\ idle' = {}
  /\ total' = SatSub(total, Cardinality(idle))
  /\ UNCHANGED <<active, broken, pc, want, held>>

Next ==
  \/ \E t \in Threads :
       \/ \E s \in Servers : Borrow(t, s) \/ TryBorrow(t, s)
       \/ Dialled(t)
       \/ DialFailed(t)
       \/ IoError(t)
       \/ Return(t)
  \/ \E s \in Servers : Push(s)
  \/ CloseAll

Spec == Init /\ [][Next]_vars

-----------------------------------------------------------------------------
(* Properties *)

\* The two counters are exact in every interleaving of borrows that dial, dials
\* that fail, returns, pushes and close_all: active counts the threads that
\* dial or hold a guard, total counts those and the idle connections.  Hence
\* no saturating_sub ever saturates and no failure leaks a slot.
Accounting ==
  /\ active = Cardinality(Busy)
  /\ total = Cardinality(idle) + Cardinality(Busy)

\* A connection on which a send or recv failed never waits in the idle queue,
\* where another request could read the rest of a foreign answer from it.
IdleHealthy == idle \cap broken = {}

\* A guard's connection belongs to the server its borrower asked for, also when
\* the client switched servers while other guards were out.
ServerMatch == \A t \in Threads : pc[t] = "using" => held[t].server = want[t]

\* What the properties rest on: a thread has a guard exactly while it is using
\* one; no connection is in two guards or in a guard and the queue; a broken
\* connection is always in somebody's guard.
GuardsOwn ==
  \A t \in Threads :
    /\ pc[t] = "using" => /\ held[t] \in Conns \ idle
                          /\ \A u \in Threads : pc[u] = "using" /\ held[u] = held[t] => u = t
    /\ pc[t] = "dialling" => want[t] \in Servers
BrokenInUse == broken \subseteq Held

IInv == TypeOK /\ Accounting /\ ServerMatch /\ GuardsOwn /\ BrokenInUse

\* Whenever a borrow would be turned away, MaxSize threads really dial or hold a
\* guard: no history of failed dials, closed connections of other servers or
\* closed pools leaves a pool that refuses although it has room, or for good.
RefusesOnlyWhenFull == \A s \in Servers : Refuses(s) => Cardinality(Busy) >= MaxSize

\* The pool grants and takes back slots as PoolLedger says, which counts the
\* connections that exist and not counters.
Ledger == INSTANCE PoolLedger WITH parked <- idle, holders <- Busy
LedgerSpec == Ledger!Spec
=============================================================================
