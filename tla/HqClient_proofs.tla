-------------------------- MODULE HqClient_proofs ---------------------------
(***************************************************************************)
(* Proofs about HqClient, for all callers, heartbeats, servers, pool sizes *)
(* and numbers of retries: the client implements the pool, so the pool's   *)
(* theorems hold in it, and requests find room; with one caller,           *)
(* disconnect is final and a connected client is watched.                  *)
(***************************************************************************)
EXTENDS HqClient, FiniteSetTheorems, TLAPS

\* What is proved of the pool alone.
PoolFacts == INSTANCE ConnectionPool_proofs

-----------------------------------------------------------------------------
(* What the steps are built from *)

PoolPlaces == {"out", "dialling", "using"}

\* What each operation of the pool does to the place its thread has in it.
LEMMA PoolMoves ==
  ASSUME NEW t, NEW s
  PROVE  /\ Pool!TakeIdle(t, s) => pc' = [pc EXCEPT ![t] = "using"]
         /\ Pool!ReserveSlot(t, s) => pc' = [pc EXCEPT ![t] = "dialling"]
         /\ Pool!Exhausted(t, s) => pc' = pc
         /\ Pool!Dialled(t) => pc' = [pc EXCEPT ![t] = "using"]
         /\ Pool!DialFailed(t) => pc' = [pc EXCEPT ![t] = "out"]
         /\ Pool!IoError(t) => pc' = pc
         /\ Pool!Return(t) => pc' = [pc EXCEPT ![t] = "out"]
         /\ Pool!Push(s) => pc' = pc
         /\ Pool!CloseAll => pc' = pc
  BY DEF Pool!TakeIdle, Pool!ReserveSlot, Pool!Exhausted, Pool!Dialled, Pool!DialFailed,
         Pool!IoError, Pool!Return, Pool!LetGo, Pool!Push, Pool!CloseAll

\* What a caller and a heartbeat have to do with the pool, the locks and servers.
UserOk(u) ==
  /\ pc[u] = "dialling" <=> uat[u] = "poolDial"
  /\ pc[u] = "using" <=> uat[u] \in {"io", "hangUp"}
  /\ uat[u] \in Aiming => target[u] # None
  /\ poolLock = u <=> uat[u] \in {"deposit", "poolDial", "io", "hangUp"}
  /\ joinLock = u <=> uat[u] = "join"
BeatOk(b) ==
  /\ pc[b] = "dialling" <=> bat[b] = "poolDial"
  /\ pc[b] = "using" <=> bat[b] \in Borrowed
  /\ bat[b] \in Probing => bcur[b] # None

LEMMA CoupledParts ==
  Coupled <=> /\ OwnTypes /\ pc \in [Threads -> PoolPlaces]
              /\ \A u \in Users : UserOk(u)
              /\ \A b \in Beats : BeatOk(b)
              /\ stopped \subseteq Alive
  BY DEF Coupled, UserOk, BeatOk, UsersInPool, BeatsInPool, ServersInHand, LocksHeld, PoolPlaces

LEMMA CoupledParts1 ==
  Coupled' <=> /\ OwnTypes' /\ pc' \in [Threads -> PoolPlaces]
               /\ \A u \in Users : UserOk(u)'
               /\ \A b \in Beats : BeatOk(b)'
               /\ stopped' \subseteq Alive'
  BY DEF Coupled, UserOk, BeatOk, UsersInPool, BeatsInPool, ServersInHand, LocksHeld, PoolPlaces

\* A step of u that leaves the heartbeats and the other callers where they are.
LEMMA UserMoves ==
  ASSUME Coupled, NEW u \in Users, NEW p \in UserPlaces, NEW q \in PoolPlaces,
         uat' = [uat EXCEPT ![u] = p], pc' = [pc EXCEPT ![u] = q],
         OwnTypes', bat' = bat, bcur' = bcur, stopped' \subseteq Alive,
         \A v \in Users \ {u} : target'[v] = target[v],
         poolLock' # poolLock => {poolLock, poolLock'} \subseteq {u, None},
         joinLock' # joinLock => {joinLock, joinLock'} \subseteq {u, None},
         q = "dialling" <=> p = "poolDial",
         q = "using" <=> p \in {"io", "hangUp"},
         p \in Aiming => target'[u] # None,
         poolLock' = u <=> p \in {"deposit", "poolDial", "io", "hangUp"},
         joinLock' = u <=> p = "join"
  PROVE  Coupled'
  <1>1. /\ OwnTypes /\ pc \in [Threads -> PoolPlaces] /\ uat \in [Users -> UserPlaces]
        /\ \A v \in Users : UserOk(v)
        /\ \A b \in Beats : BeatOk(b)
    BY CoupledParts DEF OwnTypes
  <1>2. u \in Threads /\ Users \subseteq Threads /\ Beats \subseteq Threads /\ Users \cap Beats = {} /\ None \notin Users
    BY ClientAssumption DEF Threads
  <1>3. pc' \in [Threads -> PoolPlaces] /\ uat'[u] = p /\ pc'[u] = q
    BY <1>1, <1>2
  <1>4. \A v \in Threads \ {u} : pc'[v] = pc[v]
    BY <1>1, <1>2
  <1>5. UserOk(u)'
    BY <1>3 DEF UserOk
  <1>6. ASSUME NEW v \in Users \ {u} PROVE UserOk(v)'
    <2>1. uat'[v] = uat[v] /\ pc'[v] = pc[v] /\ target'[v] = target[v]
      BY <1>1, <1>2, <1>4
    <2>2. (poolLock' = v <=> poolLock = v) /\ (joinLock' = v <=> joinLock = v)
      BY <1>2
    <2>3. UserOk(v)
      BY <1>1
    <2>4. QED
      BY <2>1, <2>2, <2>3 DEF UserOk
  <1>7. ASSUME NEW b \in Beats PROVE BeatOk(b)'
    <2>1. pc'[b] = pc[b] /\ bat'[b] = bat[b] /\ bcur'[b] = bcur[b]
      BY <1>2, <1>4
    <2>2. QED
      BY <1>1, <2>1 DEF BeatOk
  <1>8. stopped' \subseteq Alive'
    BY DEF Alive
  <1>9. QED
    BY <1>3, <1>5, <1>6, <1>7, <1>8, CoupledParts1

\* A step of heartbeat b, which touches no caller and no lock.
LEMMA BeatMoves ==
  ASSUME Coupled, NEW b \in Beats, NEW p \in BeatPlaces, NEW q \in PoolPlaces,
         bat' = [bat EXCEPT ![b] = p], pc' = [pc EXCEPT ![b] = q],
         OwnTypes', uat' = uat, target' = target, poolLock' = poolLock, joinLock' = joinLock,
         \A a \in Beats \ {b} : bcur'[a] = bcur[a],
         q = "dialling" <=> p = "poolDial",
         q = "using" <=> p \in Borrowed,
         p \in Probing => bcur'[b] # None,
         stopped' \subseteq stopped, p = "gone" => b \notin stopped'
  PROVE  Coupled'
  <1>1. /\ OwnTypes /\ pc \in [Threads -> PoolPlaces] /\ bat \in [Beats -> BeatPlaces]
        /\ \A v \in Users : UserOk(v)
        /\ \A a \in Beats : BeatOk(a)
        /\ stopped \subseteq Alive
    BY CoupledParts DEF OwnTypes
  <1>2. b \in Threads /\ Users \subseteq Threads /\ Beats \subseteq Threads /\ Users \cap Beats = {}
    BY ClientAssumption DEF Threads
  <1>3. pc' \in [Threads -> PoolPlaces] /\ bat'[b] = p /\ pc'[b] = q
    BY <1>1, <1>2
  <1>4. \A v \in Threads \ {b} : pc'[v] = pc[v]
    BY <1>1, <1>2
  <1>5. BeatOk(b)'
    BY <1>3 DEF BeatOk
  <1>6. ASSUME NEW a \in Beats \ {b} PROVE BeatOk(a)'
    <2>1. bat'[a] = bat[a] /\ pc'[a] = pc[a] /\ bcur'[a] = bcur[a]
      BY <1>1, <1>2, <1>4
    <2>2. BeatOk(a)
      BY <1>1
    <2>3. QED
      BY <2>1, <2>2 DEF BeatOk
  <1>7. ASSUME NEW v \in Users PROVE UserOk(v)'
    <2>1. pc'[v] = pc[v]
      BY <1>2, <1>4
    <2>2. UserOk(v)
      BY <1>1
    <2>3. QED
      BY <2>1, <2>2 DEF UserOk
  <1>8. stopped' \subseteq Alive'
    BY <1>1 DEF Alive
  <1>9. QED
    BY <1>3, <1>5, <1>6, <1>7, <1>8, CoupledParts1

-----------------------------------------------------------------------------
(* Types *)

\* The variables of the calls have their types; only they change when a call
\* returns, goes on elsewhere or fails.
CallTypes ==
  /\ uat \in [Users -> UserPlaces]
  /\ job \in [Users -> {"none", "connect", "any", "disconnect", "request"}]
  /\ target \in [Users -> Servers \cup {None}]
  /\ togo \in [Users -> SUBSET Servers]
  /\ left \in [Users -> 0..Retries]
  /\ beat \in [Users -> Beats \cup {None}]

LEMMA DoneTypes ==
  ASSUME CallTypes, NEW u \in Users, Done(u)
  PROVE  CallTypes'
  BY ClientAssumption DEF Done, UserAt, CallTypes, UserPlaces

LEMMA GotoTypes ==
  ASSUME CallTypes, NEW u \in Users, NEW p \in UserPlaces, Goto(u, p)
  PROVE  CallTypes'
  BY DEF Goto, UserAt, CallTypes

LEMMA FailedTypes ==
  ASSUME CallTypes, NEW u \in Users, Failed(u)
  PROVE  CallTypes'
  <1>1. CASE Done(u)
    BY <1>1, DoneTypes
  <1>2. CASE /\ left[u] > 0
             /\ left' = [left EXCEPT ![u] = @ - 1]
             /\ UserAt(u, "known")
             /\ UNCHANGED <<job, target, togo, beat>>
    <2>1. left[u] - 1 \in 0..Retries
      BY <1>2, ClientAssumption DEF CallTypes
    <2>2. QED
      BY <1>2, <2>1 DEF CallTypes, UserAt, UserPlaces
  <1>3. QED
    BY <1>1, <1>2 DEF Failed

\* Steps of a call.
LEMMA UserTypes ==
  ASSUME OwnTypes, NEW u \in Users, Call(u) \/ UserStep(u)
  PROVE  OwnTypes'
  <1>1. CallTypes /\ u \in Users /\ Retries \in Nat
    BY ClientAssumption DEF OwnTypes, CallTypes
  <1>2. ASSUME NEW j \in {"connect", "any", "disconnect", "request"},
               NEW p \in {"dial", "known", "stop", "send"}, Begin(u, j, p),
               target' = target \/ \E s \in Servers : target' = [target EXCEPT ![u] = s],
               left' = left \/ left' = [left EXCEPT ![u] = Retries]
        PROVE  OwnTypes'
    <2>1. target' \in [Users -> Servers \cup {None}] /\ left' \in [Users -> 0..Retries]
      BY <1>1, <1>2 DEF CallTypes
    <2>2. QED
      BY <1>2, <2>1 DEF OwnTypes, Begin, UserAt, UserPlaces, restOfPool, restOfHeart, beatSlots, beatVars
  <1>3. ASSUME Call(u) PROVE OwnTypes'
    BY <1>2, <1>3 DEF Call, Connect, ConnectToAny, Disconnect, Request
  <1>4. ASSUME Known(u) PROVE OwnTypes'
    BY <1>1, <1>4, ClientAssumption
    DEF OwnTypes, CallTypes, UserPlaces, Known, Goto, Done, UserAt, restOfPool, restOfHeart, beatSlots, beatVars
  <1>5. ASSUME Aim(u) PROVE OwnTypes'
    BY <1>1, <1>5, ClientAssumption
    DEF OwnTypes, CallTypes, UserPlaces, Aim, UserAt, restOfPool, restOfHeart, beatSlots, beatVars
  <1>6. ASSUME NextServer(u) PROVE OwnTypes'
    BY <1>1, <1>6, ClientAssumption
    DEF OwnTypes, CallTypes, UserPlaces, NextServer, Goto, Done, UserAt, restOfPool, restOfHeart, beatSlots, beatVars
  <1>7. ASSUME Dial(u) PROVE OwnTypes'
    BY <1>1, <1>7, ClientAssumption
    DEF OwnTypes, CallTypes, UserPlaces, Dial, Goto, Done, UserAt, restOfPool, restOfHeart, beatSlots, beatVars
  <1>8. ASSUME ClearPool(u) PROVE OwnTypes'
    BY <1>1, <1>8, ClientAssumption
    DEF OwnTypes, CallTypes, UserPlaces, ClearPool, Goto, UserAt, restOfPool, restOfHeart, beatSlots, beatVars
  <1>9. ASSUME Deposit(u) PROVE OwnTypes'
    BY <1>1, <1>9, ClientAssumption
    DEF OwnTypes, CallTypes, UserPlaces, Deposit, Goto, UserAt, restOfPool, restOfHeart, beatSlots, beatVars
  <1>10. ASSUME Mark(u) PROVE OwnTypes'
    BY <1>1, <1>10, ClientAssumption
    DEF OwnTypes, CallTypes, UserPlaces, Mark, Goto, UserAt, restOfPool, restOfHeart, beatSlots, beatVars
  <1>11. ASSUME Record(u) PROVE OwnTypes'
    BY <1>1, <1>11, ClientAssumption
    DEF OwnTypes, CallTypes, UserPlaces, Record, Goto, UserAt, restOfPool, restOfHeart, beatSlots, beatVars
  <1>12. ASSUME TakeStop(u) PROVE OwnTypes'
    BY <1>1, <1>12, ClientAssumption
    DEF OwnTypes, CallTypes, UserPlaces, TakeStop, Goto, UserAt, Alive, restOfPool, restOfHeart, beatSlots, beatVars
  <1>13. ASSUME TakeHandle(u) PROVE OwnTypes'
    BY <1>1, <1>13, ClientAssumption
    DEF OwnTypes, CallTypes, UserPlaces, TakeHandle, Goto, UserAt, AfterStop, restOfPool, restOfHeart, beatSlots, beatVars
  <1>14. ASSUME Join(u) PROVE OwnTypes'
    BY <1>1, <1>14, ClientAssumption
    DEF OwnTypes, CallTypes, UserPlaces, Join, UserAt, AfterStop, restOfPool, restOfHeart, beatSlots, beatVars
  <1>15. ASSUME Spawn(u) PROVE OwnTypes'
    <2>1. PICK b \in Beats : BeatAt(b, "wait") /\ beat' = [beat EXCEPT ![u] = b]
      BY <1>15 DEF Spawn, Spare
    <2>2. QED
      BY <1>1, <1>15, <2>1 DEF OwnTypes, UserPlaces, BeatPlaces, Spawn, UserAt, BeatAt, restOfPool, beatSlots
  <1>16. ASSUME KeepStop(u) PROVE OwnTypes'
    BY <1>1, <1>16, ClientAssumption
    DEF OwnTypes, CallTypes, UserPlaces, KeepStop, Goto, UserAt, restOfPool, restOfHeart, beatSlots, beatVars
  <1>17. ASSUME KeepHandle(u) PROVE OwnTypes'
    BY <1>1, <1>17, ClientAssumption
    DEF OwnTypes, CallTypes, UserPlaces, KeepHandle, Goto, UserAt, restOfPool, restOfHeart, beatSlots, beatVars
  <1>18. ASSUME Confirm(u) PROVE OwnTypes'
    BY <1>1, <1>18, ClientAssumption
    DEF OwnTypes, CallTypes, UserPlaces, Confirm, Done, UserAt, restOfPool, restOfHeart, beatSlots, beatVars
  <1>19. ASSUME Close(u) PROVE OwnTypes'
    BY <1>1, <1>19, ClientAssumption
    DEF OwnTypes, CallTypes, UserPlaces, Close, Goto, UserAt, restOfPool, restOfHeart, beatSlots, beatVars
  <1>20. ASSUME Unmark(u) PROVE OwnTypes'
    <2>1. CallTypes'
      BY <1>1, <1>20, DoneTypes DEF Unmark
    <2>2. off' \in BOOLEAN
      BY <1>20, Zenon DEF Unmark
    <2>3. connected' = FALSE /\ UNCHANGED <<up, last, poolLock, beatSlots, stopped, beatVars>>
      BY <1>20 DEF Unmark, restOfPool, restOfHeart
    <2>4. QED
      BY <2>1, <2>2, <2>3 DEF OwnTypes, CallTypes, beatSlots, beatVars
  <1>21. ASSUME Send(u) PROVE OwnTypes'
    BY <1>1, <1>21, ClientAssumption
    DEF OwnTypes, CallTypes, UserPlaces, Send, UserAt, Or, restOfPool, restOfHeart, beatSlots, beatVars
  <1>22. ASSUME Borrow(u) PROVE OwnTypes'
    <2>1. CallTypes'
      BY <1>1, <1>22, GotoTypes, FailedTypes, DoneTypes DEF Borrow, UserPlaces
    <2>2. QED
      BY <1>1, <1>22, <2>1 DEF Borrow, OwnTypes, CallTypes, restOfHeart, beatSlots, beatVars
  <1>23. ASSUME PoolDial(u) PROVE OwnTypes'
    <2>1. CallTypes'
      BY <1>1, <1>23, GotoTypes, FailedTypes, DoneTypes DEF PoolDial, UserPlaces
    <2>2. QED
      BY <1>1, <1>23, <2>1 DEF PoolDial, OwnTypes, CallTypes, restOfHeart, beatSlots, beatVars
  <1>24. ASSUME Answered(u) PROVE OwnTypes'
    <2>1. CallTypes'
      BY <1>1, <1>24, GotoTypes, FailedTypes, DoneTypes DEF Answered, UserPlaces
    <2>2. QED
      BY <1>1, <1>24, <2>1 DEF Answered, OwnTypes, CallTypes, restOfHeart, beatSlots, beatVars
  <1>25. ASSUME Broken(u) PROVE OwnTypes'
    BY <1>1, <1>25, ClientAssumption
    DEF OwnTypes, CallTypes, UserPlaces, Broken, Goto, UserAt, restOfPool, restOfHeart, beatSlots, beatVars
  <1>26. ASSUME HangUp(u) PROVE OwnTypes'
    <2>1. CallTypes'
      BY <1>1, <1>26, GotoTypes, FailedTypes, DoneTypes DEF HangUp, UserPlaces
    <2>2. QED
      BY <1>1, <1>26, <2>1 DEF HangUp, OwnTypes, CallTypes, restOfHeart, beatSlots, beatVars
  <1>27. QED
    BY <1>3, <1>4, <1>5, <1>6, <1>7, <1>8, <1>9, <1>10, <1>11, <1>12, <1>13, <1>14, <1>15, <1>16, <1>17, <1>18, <1>19, <1>20, <1>21, <1>22, <1>23, <1>24, <1>25, <1>26 DEF UserStep

\* Steps of a heartbeat.
LEMMA BeatTypes ==
  ASSUME OwnTypes, NEW b \in Beats, BeatStep(b)
  PROVE  OwnTypes'
  <1>1. ASSUME BeatStops(b) PROVE OwnTypes'
    BY <1>1, ClientAssumption DEF OwnTypes, BeatStops, BeatAt, BeatPlaces, restOfUsers, beatSlots, userVars
  <1>2. ASSUME BeatDue(b) PROVE OwnTypes'
    BY <1>2, ClientAssumption DEF OwnTypes, BeatDue, BeatAt, BeatPlaces, restOfUsers, beatSlots, userVars
  <1>3. ASSUME BeatReads(b) PROVE OwnTypes'
    BY <1>3, ClientAssumption DEF OwnTypes, BeatReads, Or, BeatAt, BeatPlaces, restOfUsers, beatSlots, userVars
  <1>4. ASSUME BeatBorrows(b) PROVE OwnTypes'
    BY <1>4, ClientAssumption DEF OwnTypes, BeatBorrows, Rest, BeatAt, BeatPlaces, restOfUsers, beatSlots, userVars
  <1>5. ASSUME BeatDials(b) PROVE OwnTypes'
    BY <1>5, ClientAssumption DEF OwnTypes, BeatDials, Rest, BeatAt, BeatPlaces, restOfUsers, beatSlots, userVars
  <1>6. ASSUME PingOk(b) PROVE OwnTypes'
    BY <1>6, ClientAssumption DEF OwnTypes, PingOk, Rest, BeatAt, BeatPlaces, restOfUsers, beatSlots, userVars
  <1>7. ASSUME PingFails(b) PROVE OwnTypes'
    BY <1>7, ClientAssumption DEF OwnTypes, PingFails, BeatAt, BeatPlaces, restOfUsers, beatSlots, userVars
  <1>8. ASSUME BeatUnmarks(b) PROVE OwnTypes'
    BY <1>8, ClientAssumption DEF OwnTypes, BeatUnmarks, BeatAt, BeatPlaces, restOfUsers, beatSlots, userVars
  <1>9. ASSUME BeatClears(b) PROVE OwnTypes'
    BY <1>9, ClientAssumption DEF OwnTypes, BeatClears, BeatAt, BeatPlaces, restOfUsers, beatSlots, userVars
  <1>10. ASSUME BeatScans(b) PROVE OwnTypes'
    BY <1>10, ClientAssumption DEF OwnTypes, BeatScans, BeatAt, BeatPlaces, restOfUsers, beatSlots, userVars
  <1>11. ASSUME BeatDeposits(b) PROVE OwnTypes'
    BY <1>11, ClientAssumption DEF OwnTypes, BeatDeposits, BeatAt, BeatPlaces, restOfUsers, beatSlots, userVars
  <1>12. ASSUME BeatRecords(b) PROVE OwnTypes'
    BY <1>12, ClientAssumption DEF OwnTypes, BeatRecords, BeatAt, BeatPlaces, restOfUsers, beatSlots, userVars
  <1>13. ASSUME BeatMarks(b) PROVE OwnTypes'
    BY <1>13, ClientAssumption DEF OwnTypes, BeatMarks, BeatAt, BeatPlaces, restOfUsers, beatSlots, userVars
  <1>14. ASSUME BeatDrops(b) PROVE OwnTypes'
    BY <1>14, ClientAssumption DEF OwnTypes, BeatDrops, Rest, BeatAt, BeatPlaces, restOfUsers, beatSlots, userVars
  <1>15. QED
    BY <1>1, <1>2, <1>3, <1>4, <1>5, <1>6, <1>7, <1>8, <1>9, <1>10, <1>11, <1>12, <1>13, <1>14 DEF BeatStep

LEMMA ToggleTypes ==
  ASSUME OwnTypes, NEW s \in Servers, Toggle(s)
  PROVE  OwnTypes'
  BY DEF OwnTypes, Toggle, beatSlots, beatVars, userVars

-----------------------------------------------------------------------------
(* The coupling of the client with its pool and its locks *)

\* Nobody is in the pool, has a lock or aims at a server to begin with.
LEMMA InitCoupled == Init => Coupled
  <1> SUFFICES ASSUME Init PROVE Coupled
    OBVIOUS
  <1>1. OwnTypes
    <2>1. CallTypes
      BY ClientAssumption DEF Init, CallTypes, UserPlaces
    <2>2. bat \in [Beats -> BeatPlaces] /\ bcur \in [Beats -> Servers \cup {None}] /\ btogo \in [Beats -> SUBSET Servers]
      BY DEF Init, BeatPlaces
    <2>3. QED
      BY <2>1, <2>2 DEF Init, OwnTypes, CallTypes
  <1>2. pc = [t \in Threads |-> "out"]
    BY DEF Init, Pool!Init
  <1>3. QED
    BY <1>1, <1>2, ClientAssumption, CoupledParts
    DEF Init, UserOk, BeatOk, Threads, PoolPlaces, Aiming, Probing, Borrowed

\* A step of a call that neither enters nor leaves the pool or a lock.
Outside == UserPlaces \ {"deposit", "poolDial", "io", "hangUp", "join"}
LEMMA UserWalks ==
  ASSUME Coupled, OwnTypes', NEW u \in Users, uat[u] \in Outside, NEW p \in Outside,
         uat' = [uat EXCEPT ![u] = p], pc' = pc, bat' = bat, bcur' = bcur,
         stopped' \subseteq Alive, poolLock' = poolLock, joinLock' = joinLock,
         \A v \in Users \ {u} : target'[v] = target[v],
         p \in Aiming => target'[u] # None
  PROVE  Coupled'
  <1>1. UserOk(u) /\ pc \in [Threads -> PoolPlaces] /\ u \in Threads
    BY CoupledParts DEF Threads
  <1>2. pc[u] = "out" /\ poolLock # u /\ joinLock # u /\ pc' = [pc EXCEPT ![u] = "out"]
    BY <1>1 DEF UserOk, Outside, PoolPlaces
  <1>3. "out" \in PoolPlaces /\ p \in UserPlaces
    BY DEF PoolPlaces, Outside
  <1>4. p \notin {"deposit", "poolDial", "io", "hangUp", "join"}
    BY DEF Outside
  <1>5. QED
    BY <1>2, <1>3, <1>4, UserMoves

\* Where a call that returns, goes on or fails is then, and whose target changes.
LEMMA WhereCallsGo ==
  ASSUME OwnTypes, NEW u \in Users, NEW p
  PROVE  /\ Done(u) => /\ uat' = [uat EXCEPT ![u] = "idle"]
                       /\ \A v \in Users \ {u} : target'[v] = target[v]
         /\ Goto(u, p) => uat' = [uat EXCEPT ![u] = p] /\ target' = target
         /\ Failed(u) => /\ uat' = [uat EXCEPT ![u] = "idle"] \/ uat' = [uat EXCEPT ![u] = "known"]
                         /\ \A v \in Users \ {u} : target'[v] = target[v]
  BY DEF OwnTypes, Done, Goto, Failed, UserAt

\* Steps of a call that stay outside.
LEMMA WalkCoupled ==
  ASSUME Coupled, NEW u \in Users,
         \/ Call(u) \/ Known(u) \/ Aim(u) \/ NextServer(u) \/ Dial(u) \/ Mark(u) \/ Record(u)
         \/ TakeStop(u) \/ KeepStop(u) \/ KeepHandle(u) \/ Confirm(u) \/ Close(u) \/ Unmark(u) \/ Send(u)
  PROVE  Coupled'
  <1>1. OwnTypes /\ UserOk(u) /\ stopped \subseteq Alive
    BY CoupledParts
  <1>2. OwnTypes'
    BY <1>1, UserTypes DEF UserStep
  <1>3. target \in [Users -> Servers \cup {None}] /\ None \notin Servers /\ Default \in Servers
        /\ last \in Servers \cup {None}
    BY <1>1, ClientAssumption DEF OwnTypes
  <1> DEFINE Still == pc' = pc /\ bat' = bat /\ bcur' = bcur /\ stopped' \subseteq Alive
                      /\ poolLock' = poolLock /\ joinLock' = joinLock
  <1> DEFINE To(p) == /\ p \in Outside /\ uat' = [uat EXCEPT ![u] = p]
                      /\ \A v \in Users \ {u} : target'[v] = target[v]
                      /\ p \in Aiming => target'[u] # None
  <1>4. ASSUME uat[u] \in Outside, Still, NEW p, To(p) PROVE Coupled'
    BY <1>2, <1>4, UserWalks
  <1>5. ASSUME Call(u) PROVE Coupled'
    <2>1. uat[u] \in Outside /\ Still
      BY <1>1, <1>5 DEF Call, Connect, ConnectToAny, Disconnect, Request, Begin, UserAt, Outside, UserPlaces, restOfPool, restOfHeart, poolVars, beatSlots, beatVars
    <2>2. To("dial") \/ To("known") \/ To("stop") \/ To("send")
      BY <1>1, <1>3, <1>5, WhereCallsGo DEF Call, Connect, ConnectToAny, Disconnect, Request, Begin, UserAt, UserOk, Outside, UserPlaces, Aiming
    <2>3. QED
      BY <1>4, <2>1, <2>2
  <1>6. ASSUME Known(u) PROVE Coupled'
    <2>1. uat[u] \in Outside /\ Still
      BY <1>1, <1>6 DEF Known, Outside, UserPlaces, restOfPool, restOfHeart, poolVars, beatSlots, beatVars
    <2>2. To("idle") \/ To("send") \/ To("aim")
      BY <1>1, <1>3, <1>6, WhereCallsGo DEF Known, UserOk, Outside, UserPlaces, Aiming
    <2>3. QED
      BY <1>4, <2>1, <2>2
  <1>7. ASSUME Aim(u) PROVE Coupled'
    <2>1. uat[u] \in Outside /\ Still
      BY <1>1, <1>7 DEF Aim, UserAt, Outside, UserPlaces, restOfPool, restOfHeart, poolVars, beatSlots, beatVars
    <2>2. To("next") \/ To("dial")
      BY <1>1, <1>3, <1>7, WhereCallsGo DEF Aim, UserAt, UserOk, Outside, UserPlaces, Aiming
    <2>3. QED
      BY <1>4, <2>1, <2>2
  <1>8. ASSUME NextServer(u) PROVE Coupled'
    <2>1. uat[u] \in Outside /\ Still
      BY <1>1, <1>8 DEF NextServer, UserAt, Outside, UserPlaces, restOfPool, restOfHeart, poolVars, beatSlots, beatVars
    <2>2. To("idle") \/ To("send") \/ To("dial")
      <3>1. CASE togo[u] = {}
        BY <1>1, <1>8, <3>1, WhereCallsGo DEF NextServer, Outside, UserPlaces, Aiming
      <3>2. CASE togo[u] # {}
        <4>1. PICK s \in togo[u] : UserAt(u, "dial") /\ target' = [target EXCEPT ![u] = s]
          BY <1>8, <3>2 DEF NextServer
        <4>2. s \in Servers
          BY <1>1, <4>1 DEF OwnTypes
        <4>3. target'[u] # None /\ \A v \in Users \ {u} : target'[v] = target[v]
          BY <1>3, <4>1, <4>2
        <4>4. QED
          BY <4>1, <4>3 DEF UserAt, Outside, UserPlaces
      <3>3. QED
        BY <3>1, <3>2
    <2>3. QED
      BY <1>4, <2>1, <2>2
  <1>9. ASSUME Dial(u) PROVE Coupled'
    <2>1. uat[u] \in Outside /\ Still
      BY <1>1, <1>9 DEF Dial, Outside, UserPlaces, restOfPool, restOfHeart, poolVars, beatSlots, beatVars
    <2>2. To("clear") \/ To("idle") \/ To("next")
      BY <1>1, <1>3, <1>9, WhereCallsGo DEF Dial, UserOk, Outside, UserPlaces, Aiming
    <2>3. QED
      BY <1>4, <2>1, <2>2
  <1>10. ASSUME Mark(u) PROVE Coupled'
    <2>1. uat[u] \in Outside /\ Still
      BY <1>1, <1>10 DEF Mark, Outside, UserPlaces, restOfPool, restOfHeart, poolVars, beatSlots, beatVars
    <2>2. To("record")
      BY <1>1, <1>3, <1>10, WhereCallsGo DEF Mark, UserOk, Outside, UserPlaces, Aiming
    <2>3. QED
      BY <1>4, <2>1, <2>2
  <1>11. ASSUME Record(u) PROVE Coupled'
    <2>1. uat[u] \in Outside /\ Still
      BY <1>1, <1>11 DEF Record, Outside, UserPlaces, restOfPool, restOfHeart, poolVars, beatSlots, beatVars
    <2>2. To("stop")
      BY <1>1, <1>3, <1>11, WhereCallsGo DEF Record, UserOk, Outside, UserPlaces, Aiming
    <2>3. QED
      BY <1>4, <2>1, <2>2
  <1>12. ASSUME TakeStop(u) PROVE Coupled'
    <2>1. uat[u] \in Outside /\ Still
      BY <1>1, <1>12 DEF TakeStop, Outside, UserPlaces, restOfPool, restOfHeart, poolVars, beatSlots, beatVars, Alive
    <2>2. To("take")
      BY <1>1, <1>3, <1>12, WhereCallsGo DEF TakeStop, UserOk, Outside, UserPlaces, Aiming
    <2>3. QED
      BY <1>4, <2>1, <2>2
  <1>13. ASSUME KeepStop(u) PROVE Coupled'
    <2>1. uat[u] \in Outside /\ Still
      BY <1>1, <1>13 DEF KeepStop, Outside, UserPlaces, restOfPool, restOfHeart, poolVars, beatSlots, beatVars
    <2>2. To("keepHandle")
      BY <1>1, <1>3, <1>13, WhereCallsGo DEF KeepStop, UserOk, Outside, UserPlaces, Aiming
    <2>3. QED
      BY <1>4, <2>1, <2>2
  <1>14. ASSUME KeepHandle(u) PROVE Coupled'
    <2>1. uat[u] \in Outside /\ Still
      BY <1>1, <1>14 DEF KeepHandle, Outside, UserPlaces, restOfPool, restOfHeart, poolVars, beatSlots, beatVars
    <2>2. To("confirm")
      BY <1>1, <1>3, <1>14, WhereCallsGo DEF KeepHandle, UserOk, Outside, UserPlaces, Aiming
    <2>3. QED
      BY <1>4, <2>1, <2>2
  <1>15. ASSUME Confirm(u) PROVE Coupled'
    <2>1. uat[u] \in Outside /\ Still
      BY <1>1, <1>15 DEF Confirm, UserAt, Outside, UserPlaces, restOfPool, restOfHeart, poolVars, beatSlots, beatVars
    <2>2. To("send") \/ To("idle")
      BY <1>1, <1>3, <1>15, WhereCallsGo DEF Confirm, UserAt, UserOk, Outside, UserPlaces, Aiming
    <2>3. QED
      BY <1>4, <2>1, <2>2
  <1>16. ASSUME Close(u) PROVE Coupled'
    <2>1. uat[u] \in Outside /\ Still
      BY <1>1, <1>16, PoolMoves DEF Close, Outside, UserPlaces, restOfPool, restOfHeart, poolVars, beatSlots, beatVars
    <2>2. To("unmark")
      BY <1>1, <1>3, <1>16, WhereCallsGo DEF Close, UserOk, Outside, UserPlaces, Aiming
    <2>3. QED
      BY <1>4, <2>1, <2>2
  <1>17. ASSUME Unmark(u) PROVE Coupled'
    <2>1. uat[u] \in Outside /\ Still
      BY <1>1, <1>17 DEF Unmark, Outside, UserPlaces, restOfPool, restOfHeart, poolVars, beatSlots, beatVars
    <2>2. To("idle")
      BY <1>1, <1>3, <1>17, WhereCallsGo DEF Unmark, UserOk, Outside, UserPlaces, Aiming
    <2>3. QED
      BY <1>4, <2>1, <2>2
  <1>18. ASSUME Send(u) PROVE Coupled'
    <2>1. uat[u] \in Outside /\ Still
      BY <1>1, <1>18 DEF Send, UserAt, Or, Outside, UserPlaces, restOfPool, restOfHeart, poolVars, beatSlots, beatVars
    <2>2. To("borrow")
      BY <1>1, <1>3, <1>18, WhereCallsGo DEF Send, UserAt, Or, UserOk, Outside, UserPlaces, Aiming
    <2>3. QED
      BY <1>4, <2>1, <2>2
  <1>19. QED
    BY <1>5, <1>6, <1>7, <1>8, <1>9, <1>10, <1>11, <1>12, <1>13, <1>14, <1>15, <1>16, <1>17, <1>18

\* Steps of a call into and out of the pool and the locks, and the one that starts a
\* heartbeat.
LEMMA StepCoupled ==
  ASSUME Coupled, NEW u \in Users, Call(u) \/ UserStep(u)
  PROVE  Coupled'
  <1>1. OwnTypes /\ OwnTypes' /\ UserOk(u) /\ stopped \subseteq Alive /\ pc \in [Threads -> PoolPlaces] /\ u \in Threads
    BY CoupledParts, UserTypes DEF Threads
  <1>2. None \notin Servers /\ None \notin Users /\ {poolLock, joinLock} \subseteq Users \cup {None}
    BY <1>1, ClientAssumption DEF OwnTypes, Threads
  <1>3. UserPlaces = Outside \cup {"deposit", "poolDial", "io", "hangUp", "join"} /\ "out" \in PoolPlaces
    BY DEF UserPlaces, Outside, PoolPlaces
  <1>4. /\ uat[u] \in Outside \cup {"deposit", "join"} => pc[u] = "out"
        /\ uat[u] \notin {"deposit", "poolDial", "io", "hangUp"} => poolLock # u
        /\ uat[u] # "join" => joinLock # u
        /\ pc[u] = "using" <=> uat[u] \in {"io", "hangUp"}
    BY <1>1 DEF UserOk, Outside, PoolPlaces
  <1>5. \A q \in PoolPlaces : pc[u] = q /\ pc' = pc => pc' = [pc EXCEPT ![u] = q]
    BY <1>1
  <1> DEFINE BeatsStay == bat' = bat /\ bcur' = bcur /\ stopped' = stopped
  <1> DEFINE Others == \A v \in Users \ {u} : target'[v] = target[v]
  <1>6. ASSUME ClearPool(u) PROVE Coupled'
    <2>1. /\ uat' = [uat EXCEPT ![u] = "deposit"] /\ pc' = [pc EXCEPT ![u] = "out"] /\ target' = target
          /\ uat[u] = "clear" /\ BeatsStay /\ poolLock = None /\ poolLock' = u /\ joinLock' = joinLock
      BY <1>1, <1>3, <1>4, <1>5, <1>6, PoolMoves DEF ClearPool, Goto, UserAt, restOfHeart, beatSlots, beatVars, Outside, UserPlaces
    <2>2. target'[u] # None /\ joinLock' # u
      BY <1>1, <1>4, <2>1 DEF UserOk, Aiming
    <2>3. QED
      BY <1>1, <1>2, <1>3, <2>1, <2>2, UserMoves
  <1>7. ASSUME Deposit(u) PROVE Coupled'
    <2>1. /\ uat' = [uat EXCEPT ![u] = "mark"] /\ pc' = [pc EXCEPT ![u] = "out"] /\ target' = target
          /\ uat[u] = "deposit" /\ BeatsStay /\ poolLock = u /\ poolLock' = None /\ joinLock' = joinLock
      BY <1>1, <1>3, <1>4, <1>5, <1>7, PoolMoves DEF Deposit, Goto, UserAt, UserOk, restOfHeart, beatSlots, beatVars, Outside, UserPlaces
    <2>2. target'[u] # None /\ joinLock' # u /\ "mark" \in UserPlaces
      BY <1>1, <1>4, <2>1 DEF UserOk, Aiming, UserPlaces
    <2>3. QED
      BY <1>1, <1>2, <1>3, <2>1, <2>2, UserMoves
  <1>8. ASSUME TakeHandle(u) PROVE Coupled'
    <2>1. /\ uat[u] = "take" /\ BeatsStay /\ target' = target /\ poolLock' = poolLock /\ joinLock = None
          /\ pc' = pc /\ pc' = [pc EXCEPT ![u] = "out"] /\ poolLock' # u
      BY <1>1, <1>3, <1>4, <1>5, <1>8 DEF TakeHandle, Goto, restOfPool, poolVars, beatVars, Outside, UserPlaces
    <2>2. CASE handleSlot = None
      <3>1. uat' = [uat EXCEPT ![u] = AfterStop(u)] /\ joinLock' = joinLock
        BY <1>8, <2>2 DEF TakeHandle, Goto, UserAt
      <3>2. uat[u] \in Outside /\ AfterStop(u) \in Outside \ Aiming
        BY <2>1 DEF AfterStop, Outside, UserPlaces, Aiming
      <3>3. QED
        BY <1>1, <2>1, <3>1, <3>2, UserWalks
    <2>3. CASE handleSlot # None
      <3>1. uat' = [uat EXCEPT ![u] = "join"] /\ joinLock' = u
        BY <1>8, <2>3 DEF TakeHandle, UserAt
      <3>2. "join" \in UserPlaces \ Aiming
        BY DEF UserPlaces, Aiming
      <3>3. QED
        BY <1>1, <1>2, <1>3, <2>1, <3>1, <3>2, UserMoves
    <2>4. QED
      BY <2>2, <2>3
  <1>9. ASSUME Join(u) PROVE Coupled'
    <2>1. /\ uat[u] = "join" /\ BeatsStay /\ target' = target /\ poolLock' = poolLock
          /\ joinLock = u /\ joinLock' = None
          /\ pc' = [pc EXCEPT ![u] = "out"] /\ poolLock' # u /\ uat' = [uat EXCEPT ![u] = AfterStop(u)]
      BY <1>1, <1>3, <1>4, <1>5, <1>9 DEF Join, UserAt, UserOk, restOfPool, poolVars, beatVars
    <2>2. AfterStop(u) \in Outside \ Aiming
      BY DEF AfterStop, Outside, UserPlaces, Aiming
    <2>3. QED
      BY <1>1, <1>2, <1>3, <2>1, <2>2, UserMoves DEF Outside
  <1>10. ASSUME Spawn(u) PROVE Coupled'
    <2>1. PICK b \in Beats : bat[b] = "gone" /\ bat' = [bat EXCEPT ![b] = "wait"]
      BY <1>10 DEF Spawn, Spare, BeatAt
    <2>2. /\ uat[u] = "spawn" /\ uat' = [uat EXCEPT ![u] = "keepStop"] /\ target' = target /\ pc' = pc
          /\ bcur' = bcur /\ stopped' = stopped /\ poolLock' = poolLock /\ joinLock' = joinLock
      BY <1>10 DEF Spawn, UserAt, restOfPool, poolVars, beatSlots
    <2>3. ASSUME NEW v \in Users PROVE UserOk(v)'
      <3>1. UserOk(v) /\ uat \in [Users -> UserPlaces]
        BY CoupledParts DEF OwnTypes
      <3>2. QED
        BY <2>2, <3>1 DEF UserOk, Aiming
    <2>4. ASSUME NEW a \in Beats PROVE BeatOk(a)'
      <3>1. BeatOk(a) /\ bat \in [Beats -> BeatPlaces]
        BY CoupledParts DEF OwnTypes
      <3>2. QED
        BY <2>1, <2>2, <3>1 DEF BeatOk, Probing, Borrowed, BeatPlaces
    <2>5. stopped' \subseteq Alive'
      BY <1>1, <2>1, <2>2 DEF Alive, OwnTypes
    <2>6. QED
      BY <1>1, <2>2, <2>3, <2>4, <2>5, CoupledParts1
  <1>11. ASSUME Failed(u), pc' = [pc EXCEPT ![u] = "out"], BeatsStay, joinLock' = joinLock, joinLock # u,
                (poolLock' = poolLock /\ poolLock # u) \/ (poolLock = u /\ poolLock' = None)
         PROVE  Coupled'
    <2>1. PICK p \in {"idle", "known"} : uat' = [uat EXCEPT ![u] = p]
      BY <1>1, <1>11, WhereCallsGo
    <2>2. Others
      BY <1>1, <1>11, WhereCallsGo
    <2>3. p \in UserPlaces \ Aiming
      BY DEF UserPlaces, Aiming
    <2>4. QED
      BY <1>1, <1>2, <1>3, <1>11, <2>1, <2>2, <2>3, UserMoves
  <1>12. ASSUME Borrow(u) PROVE Coupled'
    <2>1. /\ uat[u] = "borrow" /\ poolLock = None /\ BeatsStay /\ joinLock' = joinLock /\ joinLock # u
          /\ pc[u] = "out" /\ target[u] # None
      BY <1>1, <1>4, <1>12 DEF Borrow, restOfHeart, beatSlots, beatVars, Outside, UserPlaces, UserOk, Aiming
    <2>2. CASE Pool!TakeIdle(u, target[u]) /\ poolLock' = u /\ Goto(u, "io")
      <3>1. uat' = [uat EXCEPT ![u] = "io"] /\ target' = target /\ pc' = [pc EXCEPT ![u] = "using"]
        BY <1>1, <2>2, WhereCallsGo, PoolMoves
      <3>2. QED
        BY <1>1, <1>2, <2>1, <2>2, <3>1, UserMoves DEF UserPlaces, PoolPlaces
    <2>3. CASE Pool!ReserveSlot(u, target[u]) /\ poolLock' = u /\ Goto(u, "poolDial")
      <3>1. uat' = [uat EXCEPT ![u] = "poolDial"] /\ target' = target /\ pc' = [pc EXCEPT ![u] = "dialling"]
        BY <1>1, <2>3, WhereCallsGo, PoolMoves
      <3>2. QED
        BY <1>1, <1>2, <2>1, <2>3, <3>1, UserMoves DEF UserPlaces, PoolPlaces
    <2>4. CASE Pool!Exhausted(u, target[u]) /\ poolLock' = poolLock /\ Failed(u)
      <3>1. pc' = [pc EXCEPT ![u] = "out"]
        BY <1>3, <1>5, <2>1, <2>4, PoolMoves
      <3>2. QED
        BY <1>2, <1>11, <2>1, <2>4, <3>1
    <2>5. QED
      BY <1>12, <2>2, <2>3, <2>4 DEF Borrow
  <1>13. ASSUME PoolDial(u) PROVE Coupled'
    <2>1. /\ uat[u] = "poolDial" /\ poolLock = u /\ BeatsStay /\ joinLock' = joinLock /\ joinLock # u
          /\ target[u] # None
      BY <1>1, <1>4, <1>13 DEF PoolDial, restOfHeart, beatSlots, beatVars, UserOk, Aiming
    <2>2. CASE Pool!Dialled(u) /\ Goto(u, "io") /\ poolLock' = poolLock
      <3>1. uat' = [uat EXCEPT ![u] = "io"] /\ target' = target /\ pc' = [pc EXCEPT ![u] = "using"]
        BY <1>1, <2>2, WhereCallsGo, PoolMoves
      <3>2. QED
        BY <1>1, <1>2, <2>1, <2>2, <3>1, UserMoves DEF UserPlaces, PoolPlaces
    <2>3. CASE Pool!DialFailed(u) /\ poolLock' = None /\ Failed(u)
      BY <1>11, <2>1, <2>3, PoolMoves
    <2>4. QED
      BY <1>13, <2>2, <2>3 DEF PoolDial
  <1>14. ASSUME Answered(u) PROVE Coupled'
    <2>1. /\ uat[u] = "io" /\ poolLock = u /\ poolLock' = None /\ BeatsStay /\ joinLock' = joinLock
          /\ joinLock # u /\ pc' = [pc EXCEPT ![u] = "out"]
      BY <1>1, <1>4, <1>14, PoolMoves DEF Answered, restOfHeart, beatSlots, beatVars, UserOk
    <2>2. CASE Done(u)
      <3>1. uat' = [uat EXCEPT ![u] = "idle"] /\ Others
        BY <1>1, <2>2, WhereCallsGo
      <3>2. QED
        BY <1>1, <1>2, <1>3, <2>1, <3>1, UserMoves DEF UserPlaces, Aiming
    <2>3. CASE Failed(u)
      BY <1>11, <2>1, <2>3
    <2>4. QED
      BY <1>14, <2>2, <2>3 DEF Answered
  <1>15. ASSUME Broken(u) PROVE Coupled'
    <2>1. /\ uat[u] = "io" /\ poolLock = u /\ poolLock' = poolLock /\ BeatsStay /\ joinLock' = joinLock
          /\ joinLock # u /\ pc[u] = "using" /\ pc' = pc
          /\ uat' = [uat EXCEPT ![u] = "hangUp"] /\ target' = target
      BY <1>1, <1>4, <1>15, PoolMoves DEF Broken, Goto, UserAt, restOfHeart, beatSlots, beatVars, UserOk
    <2>2. pc' = [pc EXCEPT ![u] = "using"] /\ "using" \in PoolPlaces
      BY <1>5, <2>1 DEF PoolPlaces
    <2>3. QED
      BY <1>1, <1>2, <2>1, <2>2, UserMoves DEF UserPlaces, Aiming
  <1>16. ASSUME HangUp(u) PROVE Coupled'
    <2>1. /\ uat[u] = "hangUp" /\ poolLock = u /\ poolLock' = None /\ BeatsStay /\ joinLock' = joinLock
          /\ joinLock # u /\ pc' = [pc EXCEPT ![u] = "out"] /\ Failed(u)
      BY <1>1, <1>4, <1>16, PoolMoves DEF HangUp, restOfHeart, beatSlots, beatVars, UserOk
    <2>2. QED
      BY <1>11, <2>1
  <1>17. QED
    BY WalkCoupled, <1>6, <1>7, <1>8, <1>9, <1>10, <1>12, <1>13, <1>14, <1>15, <1>16 DEF UserStep

\* Steps of a heartbeat.
LEMMA BeatCoupled ==
  ASSUME Coupled, NEW b \in Beats, BeatStep(b)
  PROVE  Coupled'
  <1>1. /\ OwnTypes /\ OwnTypes' /\ BeatOk(b) /\ stopped \subseteq Alive /\ b \in Threads
        /\ pc \in [Threads -> PoolPlaces] /\ bat \in [Beats -> BeatPlaces] /\ bcur \in [Beats -> Servers \cup {None}]
    BY CoupledParts, BeatTypes DEF Threads, OwnTypes
  <1>2. /\ PoolPlaces = {"out", "dialling", "using"} /\ None \notin Servers /\ Default \in Servers
        /\ last \in Servers \cup {None}
    BY <1>1, ClientAssumption DEF PoolPlaces, OwnTypes
  <1>3. /\ pc[b] = "dialling" <=> bat[b] = "poolDial"
        /\ pc[b] = "using" <=> bat[b] \in Borrowed
        /\ bat[b] \in Probing => bcur[b] # None
    BY <1>1 DEF BeatOk
  <1>4. \A q \in PoolPlaces : pc[b] = q /\ pc' = pc => pc' = [pc EXCEPT ![b] = q]
    BY <1>1
  <1> DEFINE UsersStay == uat' = uat /\ target' = target /\ poolLock' = poolLock /\ joinLock' = joinLock
  <1> DEFINE To(p, q) ==
        /\ p \in BeatPlaces /\ q \in PoolPlaces
        /\ bat' = [bat EXCEPT ![b] = p] /\ pc' = [pc EXCEPT ![b] = q]
        /\ \A a \in Beats \ {b} : bcur'[a] = bcur[a]
        /\ q = "dialling" <=> p = "poolDial"
        /\ q = "using" <=> p \in Borrowed
        /\ p \in Probing => bcur'[b] # None
        /\ p = "gone" => b \notin stopped'
  <1>5. ASSUME UsersStay, stopped' \subseteq stopped, NEW p, NEW q, To(p, q) PROVE Coupled'
    BY <1>1, <1>5, BeatMoves
  <1>6. ASSUME BeatStops(b) PROVE Coupled'
    <2>1. UsersStay /\ stopped' \subseteq stopped
      BY <1>6 DEF BeatStops, restOfUsers, beatSlots, userVars
    <2>2. To("gone", "out")
      BY <1>1, <1>2, <1>3, <1>4, <1>6, PoolMoves DEF BeatStops, BeatAt, poolVars, BeatPlaces, Borrowed, Probing
    <2>3. QED
      BY <1>5, <2>1, <2>2
  <1>7. ASSUME BeatDue(b) PROVE Coupled'
    <2>1. UsersStay /\ stopped' \subseteq stopped
      BY <1>7 DEF BeatDue, restOfUsers, beatSlots, userVars
    <2>2. To("read", "out")
      BY <1>1, <1>2, <1>3, <1>4, <1>7, PoolMoves DEF BeatDue, BeatAt, poolVars, BeatPlaces, Borrowed, Probing
    <2>3. QED
      BY <1>5, <2>1, <2>2
  <1>8. ASSUME BeatReads(b) PROVE Coupled'
    <2>1. UsersStay /\ stopped' \subseteq stopped
      BY <1>8 DEF BeatReads, restOfUsers, beatSlots, userVars
    <2>2. To("borrow", "out")
      BY <1>1, <1>2, <1>3, <1>4, <1>8, PoolMoves DEF BeatReads, Or, BeatAt, poolVars, BeatPlaces, Borrowed, Probing
    <2>3. QED
      BY <1>5, <2>1, <2>2
  <1>9. ASSUME BeatBorrows(b) PROVE Coupled'
    <2>1. UsersStay /\ stopped' \subseteq stopped
      BY <1>9 DEF BeatBorrows, restOfUsers, beatSlots, userVars
    <2>2. To("ping", "using") \/ To("poolDial", "dialling") \/ To("wait", "out")
      BY <1>1, <1>2, <1>3, <1>4, <1>9, PoolMoves DEF BeatBorrows, Rest, BeatAt, poolVars, BeatPlaces, Borrowed, Probing
    <2>3. QED
      BY <1>5, <2>1, <2>2
  <1>10. ASSUME BeatDials(b) PROVE Coupled'
    <2>1. UsersStay /\ stopped' \subseteq stopped
      BY <1>10 DEF BeatDials, restOfUsers, beatSlots, userVars
    <2>2. To("ping", "using") \/ To("wait", "out")
      BY <1>1, <1>2, <1>3, <1>4, <1>10, PoolMoves DEF BeatDials, Rest, BeatAt, poolVars, BeatPlaces, Borrowed, Probing
    <2>3. QED
      BY <1>5, <2>1, <2>2
  <1>11. ASSUME PingOk(b) PROVE Coupled'
    <2>1. UsersStay /\ stopped' \subseteq stopped
      BY <1>11 DEF PingOk, restOfUsers, beatSlots, userVars
    <2>2. To("wait", "out")
      BY <1>1, <1>2, <1>3, <1>4, <1>11, PoolMoves DEF PingOk, Rest, BeatAt, poolVars, BeatPlaces, Borrowed, Probing
    <2>3. QED
      BY <1>5, <2>1, <2>2
  <1>12. ASSUME PingFails(b) PROVE Coupled'
    <2>1. UsersStay /\ stopped' \subseteq stopped
      BY <1>12 DEF PingFails, restOfUsers, beatSlots, userVars
    <2>2. To("unmark", "using")
      BY <1>1, <1>2, <1>3, <1>4, <1>12, PoolMoves DEF PingFails, BeatAt, poolVars, BeatPlaces, Borrowed, Probing
    <2>3. QED
      BY <1>5, <2>1, <2>2
  <1>13. ASSUME BeatUnmarks(b) PROVE Coupled'
    <2>1. UsersStay /\ stopped' \subseteq stopped
      BY <1>13 DEF BeatUnmarks, restOfUsers, beatSlots, userVars
    <2>2. To("clear", "using")
      BY <1>1, <1>2, <1>3, <1>4, <1>13, PoolMoves DEF BeatUnmarks, BeatAt, poolVars, BeatPlaces, Borrowed, Probing
    <2>3. QED
      BY <1>5, <2>1, <2>2
  <1>14. ASSUME BeatClears(b) PROVE Coupled'
    <2>1. UsersStay /\ stopped' \subseteq stopped
      BY <1>14 DEF BeatClears, restOfUsers, beatSlots, userVars
    <2>2. To("scan", "using")
      BY <1>1, <1>2, <1>3, <1>4, <1>14, PoolMoves DEF BeatClears, BeatAt, poolVars, BeatPlaces, Borrowed, Probing
    <2>3. QED
      BY <1>5, <2>1, <2>2
  <1>15. ASSUME BeatScans(b) PROVE Coupled'
    <2>1. UsersStay /\ stopped' \subseteq stopped
      BY <1>15 DEF BeatScans, restOfUsers, beatSlots, userVars
    <2>2. To("drop", "using") \/ To("deposit", "using") \/ To("scan", "using")
      <3>1. bat[b] = "scan" /\ pc' = pc /\ pc[b] = "using" /\ bcur[b] # None
        BY <1>3, <1>15 DEF BeatScans, poolVars, Borrowed, Probing, BeatPlaces
      <3>2. pc' = [pc EXCEPT ![b] = "using"]
        BY <1>2, <1>4, <3>1
      <3>3. CASE bat' = [bat EXCEPT ![b] = "drop"] /\ bcur' = bcur
        BY <1>2, <3>1, <3>2, <3>3 DEF BeatPlaces, Borrowed
      <3>4. CASE bat' = bat /\ bcur' = bcur
        <4>1. bat' = [bat EXCEPT ![b] = "scan"]
          BY <1>1, <3>1, <3>4
        <4>2. QED
          BY <1>2, <3>1, <3>2, <3>4, <4>1 DEF BeatPlaces, Borrowed
      <3>5. ASSUME NEW s \in btogo[b], bat' = [bat EXCEPT ![b] = "deposit"], bcur' = [bcur EXCEPT ![b] = s]
            PROVE  To("deposit", "using")
        <4>1. s # None
          BY <1>1, <1>2, <3>5 DEF OwnTypes
        <4>2. bcur'[b] = s /\ \A a \in Beats \ {b} : bcur'[a] = bcur[a]
          BY <1>1, <3>5
        <4>3. QED
          BY <1>2, <3>1, <3>2, <3>5, <4>1, <4>2 DEF BeatPlaces, Borrowed
      <3>6. \/ bat' = [bat EXCEPT ![b] = "drop"] /\ bcur' = bcur
            \/ bat' = bat /\ bcur' = bcur
            \/ \E s \in btogo[b] : bat' = [bat EXCEPT ![b] = "deposit"] /\ bcur' = [bcur EXCEPT ![b] = s]
        BY <1>15 DEF BeatScans, BeatAt
      <3>7. QED
        BY <3>3, <3>4, <3>5, <3>6
    <2>3. QED
      BY <1>5, <2>1, <2>2
  <1>16. ASSUME BeatDeposits(b) PROVE Coupled'
    <2>1. UsersStay /\ stopped' \subseteq stopped
      BY <1>16 DEF BeatDeposits, restOfUsers, beatSlots, userVars
    <2>2. To("record", "using")
      BY <1>1, <1>2, <1>3, <1>4, <1>16, PoolMoves DEF BeatDeposits, BeatAt, poolVars, BeatPlaces, Borrowed, Probing
    <2>3. QED
      BY <1>5, <2>1, <2>2
  <1>17. ASSUME BeatRecords(b) PROVE Coupled'
    <2>1. UsersStay /\ stopped' \subseteq stopped
      BY <1>17 DEF BeatRecords, restOfUsers, beatSlots, userVars
    <2>2. To("mark", "using")
      BY <1>1, <1>2, <1>3, <1>4, <1>17, PoolMoves DEF BeatRecords, BeatAt, poolVars, BeatPlaces, Borrowed, Probing
    <2>3. QED
      BY <1>5, <2>1, <2>2
  <1>18. ASSUME BeatMarks(b) PROVE Coupled'
    <2>1. UsersStay /\ stopped' \subseteq stopped
      BY <1>18 DEF BeatMarks, restOfUsers, beatSlots, userVars
    <2>2. To("drop", "using")
      BY <1>1, <1>2, <1>3, <1>4, <1>18, PoolMoves DEF BeatMarks, BeatAt, poolVars, BeatPlaces, Borrowed, Probing
    <2>3. QED
      BY <1>5, <2>1, <2>2
  <1>19. ASSUME BeatDrops(b) PROVE Coupled'
    <2>1. UsersStay /\ stopped' \subseteq stopped
      BY <1>19 DEF BeatDrops, restOfUsers, beatSlots, userVars
    <2>2. To("wait", "out")
      BY <1>1, <1>2, <1>3, <1>4, <1>19, PoolMoves DEF BeatDrops, Rest, BeatAt, poolVars, BeatPlaces, Borrowed, Probing
    <2>3. QED
      BY <1>5, <2>1, <2>2
  <1>20. QED
    BY <1>6, <1>7, <1>8, <1>9, <1>10, <1>11, <1>12, <1>13, <1>14, <1>15, <1>16, <1>17, <1>18, <1>19 DEF BeatStep

LEMMA QuietCoupled ==
  ASSUME Coupled, UNCHANGED vars \/ \E s \in Servers : Toggle(s)
  PROVE  Coupled'
  <1>1. /\ uat' = uat /\ pc' = pc /\ target' = target /\ poolLock' = poolLock /\ joinLock' = joinLock
        /\ bat' = bat /\ bcur' = bcur /\ stopped' = stopped
    BY DEF Toggle, vars, poolVars, beatSlots, beatVars, userVars
  <1>2. OwnTypes'
    BY CoupledParts, ToggleTypes DEF vars, OwnTypes, beatSlots, beatVars, userVars
  <1>3. QED
    BY <1>1, <1>2, CoupledParts, CoupledParts1 DEF UserOk, BeatOk, Alive

\* Coupled is an invariant of the client.
THEOREM Coupling == Spec => []Coupled
  <1>1. Coupled /\ [Next]_vars => Coupled'
    BY StepCoupled, BeatCoupled, QuietCoupled DEF Next
  <1>2. QED
    BY <1>1, InitCoupled, PTL DEF Spec

-----------------------------------------------------------------------------
(* The client implements the pool's specification *)

\* A thread that borrows does so for a server; it and its connection are the pool's.
LEMMA UserPoolStep ==
  ASSUME Coupled, NEW u \in Users, Call(u) \/ UserStep(u)
  PROVE  Pool!Next \/ UNCHANGED poolVars
  <1>1. u \in Threads /\ target \in [Users -> Servers \cup {None}]
    BY CoupledParts DEF Threads, OwnTypes
  <1>2. uat[u] \in Aiming => target[u] \in Servers
    BY <1>1, CoupledParts DEF UserOk
  <1>3. CASE Call(u)
    BY <1>3 DEF Call, Connect, ConnectToAny, Disconnect, Request, Begin, restOfPool
  <1>4. CASE \/ Known(u) \/ Aim(u) \/ NextServer(u) \/ Dial(u) \/ Mark(u) \/ Record(u)
             \/ TakeStop(u) \/ TakeHandle(u) \/ Join(u) \/ Spawn(u) \/ KeepStop(u) \/ KeepHandle(u)
             \/ Confirm(u) \/ Unmark(u) \/ Send(u)
    BY <1>4 DEF Known, Aim, NextServer, Dial, Mark, Record, TakeStop, TakeHandle, Join, Spawn, KeepStop,
                KeepHandle, Confirm, Unmark, Send, restOfPool
  <1>5. CASE ClearPool(u) \/ Close(u)
    BY <1>5 DEF ClearPool, Close, Pool!Next
  <1>6. CASE Deposit(u)
    <2>1. target[u] \in Servers /\ Pool!Push(target[u])
      BY <1>2, <1>6 DEF Deposit, UserOk, Aiming
    <2>2. QED
      BY <2>1 DEF Pool!Next
  <1>7. CASE Borrow(u)
    <2>1. target[u] \in Servers /\ Pool!Borrow(u, target[u])
      BY <1>2, <1>7 DEF Borrow, Aiming, Pool!Borrow
    <2>2. QED
      BY <1>1, <2>1 DEF Pool!Next
  <1>8. CASE PoolDial(u)
    BY <1>1, <1>8 DEF PoolDial, Pool!Next
  <1>9. CASE Answered(u) \/ HangUp(u)
    BY <1>1, <1>9 DEF Answered, HangUp, Pool!Next
  <1>10. CASE Broken(u)
    BY <1>1, <1>10 DEF Broken, Pool!Next
  <1>11. QED
    BY <1>3, <1>4, <1>5, <1>6, <1>7, <1>8, <1>9, <1>10 DEF UserStep

LEMMA BeatPoolStep ==
  ASSUME Coupled, NEW b \in Beats, BeatStep(b)
  PROVE  Pool!Next \/ UNCHANGED poolVars
  <1>1. b \in Threads /\ bcur \in [Beats -> Servers \cup {None}]
    BY CoupledParts DEF Threads, OwnTypes
  <1>2. bat[b] \in Probing => bcur[b] \in Servers
    BY <1>1, CoupledParts DEF BeatOk
  <1>3. CASE \/ BeatStops(b) \/ BeatDue(b) \/ BeatReads(b) \/ BeatUnmarks(b) \/ BeatScans(b)
             \/ BeatRecords(b) \/ BeatMarks(b)
    BY <1>3 DEF BeatStops, BeatDue, BeatReads, BeatUnmarks, BeatScans, BeatRecords, BeatMarks
  <1>4. CASE BeatBorrows(b)
    <2>1. bcur[b] \in Servers /\ Pool!TryBorrow(b, bcur[b])
      BY <1>2, <1>4 DEF BeatBorrows, Probing, BeatPlaces, Pool!TryBorrow
    <2>2. QED
      BY <1>1, <2>1 DEF Pool!Next
  <1>5. CASE BeatDials(b)
    BY <1>1, <1>5 DEF BeatDials, Pool!Next
  <1>6. CASE PingOk(b) \/ BeatDrops(b)
    BY <1>1, <1>6 DEF PingOk, BeatDrops, Pool!Next
  <1>7. CASE PingFails(b)
    BY <1>1, <1>7 DEF PingFails, Pool!Next
  <1>8. CASE BeatClears(b)
    BY <1>8 DEF BeatClears, Pool!Next
  <1>9. CASE BeatDeposits(b)
    <2>1. bcur[b] \in Servers /\ Pool!Push(bcur[b])
      BY <1>2, <1>9 DEF BeatDeposits, Probing, BeatPlaces
    <2>2. QED
      BY <2>1 DEF Pool!Next
  <1>10. QED
    BY <1>3, <1>4, <1>5, <1>6, <1>7, <1>8, <1>9 DEF BeatStep

\* Every step of the client is a step of ConnectionPool or leaves the pool alone, so
\* its threads borrow, dial, return, push and close only as the pool's specification
\* lets threads do (src/src/net/client.rs over src/src/net/pool.rs).
LEMMA ImplementsPool == Spec => PoolSpec
  <1>1. Init => Pool!Init
    BY DEF Init
  <1>2. Coupled /\ [Next]_vars => [Pool!Next]_(Pool!vars)
    <2>1. ASSUME Coupled, Next PROVE Pool!Next \/ UNCHANGED poolVars
      BY <2>1, UserPoolStep, BeatPoolStep DEF Next, Toggle
    <2>2. QED
      BY <2>1 DEF vars, poolVars, Pool!vars
  <1>3. QED
    BY <1>1, <1>2, Coupling, PTL DEF Spec, PoolSpec, Pool!Spec

-----------------------------------------------------------------------------
(* What is proved of the pool, in the client *)

\* The threads and the connections of the client are as the pool assumes.
LEMMA PoolConstants ==
  /\ PoolFacts!IsFiniteSet(Threads) /\ PoolFacts!IsFiniteSet(PoolFacts!Conns)
  /\ None \notin PoolFacts!Conns /\ None \notin Servers
  /\ MaxSize \in Nat /\ MaxTotal \in Nat
  <1>1. IsFiniteSet(Threads) /\ IsFiniteSet(PoolFacts!Conns)
    BY ClientAssumption, FS_Union DEF Threads, PoolFacts!Conns
  <1>2. PoolFacts!IsFiniteSet(Threads) /\ PoolFacts!IsFiniteSet(PoolFacts!Conns)
    BY <1>1 DEF IsFiniteSet, PoolFacts!IsFiniteSet
  <1>3. QED
    BY <1>2, ClientAssumption DEF PoolFacts!Conns

\* The pool that the client uses is the pool of the theorems.
LEMMA SameNext == Pool!Next => PoolFacts!Next
  <1>1. \A S : Pool!Cardinality(S) = PoolFacts!Cardinality(S)
    BY DEF Pool!Cardinality, PoolFacts!Cardinality
  <1>2. \A a, b : Pool!SatSub(a, b) = PoolFacts!SatSub(a, b)
    BY DEF Pool!SatSub, PoolFacts!SatSub
  <1>3. /\ Pool!Fresh = PoolFacts!Fresh
        /\ \A s : Pool!Matching(s) = PoolFacts!Matching(s)
    BY DEF Pool!Fresh, PoolFacts!Fresh, Pool!Conns, PoolFacts!Conns, Pool!Held, PoolFacts!Held,
           Pool!Matching, PoolFacts!Matching
  <1>4. \A s : Pool!TotalKept(s) = PoolFacts!TotalKept(s)
    BY <1>1, <1>2, <1>3 DEF Pool!TotalKept, PoolFacts!TotalKept
  <1>5. ASSUME NEW t, NEW s, Pool!Borrow(t, s) \/ Pool!TryBorrow(t, s) PROVE PoolFacts!Borrow(t, s)
    <2>1. Pool!TakeIdle(t, s) => PoolFacts!TakeIdle(t, s)
      BY <1>3, <1>4 DEF Pool!TakeIdle, PoolFacts!TakeIdle
    <2>2. Pool!ReserveSlot(t, s) => PoolFacts!ReserveSlot(t, s)
      BY <1>3, <1>4 DEF Pool!ReserveSlot, PoolFacts!ReserveSlot
    <2>3. Pool!Exhausted(t, s) => PoolFacts!Exhausted(t, s)
      BY <1>3, <1>4 DEF Pool!Exhausted, PoolFacts!Exhausted, Pool!Refuses, PoolFacts!Refuses
    <2>4. QED
      BY <1>5, <2>1, <2>2, <2>3 DEF Pool!Borrow, Pool!TryBorrow, PoolFacts!Borrow
  <1>6. ASSUME NEW t PROVE /\ Pool!Dialled(t) => PoolFacts!Dialled(t)
                           /\ Pool!DialFailed(t) => PoolFacts!DialFailed(t)
                           /\ Pool!IoError(t) => PoolFacts!IoError(t)
    BY <1>2, <1>3 DEF Pool!Dialled, PoolFacts!Dialled, Pool!DialFailed, PoolFacts!DialFailed,
                      Pool!IoError, PoolFacts!IoError
  <1>7. ASSUME NEW t, Pool!Return(t) PROVE PoolFacts!Return(t)
    <2>1. Pool!LetGo(t) => PoolFacts!LetGo(t)
      BY <1>2 DEF Pool!LetGo, PoolFacts!LetGo
    <2>2. \A ok : Pool!Parks(t, ok) <=> PoolFacts!Parks(t, ok)
      BY <1>1 DEF Pool!Parks, PoolFacts!Parks
    <2>3. QED
      BY <1>2, <1>7, <2>1, <2>2 DEF Pool!Return, PoolFacts!Return
  <1>8. ASSUME NEW s, Pool!Push(s) PROVE PoolFacts!Push(s)
    BY <1>3, <1>8 DEF Pool!Push, PoolFacts!Push
  <1>9. Pool!CloseAll => PoolFacts!CloseAll
    BY <1>1, <1>2 DEF Pool!CloseAll, PoolFacts!CloseAll
  <1>10. QED
    BY <1>5, <1>6, <1>7, <1>8, <1>9 DEF Pool!Next, PoolFacts!Next

LEMMA SamePool == PoolSpec => PoolFacts!Spec
  <1>1. Pool!Init => PoolFacts!Init
    BY DEF Pool!Init, PoolFacts!Init
  <1>2. [Pool!Next]_(Pool!vars) => [PoolFacts!Next]_(PoolFacts!vars)
    BY SameNext DEF Pool!vars, PoolFacts!vars
  <1>3. QED
    BY <1>1, <1>2, PTL DEF PoolSpec, Pool!Spec, PoolFacts!Spec

LEMMA PoolInvariant == Spec => []PoolFacts!IInv
  <1>1. PoolFacts!Spec => []PoolFacts!IInv
    BY PoolConstants, PoolFacts!Inductive
  <1>2. QED
    BY <1>1, SamePool, ImplementsPool, PTL

\* What holds of the pool wherever its specification does, said of the client's pool.
LEMMA PoolInv ==
  ASSUME PoolFacts!IInv
  PROVE  Pool!TypeOK /\ Pool!Accounting /\ Pool!ServerMatch /\ Pool!IdleHealthy
  <1>1. Pool!TypeOK
    BY DEF PoolFacts!IInv, PoolFacts!TypeOK, Pool!TypeOK, PoolFacts!Conns, Pool!Conns
  <1>2. Pool!Accounting
    <2>1. \A S : Pool!Cardinality(S) = PoolFacts!Cardinality(S)
      BY DEF Pool!Cardinality, PoolFacts!Cardinality
    <2>2. QED
      BY <2>1 DEF PoolFacts!IInv, PoolFacts!Accounting, Pool!Accounting, PoolFacts!Busy, Pool!Busy
  <1>3. Pool!ServerMatch
    BY DEF PoolFacts!IInv, PoolFacts!ServerMatch, Pool!ServerMatch
  <1>4. Pool!IdleHealthy
    BY DEF PoolFacts!IInv, PoolFacts!TypeOK, PoolFacts!GuardsOwn, PoolFacts!BrokenInUse, PoolFacts!Held, Pool!IdleHealthy
  <1>5. QED
    BY <1>1, <1>2, <1>3, <1>4

\* Every variable of the client keeps its type.
THEOREM TypeCorrect == Spec => []TypeOK
  <1>1. PoolFacts!IInv /\ Coupled => TypeOK
    BY PoolInv DEF Coupled, TypeOK
  <1>2. QED
    BY <1>1, PoolInvariant, Coupling, PTL

\* In the client, whatever its callers and heartbeats do at once: the pool's counters
\* are exact, no guard has a connection to another server than its borrower read from
\* last_server, and no connection with a failed send or recv is lent again.
THEOREM PoolStaysSound == Spec => [](Pool!Accounting /\ Pool!ServerMatch /\ Pool!IdleHealthy)
  <1>1. PoolFacts!IInv => Pool!Accounting /\ Pool!ServerMatch /\ Pool!IdleHealthy
    BY PoolInv
  <1>2. QED
    BY <1>1, PoolInvariant, PTL

\* While nobody holds the client's pool mutex only live heartbeats have a slot.
LEMMA OnlyBeatsBorrow ==
  ASSUME Coupled, Pool!Accounting, poolLock = None
  PROVE  /\ Pool!Busy \subseteq Alive
         /\ active \in Nat /\ active <= Cardinality(Alive)
         /\ Cardinality(Alive) \in Nat /\ Cardinality(Alive) <= Cardinality(Beats) /\ Cardinality(Beats) \in Nat
  <1>1. ASSUME NEW t \in Pool!Busy PROVE t \in Alive
    <2>1. t \in Threads /\ pc[t] \in {"dialling", "using"}
      BY CoupledParts DEF Pool!Busy, PoolPlaces
    <2>2. ASSUME t \in Users PROVE FALSE
      <3>1. poolLock = t /\ t # None
        BY <2>1, <2>2, CoupledParts, ClientAssumption DEF UserOk, Threads
      <3>2. QED
        BY <3>1
    <2>3. t \in Beats /\ bat[t] # "gone"
      BY <2>1, <2>2, CoupledParts DEF BeatOk, Threads, Borrowed
    <2>4. QED
      BY <2>3 DEF Alive
  <1>2. IsFiniteSet(Beats) /\ Alive \subseteq Beats /\ Pool!Busy \subseteq Alive
    BY <1>1, ClientAssumption DEF Alive
  <1>3. /\ IsFiniteSet(Alive) /\ Cardinality(Alive) <= Cardinality(Beats)
        /\ Cardinality(Pool!Busy) <= Cardinality(Alive)
        /\ Cardinality(Beats) \in Nat /\ Cardinality(Alive) \in Nat /\ Cardinality(Pool!Busy) \in Nat
    BY <1>2, FS_Subset, FS_CardinalityType
  <1>4. active = Cardinality(Pool!Busy)
    <2>1. \A S : Pool!Cardinality(S) = Cardinality(S)
      BY DEF Pool!Cardinality, Cardinality
    <2>2. QED
      BY <2>1 DEF Pool!Accounting
  <1>5. QED
    BY <1>2, <1>3, <1>4

\* The pool refuses nobody while it has a slot that nobody occupies.
LEMMA RefusalTakesSlots ==
  ASSUME PoolFacts!IInv, NEW s \in Servers, Pool!Refuses(s)
  PROVE  active >= MaxSize
  <1>1. \A S : Pool!Cardinality(S) = PoolFacts!Cardinality(S)
    BY DEF Pool!Cardinality, PoolFacts!Cardinality
  <1>2. Pool!Matching(s) = PoolFacts!Matching(s) /\ Pool!TotalKept(s) = PoolFacts!TotalKept(s)
    BY <1>1 DEF Pool!Matching, PoolFacts!Matching, Pool!TotalKept, PoolFacts!TotalKept, Pool!SatSub, PoolFacts!SatSub
  <1>3. PoolFacts!Refuses(s)
    BY <1>2 DEF Pool!Refuses, PoolFacts!Refuses
  <1>4. PoolFacts!Cardinality(PoolFacts!Busy) >= MaxSize
    BY <1>3, PoolConstants, PoolFacts!RefusalIsReal
  <1>5. QED
    BY <1>4 DEF PoolFacts!IInv, PoolFacts!Accounting

\* While fewer heartbeats can live than the pool has slots no request is answered
\* POOL_EXHAUSTED, however many threads call.
THEOREM RequestsFindRoom ==
  ASSUME Cardinality(Beats) < MaxSize
  PROVE  Spec => []RoomForRequests
  <1>1. ASSUME PoolFacts!IInv, Coupled PROVE RoomForRequests
    <2>1. ASSUME NEW u \in Users, uat[u] = "borrow", poolLock = None PROVE ~Pool!Refuses(target[u])
      <3>1. target[u] \in Servers
        BY <1>1, <2>1, CoupledParts DEF UserOk, Aiming, OwnTypes
      <3>2. active < MaxSize
        BY <1>1, <2>1, PoolInv, OnlyBeatsBorrow, ClientAssumption
      <3>3. QED
        BY <1>1, <3>1, <3>2, RefusalTakesSlots, OnlyBeatsBorrow, PoolInv, <2>1, ClientAssumption
    <2>2. QED
      BY <2>1 DEF RoomForRequests
  <1>2. QED
    BY <1>1, PoolInvariant, Coupling, PTL

-----------------------------------------------------------------------------
(* With one caller: the heartbeat and its slots *)

\* HeartbeatInSlots for the caller, and what is left after disconnect.
Slots(u) ==
  /\ uat[u] \notin Replacing =>
       /\ stopSlot = handleSlot /\ Alive = {handleSlot} \ {None} /\ stopped = {}
       /\ connected => handleSlot # None \/ uat[u] \in {"record", "stop"}
  /\ uat[u] \in Replacing \ {"keepHandle", "confirm"} => stopSlot = None
  /\ uat[u] \in Replacing \ {"take", "confirm"} => handleSlot = None
  /\ uat[u] = "take" => Alive \subseteq {handleSlot} /\ Alive \subseteq stopped
  /\ uat[u] = "join" => Alive \subseteq {beat[u]} /\ Alive \subseteq stopped
  /\ uat[u] \in {"spawn", "close", "unmark"} => Alive = {}
  /\ uat[u] \in {"keepStop", "keepHandle", "confirm"} => Alive = {beat[u]} /\ stopped = {}
  /\ uat[u] \in {"keepHandle", "confirm"} => stopSlot = beat[u]
  /\ uat[u] = "confirm" => handleSlot = beat[u]
  /\ uat[u] = "unmark" => idle = {}
  /\ off => uat[u] = "idle"
NothingLeft == off => ~connected /\ Alive = {} /\ idle = {}
SlotsInv(u) == Coupled /\ Slots(u) /\ NothingLeft

LEMMA SlotsOfOne ==
  ASSUME NEW u, Users = {u}
  PROVE  HeartbeatInSlots <=> Slots(u)
  BY DEF HeartbeatInSlots, Slots

\* To begin with there is no heartbeat and no slot holds one.
LEMMA InitSlots ==
  ASSUME NEW u \in Users, Init
  PROVE  SlotsInv(u)
  <1>1. Alive = {} /\ uat[u] = "idle" /\ ~off
    BY DEF Init, Alive
  <1>2. QED
    BY <1>1, InitCoupled DEF Init, SlotsInv, Slots, NothingLeft, Replacing

\* Which heartbeats live after a step.
LEMMA AliveOf ==
  ASSUME OwnTypes
  PROVE  /\ bat' = bat => Alive' = Alive
         /\ \A b \in Beats, p \in BeatPlaces :
              bat' = [bat EXCEPT ![b] = p] =>
                Alive' = IF p = "gone" THEN Alive \ {b} ELSE Alive \cup {b}
  BY DEF OwnTypes, Alive

\* A step of the call outside stop_heartbeat and start_heartbeat.
LEMMA SlotsKept ==
  ASSUME NEW u \in Users, SlotsInv(u), Coupled', uat[u] \notin Replacing, uat'[u] \notin Replacing,
         UNCHANGED <<bat, stopSlot, handleSlot, stopped>>,
         connected' => uat'[u] \in {"record", "stop"} \/ (connected /\ uat[u] \notin {"record", "stop"}),
         off' = FALSE
  PROVE  SlotsInv(u)'
  <1>1. Alive' = Alive
    BY AliveOf, CoupledParts DEF SlotsInv
  <1>2. stopSlot = handleSlot /\ Alive = {handleSlot} \ {None} /\ stopped = {}
        /\ (connected => handleSlot # None \/ uat[u] \in {"record", "stop"})
    BY DEF SlotsInv, Slots
  <1>3. uat'[u] \notin {"take", "join", "spawn", "keepStop", "keepHandle", "confirm", "close", "unmark"}
    BY DEF Replacing
  <1>4. Slots(u)'
    BY <1>1, <1>2, <1>3 DEF Slots, Replacing
  <1>5. QED
    BY <1>4 DEF SlotsInv, NothingLeft

\* A step of a heartbeat that lives on.
LEMMA BeatKeepsSlots ==
  ASSUME NEW u \in Users, SlotsInv(u), Coupled', NEW b \in Alive, Alive' = Alive, stopped' = stopped,
         UNCHANGED <<uat, beat, stopSlot, handleSlot, off>>
  PROVE  SlotsInv(u)'
  <1>1. Alive # {} /\ b # None /\ b \in Beats
    BY ClientAssumption DEF Alive, Threads
  <1>2. ~off
    BY <1>1 DEF SlotsInv, NothingLeft
  <1>3. uat[u] \notin {"spawn", "close", "unmark"}
    BY <1>1 DEF SlotsInv, Slots
  <1>4. uat[u] \notin Replacing => handleSlot # None
    BY <1>1 DEF SlotsInv, Slots
  <1>5. Slots(u)'
    BY <1>2, <1>3, <1>4 DEF SlotsInv, Slots, Replacing
  <1>6. QED
    BY <1>2, <1>5 DEF SlotsInv, NothingLeft

\* A heartbeat that sees its stop flag was told to stop by the call that waits for it.
LEMMA BeatLeavesSlots ==
  ASSUME NEW u \in Users, SlotsInv(u), Coupled', NEW b \in Beats, BeatStops(b)
  PROVE  SlotsInv(u)'
  <1>1. /\ b \in stopped /\ stopped' = stopped \ {b} /\ bat' = [bat EXCEPT ![b] = "gone"] /\ bat[b] = "wait"
        /\ UNCHANGED <<uat, beat, stopSlot, handleSlot, off, connected, idle>>
    BY DEF BeatStops, BeatAt, restOfUsers, beatSlots, userVars, poolVars
  <1>2. b \in Alive /\ Alive' = Alive \ {b}
    BY <1>1, AliveOf, CoupledParts DEF SlotsInv, Alive, BeatPlaces
  <1>3. uat[u] \in {"take", "join"} /\ ~off
    BY <1>1, <1>2 DEF SlotsInv, Slots, NothingLeft, Replacing
  <1>4. Slots(u)'
    BY <1>1, <1>2, <1>3 DEF SlotsInv, Slots, Replacing
  <1>5. QED
    BY <1>1, <1>3, <1>4 DEF SlotsInv, NothingLeft

LEMMA BeatSlots ==
  ASSUME NEW u \in Users, SlotsInv(u), NEW b \in Beats, BeatStep(b)
  PROVE  SlotsInv(u)'
  <1>1. Coupled' /\ OwnTypes
    BY BeatCoupled, CoupledParts DEF SlotsInv
  <1>2. CASE BeatStops(b)
    BY <1>1, <1>2, BeatLeavesSlots
  <1>3. CASE ~BeatStops(b)
    <2>1. /\ bat[b] # "gone" /\ stopped' = stopped /\ UNCHANGED <<uat, beat, stopSlot, handleSlot, off>>
          /\ \E p \in BeatPlaces \ {"gone"} : bat' = [bat EXCEPT ![b] = p]
      <3>1. bat = [bat EXCEPT ![b] = bat[b]]
        BY <1>1 DEF OwnTypes
      <3>2. CASE BeatDue(b) \/ BeatReads(b) \/ PingFails(b) \/ BeatUnmarks(b) \/ BeatClears(b)
                 \/ BeatDeposits(b) \/ BeatRecords(b) \/ BeatMarks(b)
        BY <3>2 DEF BeatDue, BeatReads, PingFails, BeatUnmarks, BeatClears, BeatDeposits, BeatRecords, BeatMarks,
                    BeatAt, BeatPlaces, restOfUsers, beatSlots, userVars
      <3>3. CASE BeatBorrows(b) \/ BeatDials(b) \/ PingOk(b) \/ BeatDrops(b)
        BY <3>3 DEF BeatBorrows, BeatDials, PingOk, BeatDrops, Rest, BeatAt, BeatPlaces, restOfUsers, beatSlots, userVars
      <3>4. CASE BeatScans(b)
        <4>1. bat[b] = "scan" /\ stopped' = stopped /\ UNCHANGED <<uat, beat, stopSlot, handleSlot, off>>
          BY <3>4 DEF BeatScans, restOfUsers, beatSlots, userVars
        <4>2. \/ bat' = bat
              \/ \E p \in {"drop", "deposit"} : bat' = [bat EXCEPT ![b] = p]
          BY <3>4 DEF BeatScans, BeatAt
        <4>3. QED
          BY <3>1, <4>1, <4>2 DEF BeatPlaces
      <3>5. QED
        BY <1>3, <3>2, <3>3, <3>4 DEF BeatStep
    <2>2. b \in Alive /\ Alive' = Alive
      <3>1. b \in Alive
        BY <2>1 DEF Alive
      <3>2. Alive' = Alive \cup {b}
        BY <1>1, <2>1, AliveOf
      <3>3. QED
        BY <3>1, <3>2
    <2>3. QED
      BY <1>1, <2>1, <2>2, BeatKeepsSlots
  <1>4. QED
    BY <1>2, <1>3

\* Calls and their steps outside stop_heartbeat and start_heartbeat.
LEMMA UserSlotsOutside ==
  ASSUME NEW u \in Users, SlotsInv(u),
         \/ Call(u) \/ Known(u) \/ Aim(u) \/ NextServer(u) \/ Dial(u) \/ ClearPool(u) \/ Deposit(u)
         \/ Mark(u) \/ Record(u) \/ Send(u) \/ Borrow(u) \/ PoolDial(u) \/ Answered(u) \/ Broken(u) \/ HangUp(u)
  PROVE  SlotsInv(u)'
  <1>1. Coupled' /\ OwnTypes /\ uat \in [Users -> UserPlaces]
    BY StepCoupled, CoupledParts DEF SlotsInv, UserStep, OwnTypes
  <1>2. off => uat[u] = "idle"
    BY DEF SlotsInv, Slots
  <1> DEFINE Beatless == UNCHANGED <<bat, stopSlot, handleSlot, stopped>>
  <1>3. ASSUME Beatless, NEW p, p \notin Replacing, uat' = [uat EXCEPT ![u] = p],
               uat[u] \notin Replacing \cup {"idle"}, off' = off,
               connected' => p \in {"record", "stop"} \/ (connected /\ uat[u] \notin {"record", "stop"})
        PROVE  SlotsInv(u)'
    <2>1. uat'[u] = p
      BY <1>1, <1>3
    <2>2. off' = FALSE
      BY <1>1, <1>2, <1>3 DEF OwnTypes
    <2>3. QED
      BY <1>1, <1>3, <2>1, <2>2, SlotsKept
  <1>4. ASSUME Call(u) PROVE SlotsInv(u)'
    <2>1. /\ Beatless /\ connected' = connected /\ off' = FALSE /\ uat[u] = "idle"
      BY <1>4 DEF Call, Connect, ConnectToAny, Disconnect, Request, Begin, UserAt, restOfHeart, beatSlots, beatVars
    <2>2. PICK p \in {"dial", "known", "stop", "send"} : uat' = [uat EXCEPT ![u] = p]
      BY <1>4 DEF Call, Connect, ConnectToAny, Disconnect, Request, Begin, UserAt
    <2>3. uat'[u] = p
      BY <1>1, <2>2
    <2>4. QED
      BY <1>1, <2>1, <2>2, <2>3, SlotsKept DEF Replacing
  <1>5. ASSUME Known(u) PROVE SlotsInv(u)'
    <2>1. Beatless /\ connected' = connected /\ off' = off /\ uat[u] \notin Replacing \cup {"idle", "stop", "record"}
      BY <1>5 DEF Known, Replacing, restOfHeart, beatSlots, beatVars
    <2>2. PICK p \in {"idle", "send", "aim"} : uat' = [uat EXCEPT ![u] = p]
      BY <1>1, <1>5, WhereCallsGo DEF Known, UserAt
    <2>3. p \notin Replacing
      BY <2>2 DEF Replacing
    <2>4. connected' => connected /\ uat[u] \notin {"record", "stop"}
      BY <2>1
    <2>5. QED
      BY <1>3, <2>1, <2>2, <2>3, <2>4
  <1>6. ASSUME Aim(u) PROVE SlotsInv(u)'
    <2>1. Beatless /\ connected' = connected /\ off' = off /\ uat[u] \notin Replacing \cup {"idle", "stop", "record"}
      BY <1>6 DEF Aim, Replacing, restOfHeart, beatSlots, beatVars
    <2>2. PICK p \in {"next", "dial"} : uat' = [uat EXCEPT ![u] = p]
      BY <1>1, <1>6, WhereCallsGo DEF Aim, UserAt
    <2>3. p \notin Replacing
      BY <2>2 DEF Replacing
    <2>4. connected' => connected /\ uat[u] \notin {"record", "stop"}
      BY <2>1
    <2>5. QED
      BY <1>3, <2>1, <2>2, <2>3, <2>4
  <1>7. ASSUME NextServer(u) PROVE SlotsInv(u)'
    <2>1. Beatless /\ connected' = connected /\ off' = off /\ uat[u] \notin Replacing \cup {"idle", "stop", "record"}
      BY <1>7 DEF NextServer, Replacing, restOfHeart, beatSlots, beatVars
    <2>2. PICK p \in {"idle", "send", "dial"} : uat' = [uat EXCEPT ![u] = p]
      BY <1>1, <1>7, WhereCallsGo DEF NextServer, UserAt
    <2>3. p \notin Replacing
      BY <2>2 DEF Replacing
    <2>4. connected' => connected /\ uat[u] \notin {"record", "stop"}
      BY <2>1
    <2>5. QED
      BY <1>3, <2>1, <2>2, <2>3, <2>4
  <1>8. ASSUME Dial(u) PROVE SlotsInv(u)'
    <2>1. Beatless /\ connected' = connected /\ off' = off /\ uat[u] \notin Replacing \cup {"idle", "stop", "record"}
      BY <1>8 DEF Dial, Replacing, restOfHeart, beatSlots, beatVars
    <2>2. PICK p \in {"clear", "idle", "next"} : uat' = [uat EXCEPT ![u] = p]
      BY <1>1, <1>8, WhereCallsGo DEF Dial, UserAt
    <2>3. p \notin Replacing
      BY <2>2 DEF Replacing
    <2>4. connected' => connected /\ uat[u] \notin {"record", "stop"}
      BY <2>1
    <2>5. QED
      BY <1>3, <2>1, <2>2, <2>3, <2>4
  <1>9. ASSUME ClearPool(u) PROVE SlotsInv(u)'
    <2>1. Beatless /\ connected' = connected /\ off' = off /\ uat[u] \notin Replacing \cup {"idle", "stop", "record"}
      BY <1>9 DEF ClearPool, Replacing, restOfHeart, beatSlots, beatVars
    <2>2. uat' = [uat EXCEPT ![u] = "deposit"]
      BY <1>1, <1>9, WhereCallsGo DEF ClearPool, UserAt
    <2>3. "deposit" \notin Replacing
      BY DEF Replacing
    <2>4. connected' => connected /\ uat[u] \notin {"record", "stop"}
      BY <2>1
    <2>5. QED
      BY <1>3, <2>1, <2>2, <2>3, <2>4
  <1>10. ASSUME Deposit(u) PROVE SlotsInv(u)'
    <2>1. Beatless /\ connected' = connected /\ off' = off /\ uat[u] \notin Replacing \cup {"idle", "stop", "record"}
      BY <1>10 DEF Deposit, Replacing, restOfHeart, beatSlots, beatVars
    <2>2. uat' = [uat EXCEPT ![u] = "mark"]
      BY <1>1, <1>10, WhereCallsGo DEF Deposit, UserAt
    <2>3. "mark" \notin Replacing
      BY DEF Replacing
    <2>4. connected' => connected /\ uat[u] \notin {"record", "stop"}
      BY <2>1
    <2>5. QED
      BY <1>3, <2>1, <2>2, <2>3, <2>4
  <1>11. ASSUME Mark(u) PROVE SlotsInv(u)'
    <2>1. Beatless /\ connected' /\ off' = off /\ uat[u] \notin Replacing \cup {"idle", "stop", "record"}
      BY <1>11 DEF Mark, Replacing, restOfHeart, beatSlots, beatVars
    <2>2. uat' = [uat EXCEPT ![u] = "record"]
      BY <1>1, <1>11, WhereCallsGo DEF Mark, UserAt
    <2>3. "record" \notin Replacing /\ "record" \in {"record", "stop"}
      BY DEF Replacing
    <2>4. QED
      BY <1>3, <2>1, <2>2, <2>3
  <1>12. ASSUME Record(u) PROVE SlotsInv(u)'
    <2>1. Beatless /\ connected' = connected /\ off' = off /\ uat[u] \notin Replacing \cup {"idle", "stop"}
      BY <1>12 DEF Record, Replacing, restOfHeart, beatSlots, beatVars
    <2>2. uat' = [uat EXCEPT ![u] = "stop"]
      BY <1>12 DEF Record, Goto, UserAt
    <2>3. "stop" \notin Replacing
      BY DEF Replacing
    <2>4. QED
      BY <1>3, <2>1, <2>2, <2>3
  <1>13. ASSUME Send(u) PROVE SlotsInv(u)'
    <2>1. Beatless /\ connected' = connected /\ off' = off /\ uat[u] \notin Replacing \cup {"idle", "stop", "record"}
      BY <1>13 DEF Send, Replacing, restOfHeart, beatSlots, beatVars
    <2>2. uat' = [uat EXCEPT ![u] = "borrow"]
      BY <1>1, <1>13, WhereCallsGo DEF Send, UserAt
    <2>3. "borrow" \notin Replacing
      BY DEF Replacing
    <2>4. connected' => connected /\ uat[u] \notin {"record", "stop"}
      BY <2>1
    <2>5. QED
      BY <1>3, <2>1, <2>2, <2>3, <2>4
  <1>14. ASSUME Borrow(u) PROVE SlotsInv(u)'
    <2>1. Beatless /\ connected' = connected /\ off' = off /\ uat[u] \notin Replacing \cup {"idle", "stop", "record"}
      BY <1>14 DEF Borrow, Replacing, restOfHeart, beatSlots, beatVars
    <2>2. PICK p \in {"io", "poolDial", "idle", "known"} : uat' = [uat EXCEPT ![u] = p]
      BY <1>1, <1>14, WhereCallsGo DEF Borrow, UserAt
    <2>3. p \notin Replacing
      BY <2>2 DEF Replacing
    <2>4. connected' => connected /\ uat[u] \notin {"record", "stop"}
      BY <2>1
    <2>5. QED
      BY <1>3, <2>1, <2>2, <2>3, <2>4
  <1>15. ASSUME PoolDial(u) PROVE SlotsInv(u)'
    <2>1. Beatless /\ connected' = connected /\ off' = off /\ uat[u] \notin Replacing \cup {"idle", "stop", "record"}
      BY <1>15 DEF PoolDial, Replacing, restOfHeart, beatSlots, beatVars
    <2>2. PICK p \in {"io", "idle", "known"} : uat' = [uat EXCEPT ![u] = p]
      BY <1>1, <1>15, WhereCallsGo DEF PoolDial, UserAt
    <2>3. p \notin Replacing
      BY <2>2 DEF Replacing
    <2>4. connected' => connected /\ uat[u] \notin {"record", "stop"}
      BY <2>1
    <2>5. QED
      BY <1>3, <2>1, <2>2, <2>3, <2>4
  <1>16. ASSUME Answered(u) PROVE SlotsInv(u)'
    <2>1. Beatless /\ connected' = connected /\ off' = off /\ uat[u] \notin Replacing \cup {"idle", "stop", "record"}
      BY <1>16 DEF Answered, Replacing, restOfHeart, beatSlots, beatVars
    <2>2. PICK p \in {"idle", "known"} : uat' = [uat EXCEPT ![u] = p]
      BY <1>1, <1>16, WhereCallsGo DEF Answered, UserAt
    <2>3. p \notin Replacing
      BY <2>2 DEF Replacing
    <2>4. connected' => connected /\ uat[u] \notin {"record", "stop"}
      BY <2>1
    <2>5. QED
      BY <1>3, <2>1, <2>2, <2>3, <2>4
  <1>17. ASSUME Broken(u) PROVE SlotsInv(u)'
    <2>1. Beatless /\ connected' = connected /\ off' = off /\ uat[u] \notin Replacing \cup {"idle", "stop", "record"}
      BY <1>17 DEF Broken, Replacing, restOfHeart, beatSlots, beatVars
    <2>2. uat' = [uat EXCEPT ![u] = "hangUp"]
      BY <1>1, <1>17, WhereCallsGo DEF Broken, UserAt
    <2>3. "hangUp" \notin Replacing
      BY DEF Replacing
    <2>4. connected' => connected /\ uat[u] \notin {"record", "stop"}
      BY <2>1
    <2>5. QED
      BY <1>3, <2>1, <2>2, <2>3, <2>4
  <1>18. ASSUME HangUp(u) PROVE SlotsInv(u)'
    <2>1. Beatless /\ connected' = connected /\ off' = off /\ uat[u] \notin Replacing \cup {"idle", "stop", "record"}
      BY <1>18 DEF HangUp, Replacing, restOfHeart, beatSlots, beatVars
    <2>2. PICK p \in {"idle", "known"} : uat' = [uat EXCEPT ![u] = p]
      BY <1>1, <1>18, WhereCallsGo DEF HangUp, UserAt
    <2>3. p \notin Replacing
      BY <2>2 DEF Replacing
    <2>4. connected' => connected /\ uat[u] \notin {"record", "stop"}
      BY <2>1
    <2>5. QED
      BY <1>3, <2>1, <2>2, <2>3, <2>4
  <1>19. QED
    BY <1>4, <1>5, <1>6, <1>7, <1>8, <1>9, <1>10, <1>11, <1>12, <1>13, <1>14, <1>15, <1>16, <1>17, <1>18

\* The steps of stop_heartbeat and start_heartbeat, and the end of disconnect.
LEMMA UserSlotsInside ==
  ASSUME NEW u, Users = {u}, SlotsInv(u),
         \/ TakeStop(u) \/ TakeHandle(u) \/ Join(u) \/ Spawn(u) \/ KeepStop(u) \/ KeepHandle(u) \/ Confirm(u)
         \/ Close(u) \/ Unmark(u)
  PROVE  SlotsInv(u)'
  <1>1. /\ Coupled /\ Coupled' /\ OwnTypes /\ u \in Users /\ uat \in [Users -> UserPlaces] /\ beat \in [Users -> Beats \cup {None}]
        /\ stopped \subseteq Alive /\ Alive \subseteq Beats /\ None \notin Beats
    BY StepCoupled, CoupledParts, ClientAssumption DEF SlotsInv, UserStep, OwnTypes, Alive, Threads
  <1>2. bat' = bat => Alive' = Alive
    BY <1>1, AliveOf
  <1>3. (off => uat[u] = "idle") /\ (off => ~connected /\ Alive = {} /\ idle = {})
    BY DEF SlotsInv, Slots, NothingLeft
  <1>4. AfterStop(u) \in {"close", "spawn"}
    BY DEF AfterStop
  <1>5. ASSUME uat[u] # "idle", off' = off, Slots(u)' PROVE SlotsInv(u)'
    BY <1>1, <1>3, <1>5 DEF SlotsInv, NothingLeft
  <1>6. ASSUME NEW p, uat' = [uat EXCEPT ![u] = p] PROVE uat'[u] = p
    BY <1>1, <1>6
  <1>7. ASSUME TakeStop(u) PROVE SlotsInv(u)'
    <2>1. /\ uat[u] = "stop" /\ uat'[u] = "take" /\ off' = off /\ bat' = bat /\ handleSlot' = handleSlot
          /\ stopSlot' = None /\ stopped' = stopped \cup ({stopSlot} \cap Alive)
      BY <1>6, <1>7 DEF TakeStop, Goto, UserAt, beatVars
    <2>2. stopSlot = handleSlot /\ Alive = {handleSlot} \ {None} /\ ~off
      BY <1>3, <2>1 DEF SlotsInv, Slots, Replacing
    <2>3. Slots(u)'
      BY <1>2, <2>1, <2>2 DEF Slots, Replacing
    <2>4. QED
      BY <1>5, <2>1, <2>3
  <1>8. ASSUME TakeHandle(u) PROVE SlotsInv(u)'
    <2>1. /\ uat[u] = "take" /\ off' = off /\ bat' = bat /\ stopSlot' = stopSlot /\ stopped' = stopped
      BY <1>8 DEF TakeHandle, Goto, restOfPool, beatVars
    <2>2. stopSlot = None /\ Alive \subseteq {handleSlot} /\ Alive \subseteq stopped /\ ~off
      BY <1>3, <2>1 DEF SlotsInv, Slots, Replacing
    <2>3. CASE handleSlot = None
      <3>1. uat'[u] = AfterStop(u) /\ handleSlot' = None
        BY <1>6, <1>8, <2>3 DEF TakeHandle, Goto, UserAt
      <3>2. Alive' = {}
        BY <1>1, <1>2, <2>1, <2>2, <2>3
      <3>3. Slots(u)'
        BY <1>4, <2>1, <2>2, <3>1, <3>2 DEF Slots, Replacing
      <3>4. QED
        BY <1>5, <2>1, <3>3
    <2>4. CASE handleSlot # None
      <3>1. uat'[u] = "join" /\ handleSlot' = None /\ beat'[u] = handleSlot
        BY <1>1, <1>6, <1>8, <2>4 DEF TakeHandle, UserAt
      <3>2. Slots(u)'
        BY <1>2, <2>1, <2>2, <3>1 DEF Slots, Replacing
      <3>3. QED
        BY <1>5, <2>1, <3>2
    <2>5. QED
      BY <2>3, <2>4
  <1>9. ASSUME Join(u) PROVE SlotsInv(u)'
    <2>1. /\ uat[u] = "join" /\ off' = off /\ bat' = bat /\ stopSlot' = stopSlot /\ handleSlot' = handleSlot
          /\ stopped' = stopped /\ bat[beat[u]] = "gone" /\ uat'[u] = AfterStop(u)
      BY <1>6, <1>9 DEF Join, UserAt, beatVars
    <2>2. stopSlot = None /\ handleSlot = None /\ Alive \subseteq {beat[u]} /\ ~off
      BY <1>3, <2>1 DEF SlotsInv, Slots, Replacing
    <2>3. Alive' = {}
      BY <1>2, <2>1, <2>2 DEF Alive
    <2>4. Slots(u)'
      BY <1>4, <2>1, <2>2, <2>3 DEF Slots, Replacing
    <2>5. QED
      BY <1>5, <2>1, <2>4
  <1>10. ASSUME Spawn(u) PROVE SlotsInv(u)'
    <2>1. PICK b \in Beats : bat' = [bat EXCEPT ![b] = "wait"] /\ beat' = [beat EXCEPT ![u] = b]
      BY <1>10 DEF Spawn, Spare, BeatAt
    <2>2. /\ uat[u] = "spawn" /\ off' = off /\ stopSlot' = stopSlot /\ handleSlot' = handleSlot
          /\ stopped' = stopped /\ uat'[u] = "keepStop" /\ beat'[u] = b
      BY <1>1, <1>6, <1>10, <2>1 DEF Spawn, UserAt, beatSlots
    <2>3. stopSlot = None /\ handleSlot = None /\ Alive = {} /\ stopped = {} /\ ~off
      BY <1>1, <1>3, <2>2 DEF SlotsInv, Slots, Replacing
    <2>4. Alive' = {b}
      BY <1>1, <2>1, <2>3, AliveOf DEF BeatPlaces
    <2>5. Slots(u)'
      BY <2>2, <2>3, <2>4 DEF Slots, Replacing
    <2>6. QED
      BY <1>5, <2>2, <2>5
  <1>11. ASSUME KeepStop(u) PROVE SlotsInv(u)'
    <2>1. /\ uat[u] = "keepStop" /\ off' = off /\ bat' = bat /\ stopSlot' = beat[u] /\ handleSlot' = handleSlot
          /\ stopped' = stopped /\ beat' = beat /\ uat'[u] = "keepHandle"
      BY <1>6, <1>11 DEF KeepStop, Goto, UserAt, beatVars
    <2>2. handleSlot = None /\ Alive = {beat[u]} /\ stopped = {} /\ ~off
      BY <1>3, <2>1 DEF SlotsInv, Slots, Replacing
    <2>3. Slots(u)'
      BY <1>2, <2>1, <2>2 DEF Slots, Replacing
    <2>4. QED
      BY <1>5, <2>1, <2>3
  <1>12. ASSUME KeepHandle(u) PROVE SlotsInv(u)'
    <2>1. /\ uat[u] = "keepHandle" /\ off' = off /\ bat' = bat /\ handleSlot' = beat[u] /\ stopSlot' = stopSlot
          /\ stopped' = stopped /\ beat' = beat /\ uat'[u] = "confirm"
      BY <1>6, <1>12 DEF KeepHandle, Goto, UserAt, beatVars
    <2>2. stopSlot = beat[u] /\ Alive = {beat[u]} /\ stopped = {} /\ ~off
      BY <1>3, <2>1 DEF SlotsInv, Slots, Replacing
    <2>3. Slots(u)'
      BY <1>2, <2>1, <2>2 DEF Slots, Replacing
    <2>4. QED
      BY <1>5, <2>1, <2>3
  <1>13. ASSUME Confirm(u) PROVE SlotsInv(u)'
    <2>1. /\ uat[u] = "confirm" /\ off' = off /\ bat' = bat /\ stopSlot' = stopSlot /\ handleSlot' = handleSlot
          /\ stopped' = stopped
      BY <1>13 DEF Confirm, restOfHeart, beatSlots, beatVars
    <2>2. PICK p \in {"send", "idle"} : uat' = [uat EXCEPT ![u] = p]
      BY <1>13 DEF Confirm, Done, UserAt
    <2>3. uat'[u] = p
      BY <1>6, <2>2
    <2>4. stopSlot = beat[u] /\ handleSlot = beat[u] /\ Alive = {beat[u]} /\ stopped = {} /\ ~off
      BY <1>3, <2>1 DEF SlotsInv, Slots, Replacing
    <2>5. Alive' = {handleSlot'} \ {None} /\ handleSlot' # None
      BY <1>1, <1>2, <2>1, <2>4
    <2>6. Slots(u)'
      BY <2>1, <2>2, <2>3, <2>4, <2>5 DEF Slots, Replacing
    <2>7. QED
      BY <1>5, <2>1, <2>6
  <1>14. ASSUME Close(u) PROVE SlotsInv(u)'
    <2>1. /\ uat[u] = "close" /\ off' = off /\ bat' = bat /\ stopSlot' = stopSlot /\ handleSlot' = handleSlot
          /\ stopped' = stopped /\ idle' = {} /\ uat'[u] = "unmark"
      BY <1>6, <1>14 DEF Close, Goto, UserAt, restOfHeart, beatSlots, beatVars, Pool!CloseAll
    <2>2. stopSlot = None /\ handleSlot = None /\ Alive = {} /\ ~off
      BY <1>3, <2>1 DEF SlotsInv, Slots, Replacing
    <2>3. Slots(u)'
      BY <1>2, <2>1, <2>2 DEF Slots, Replacing
    <2>4. QED
      BY <1>5, <2>1, <2>3
  <1>15. ASSUME Unmark(u) PROVE SlotsInv(u)'
    <2>1. /\ uat[u] = "unmark" /\ bat' = bat /\ stopSlot' = stopSlot /\ handleSlot' = handleSlot
          /\ stopped' = stopped /\ idle' = idle /\ ~connected' /\ uat'[u] = "idle"
      BY <1>6, <1>15 DEF Unmark, Done, UserAt, restOfPool, poolVars, restOfHeart, beatSlots, beatVars
    <2>2. stopSlot = None /\ handleSlot = None /\ Alive = {} /\ stopped = {} /\ idle = {}
      BY <1>1, <2>1 DEF SlotsInv, Slots, Replacing
    <2>3. Slots(u)'
      BY <1>2, <2>1, <2>2 DEF Slots, Replacing
    <2>4. QED
      BY <1>1, <1>2, <2>1, <2>2, <2>3 DEF SlotsInv, NothingLeft
  <1>16. QED
    BY <1>7, <1>8, <1>9, <1>10, <1>11, <1>12, <1>13, <1>14, <1>15

\* HeartbeatInSlots and what it takes are inductive with one caller.
LEMMA SlotsInductive ==
  ASSUME NEW u, Users = {u}
  PROVE  Spec => []SlotsInv(u)
  <1>1. Init => SlotsInv(u)
    BY InitSlots
  <1>2. ASSUME SlotsInv(u), [Next]_vars PROVE SlotsInv(u)'
    <2>1. CASE Call(u) \/ UserStep(u)
      BY <1>2, <2>1, UserSlotsOutside, UserSlotsInside DEF UserStep
    <2>2. CASE \E b \in Beats : BeatStep(b)
      BY <1>2, <2>2, BeatSlots
    <2>3. CASE UNCHANGED vars \/ \E s \in Servers : Toggle(s)
      <3>1. Coupled'
        BY <1>2, <2>3, QuietCoupled DEF SlotsInv
      <3>2. UNCHANGED <<uat, bat, connected, stopSlot, handleSlot, stopped, beat, idle, off>>
        BY <2>3 DEF Toggle, vars, poolVars, beatSlots, beatVars, userVars
      <3>3. QED
        BY <1>2, <3>1, <3>2 DEF SlotsInv, Slots, NothingLeft, Alive
    <2>4. QED
      BY <1>2, <2>1, <2>2, <2>3 DEF Next
  <1>3. QED
    BY <1>1, <1>2, PTL DEF Spec

\* With one thread calling, nothing is left of the connection once disconnect has
\* returned: no flag, no heartbeat that could raise it or dial, no idle connection
\* and no counted slot (disconnect and stop_heartbeat, src/src/net/client.rs).
THEOREM DisconnectStays ==
  ASSUME NEW u, Users = {u}
  PROVE  Spec => []DisconnectIsFinal
  <1>1. ASSUME SlotsInv(u), PoolFacts!IInv PROVE DisconnectIsFinal
    <2>1. SUFFICES ASSUME off PROVE ~connected /\ Alive = {} /\ idle = {} /\ active = 0
      BY DEF DisconnectIsFinal
    <2>2. ~connected /\ Alive = {} /\ idle = {} /\ uat[u] = "idle" /\ Coupled
      BY <1>1, <2>1 DEF SlotsInv, Slots, NothingLeft
    <2>3. poolLock = None
      BY <2>2, CoupledParts DEF UserOk, OwnTypes
    <2>4. active \in Nat /\ active <= Cardinality({})
      BY <1>1, <2>2, <2>3, PoolInv, OnlyBeatsBorrow
    <2>5. QED
      BY <2>2, <2>4, FS_EmptySet
  <1>2. Spec => []SlotsInv(u)
    BY SlotsInductive
  <1>3. QED
    BY <1>1, <1>2, PoolInvariant, PTL

\* With one thread calling, a client that says between calls that it is connected has
\* exactly one heartbeat, and both slots hold it.
THEOREM ConnectedStaysWatched ==
  ASSUME NEW u, Users = {u}
  PROVE  Spec => []ConnectedIsWatched
  <1>1. ASSUME SlotsInv(u) PROVE ConnectedIsWatched
    <2>1. SUFFICES ASSUME Quiet, connected
                   PROVE  \E b \in Beats : Alive = {b} /\ stopSlot = b /\ handleSlot = b /\ b \notin stopped
      BY DEF ConnectedIsWatched
    <2>2. uat[u] = "idle"
      BY <2>1 DEF Quiet
    <2>3. stopSlot = handleSlot /\ Alive = {handleSlot} \ {None} /\ stopped = {} /\ handleSlot # None
      BY <1>1, <2>1, <2>2 DEF SlotsInv, Slots, Replacing
    <2>4. handleSlot \in Beats
      BY <1>1, <2>3, CoupledParts DEF SlotsInv, OwnTypes
    <2>5. QED
      BY <2>3, <2>4
  <1>2. Spec => []SlotsInv(u)
    BY SlotsInductive
  <1>3. QED
    BY <1>1, <1>2, PTL
=============================================================================
