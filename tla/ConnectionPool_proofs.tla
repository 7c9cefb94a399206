----------------------- MODULE ConnectionPool_proofs ------------------------
(***************************************************************************)
(* Proofs about ConnectionPool, for all threads, servers, sizes and        *)
(* bounds on the connections.  The inductive invariant is IInv; its core   *)
(* is that the integers active and total equal the cardinalities of the    *)
(* sets they count, which makes every saturating_sub exact.                *)
(***************************************************************************)
EXTENDS ConnectionPool, FiniteSetTheorems, TLAPS

\* Under Accounting, a subtraction of what is really there does not saturate.
LEMMA SatSubExact ==
  ASSUME NEW a \in Nat, NEW b \in Nat
  PROVE  /\ SatSub(a, b) \in Nat
         /\ a >= b => SatSub(a, b) = a - b
  BY DEF SatSub

\* The sets that are counted are finite and their cardinalities numbers.
LEMMA Finite ==
  ASSUME TypeOK
  PROVE  /\ IsFiniteSet(Busy) /\ Cardinality(Busy) \in Nat
         /\ \A I \in SUBSET Conns : IsFiniteSet(I) /\ Cardinality(I) \in Nat
  <1>1. IsFiniteSet(Busy)
    BY PoolAssumption, FS_Subset DEF Busy
  <1>2. \A I \in SUBSET Conns : IsFiniteSet(I)
    BY PoolAssumption, FS_Subset
  <1>3. QED
    BY <1>1, <1>2, FS_CardinalityType

\* One thread leaving or joining a set of threads changes its size by one.
LEMMA BusyJoins ==
  ASSUME TypeOK, TypeOK', NEW t \in Threads, t \notin Busy, Busy' = Busy \cup {t}
  PROVE  Cardinality(Busy') = Cardinality(Busy) + 1
  BY Finite, FS_AddElement

\* The slot of a thread that leaves is one of those that were counted.
LEMMA BusyLeaves ==
  ASSUME TypeOK, TypeOK', NEW t \in Threads, t \in Busy, Busy' = Busy \ {t}
  PROVE  Cardinality(Busy') = Cardinality(Busy) - 1 /\ Cardinality(Busy) >= 1
  <1>1. Cardinality(Busy \ {t}) = Cardinality(Busy) - 1
    BY Finite, FS_RemoveElement
  <1>2. Cardinality(Busy') \in Nat /\ Cardinality(Busy) \in Nat
    BY Finite, FS_Subset, FS_CardinalityType
  <1>3. QED
    BY <1>1, <1>2

\* Closing the idle connections of other servers leaves total exact.
LEMMA KeptExact ==
  ASSUME TypeOK, Accounting, NEW s \in Servers
  PROVE  /\ Matching(s) \in SUBSET idle
         /\ TotalKept(s) = Cardinality(Matching(s)) + Cardinality(Busy)
         /\ TotalKept(s) \in Nat
  <1>1. Matching(s) \in SUBSET idle /\ idle \ Matching(s) \in SUBSET idle
    BY DEF Matching
  <1>2. IsFiniteSet(idle) /\ IsFiniteSet(Matching(s))
    BY <1>1, Finite DEF TypeOK
  <1>3. Cardinality(idle \ Matching(s)) = Cardinality(idle) - Cardinality(idle \cap Matching(s))
    BY <1>2, FS_Difference
  <1>4. idle \cap Matching(s) = Matching(s)
    BY <1>1
  <1>5. /\ Cardinality(idle) \in Nat /\ Cardinality(Matching(s)) \in Nat
        /\ Cardinality(idle \ Matching(s)) \in Nat /\ Cardinality(Busy) \in Nat
    BY <1>1, Finite DEF TypeOK
  <1>6. QED
    BY <1>1, <1>3, <1>4, <1>5, SatSubExact DEF TotalKept, Accounting, SatSub
-----------------------------------------------------------------------------
\* An empty pool satisfies the invariant.
LEMMA InitIInv == Init => IInv
  <1> SUFFICES ASSUME Init PROVE IInv
    OBVIOUS
  <1>1. Busy = {} /\ idle = {} /\ Held = {}
    BY DEF Init, Busy, Held
  <1>2. Cardinality({}) = 0
    BY FS_EmptySet
  <1>3. TypeOK
    BY PoolAssumption DEF Init, TypeOK
  <1>4. QED
    BY <1>1, <1>2, <1>3 DEF Init, IInv, Accounting, ServerMatch, GuardsOwn, BrokenInUse

\* The type of every variable is preserved.
LEMMA StepType == ASSUME IInv, Next PROVE TypeOK'
  <1> USE DEF IInv, TypeOK
  <1>1. \A s \in Servers : TotalKept(s) \in Nat /\ Matching(s) \in SUBSET idle
    BY KeptExact
  <1>2. Cardinality(idle) \in Nat
    BY Finite
  <1>3. \A n \in Nat : SatSub(n, 1) \in Nat /\ SatSub(total, n) \in Nat
    BY SatSubExact
  <1>4. ASSUME NEW t \in Threads, NEW s \in Servers, Borrow(t, s) \/ TryBorrow(t, s) PROVE TypeOK'
    <2>1. CASE TakeIdle(t, s)
      BY <1>1, <2>1 DEF TakeIdle
    <2>2. CASE ReserveSlot(t, s)
      BY <1>1, <2>2 DEF ReserveSlot
    <2>3. CASE Exhausted(t, s)
      BY <1>1, <2>3 DEF Exhausted
    <2>4. QED
      BY <1>4, <2>1, <2>2, <2>3 DEF Borrow, TryBorrow
  <1>5. ASSUME NEW t \in Threads, Dialled(t) PROVE TypeOK'
    BY <1>5 DEF Dialled, Fresh
  <1>6. ASSUME NEW t \in Threads, DialFailed(t) PROVE TypeOK'
    BY <1>3, <1>6 DEF DialFailed
  <1>7. ASSUME NEW t \in Threads, IoError(t) PROVE TypeOK'
    BY <1>7 DEF IoError, GuardsOwn
  <1>8. ASSUME NEW t \in Threads, Return(t) PROVE TypeOK'
    <2>1. held[t] \in Conns
      BY <1>8 DEF Return, GuardsOwn
    <2>2. QED
      BY <1>3, <1>8, <2>1 DEF Return, LetGo
  <1>9. ASSUME NEW s \in Servers, Push(s) PROVE TypeOK'
    BY <1>9, PoolAssumption DEF Push, Fresh
  <1>10. ASSUME CloseAll PROVE TypeOK'
    BY <1>2, <1>3, <1>10 DEF CloseAll
  <1>11. QED
    BY <1>4, <1>5, <1>6, <1>7, <1>8, <1>9, <1>10 DEF Next

\* How each step changes the set of threads that occupy a slot.
LEMMA BusyOf ==
  ASSUME TypeOK, NEW t \in Threads
  PROVE  /\ pc[t] = "out" => t \notin Busy
         /\ pc[t] # "out" => t \in Busy
         /\ \A v \in {"dialling", "using"} :
              pc' = [pc EXCEPT ![t] = v] => Busy' = Busy \cup {t}
         /\ pc' = [pc EXCEPT ![t] = "out"] => Busy' = Busy \ {t}
  BY DEF TypeOK, Busy

\* The counters stay exact: the safety argument of the module.
LEMMA StepAccounting == ASSUME IInv, Next PROVE Accounting'
  <1> USE DEF IInv
  <1>0. TypeOK /\ TypeOK'
    BY StepType
  <1>1. /\ active = Cardinality(Busy) /\ total = Cardinality(idle) + Cardinality(Busy)
        /\ Cardinality(idle) \in Nat /\ Cardinality(Busy) \in Nat
        /\ IsFiniteSet(idle) /\ IsFiniteSet(Busy)
    BY Finite, <1>0 DEF Accounting, TypeOK
  <1>2. ASSUME NEW t \in Threads, NEW s \in Servers, Borrow(t, s) \/ TryBorrow(t, s) PROVE Accounting'
    <2>1. /\ TotalKept(s) = Cardinality(Matching(s)) + Cardinality(Busy)
          /\ IsFiniteSet(Matching(s)) /\ Cardinality(Matching(s)) \in Nat
      BY KeptExact, Finite, <1>0 DEF TypeOK
    <2>2. CASE TakeIdle(t, s)
      <3>1. Cardinality(Busy') = Cardinality(Busy) + 1
        BY <2>2, <1>0, BusyOf, BusyJoins DEF TakeIdle
      <3>2. PICK c \in Matching(s) : idle' = Matching(s) \ {c}
        BY <2>2 DEF TakeIdle
      <3>3. Cardinality(idle') = Cardinality(Matching(s)) - 1
        BY <2>1, <3>2, FS_RemoveElement
      <3>4. active' = active + 1 /\ total' = TotalKept(s)
        BY <2>2 DEF TakeIdle
      <3>5. QED
        BY <1>1, <2>1, <3>1, <3>3, <3>4 DEF Accounting
    <2>3. CASE ReserveSlot(t, s)
      <3>1. Cardinality(Busy') = Cardinality(Busy) + 1
        BY <2>3, <1>0, BusyOf, BusyJoins DEF ReserveSlot
      <3>2. Cardinality(idle') = 0 /\ Cardinality(Matching(s)) = 0
        BY <2>3, FS_EmptySet DEF ReserveSlot
      <3>3. active' = active + 1 /\ total' = TotalKept(s) + 1
        BY <2>3 DEF ReserveSlot
      <3>4. QED
        BY <1>1, <2>1, <3>1, <3>2, <3>3 DEF Accounting
    <2>4. CASE Exhausted(t, s)
      <3>1. Cardinality(idle') = 0 /\ Cardinality(Matching(s)) = 0
        BY <2>4, FS_EmptySet DEF Exhausted, Refuses
      <3>2. active' = active /\ total' = TotalKept(s) /\ Busy' = Busy
        BY <2>4 DEF Exhausted, Busy
      <3>3. QED
        BY <1>1, <2>1, <3>1, <3>2 DEF Accounting
    <2>5. QED
      BY <1>2, <2>2, <2>3, <2>4 DEF Borrow, TryBorrow
  <1>3. ASSUME NEW t \in Threads, Dialled(t) PROVE Accounting'
    <2>1. Busy' = Busy \cup {t} /\ t \in Busy
      BY <1>3, <1>0, BusyOf DEF Dialled
    <2>2. Busy' = Busy
      BY <2>1
    <2>3. QED
      BY <1>1, <1>3, <2>2 DEF Dialled, Accounting
  <1>4. ASSUME NEW t \in Threads, DialFailed(t) PROVE Accounting'
    <2>1. Cardinality(Busy') = Cardinality(Busy) - 1 /\ Cardinality(Busy) >= 1
      BY <1>4, <1>0, BusyOf, BusyLeaves DEF DialFailed
    <2>2. active' = active - 1 /\ total' = total - 1 /\ idle' = idle
      BY <1>1, <1>4, <2>1, SatSubExact DEF DialFailed
    <2>3. QED
      BY <1>1, <2>1, <2>2 DEF Accounting
  <1>5. ASSUME NEW t \in Threads, IoError(t) PROVE Accounting'
    BY <1>1, <1>5 DEF IoError, Accounting, Busy
  <1>6. ASSUME NEW t \in Threads, Return(t) PROVE Accounting'
    <2>1. Cardinality(Busy') = Cardinality(Busy) - 1 /\ Cardinality(Busy) >= 1
      BY <1>6, <1>0, BusyOf, BusyLeaves DEF Return, LetGo
    <2>2. active' = active - 1
      BY <1>1, <1>6, <2>1, SatSubExact DEF Return, LetGo
    <2>3. held[t] \in Conns \ idle
      BY <1>6 DEF Return, GuardsOwn
    <2>4. \/ idle' = idle \cup {held[t]} /\ total' = total
          \/ idle' = idle /\ total' = SatSub(total, 1)
      BY <1>6 DEF Return
    <2>5. Cardinality(idle \cup {held[t]}) = Cardinality(idle) + 1
      BY <1>1, <2>3, FS_AddElement
    <2>6. SatSub(total, 1) = total - 1
      BY <1>1, <2>1, SatSubExact
    <2>7. total' = Cardinality(idle') + Cardinality(Busy')
      <3>1. CASE idle' = idle \cup {held[t]} /\ total' = total
        <4>1. Cardinality(idle') = Cardinality(idle) + 1
          BY <2>5, <3>1
        <4>2. QED
          BY <1>1, <2>1, <3>1, <4>1
      <3>2. CASE idle' = idle /\ total' = SatSub(total, 1)
        BY <1>1, <2>1, <2>6, <3>2
      <3>3. QED
        BY <2>4, <3>1, <3>2
    <2>8. QED
      BY <1>1, <2>1, <2>2, <2>7 DEF Accounting
  <1>7. ASSUME NEW s \in Servers, Push(s) PROVE Accounting'
    <2>1. PICK c \in Fresh : idle' = idle \cup {c}
      BY <1>7 DEF Push
    <2>2. Cardinality(idle') = Cardinality(idle) + 1
      BY <1>1, <2>1, FS_AddElement DEF Fresh
    <2>3. active' = active /\ total' = total + 1 /\ Busy' = Busy
      BY <1>7 DEF Push, Busy
    <2>4. QED
      BY <1>1, <2>2, <2>3 DEF Accounting
  <1>8. ASSUME CloseAll PROVE Accounting'
    <2>1. Cardinality(idle') = 0
      BY <1>8, FS_EmptySet DEF CloseAll
    <2>2. active' = active /\ total' = total - Cardinality(idle) /\ Busy' = Busy
      BY <1>1, <1>8, SatSubExact DEF CloseAll, Busy
    <2>3. QED
      BY <1>1, <2>1, <2>2 DEF Accounting
  <1>9. QED
    BY <1>2, <1>3, <1>4, <1>5, <1>6, <1>7, <1>8 DEF Next

\* Guards stay disjoint from each other and from the queue, keep the server they
\* were asked for, and hold every broken connection.
LEMMA StepGuards == ASSUME IInv, Next PROVE ServerMatch' /\ GuardsOwn' /\ BrokenInUse'
  <1> DEFINE Goal == ServerMatch' /\ GuardsOwn' /\ BrokenInUse'
  <1> USE DEF IInv, TypeOK, ServerMatch, GuardsOwn, BrokenInUse, Held
  <1>1. ASSUME NEW t \in Threads, NEW s \in Servers, TakeIdle(t, s) PROVE Goal
    BY <1>1 DEF TakeIdle, Matching
  <1>2. ASSUME NEW t \in Threads, NEW s \in Servers, ReserveSlot(t, s) PROVE Goal
    BY <1>2 DEF ReserveSlot
  <1>3. ASSUME NEW t \in Threads, NEW s \in Servers, Exhausted(t, s) PROVE Goal
    BY <1>3 DEF Exhausted
  <1>4. ASSUME NEW t \in Threads, Dialled(t) PROVE Goal
    BY <1>4 DEF Dialled, Fresh
  <1>5. ASSUME NEW t \in Threads, DialFailed(t) PROVE Goal
    BY <1>5 DEF DialFailed
  <1>6. ASSUME NEW t \in Threads, IoError(t) PROVE Goal
    BY <1>6 DEF IoError
  <1>7. ASSUME NEW t \in Threads, Return(t) PROVE Goal
    BY <1>7 DEF Return, LetGo, Parks
  <1>8. ASSUME NEW s \in Servers, Push(s) PROVE Goal
    BY <1>8 DEF Push, Fresh
  <1>9. ASSUME CloseAll PROVE Goal
    BY <1>9 DEF CloseAll
  <1>10. QED
    BY <1>1, <1>2, <1>3, <1>4, <1>5, <1>6, <1>7, <1>8, <1>9 DEF Next, Borrow, TryBorrow

\* A step that changes none of the pool's variables preserves the invariant.
LEMMA Stutter == ASSUME IInv, UNCHANGED vars PROVE IInv'
  BY DEF vars, IInv, TypeOK, Accounting, ServerMatch, GuardsOwn, BrokenInUse, Busy, Held

\* IInv is an invariant of the pool.
THEOREM Inductive == Spec => []IInv
  <1>1. Init => IInv
    BY InitIInv
  <1>2. IInv /\ [Next]_vars => IInv'
    BY StepType, StepAccounting, StepGuards, Stutter DEF IInv
  <1>3. QED
    BY <1>1, <1>2, PTL DEF Spec

-----------------------------------------------------------------------------
\* The counters count naturals, threads hold connections, in every reachable state.
THEOREM TypeCorrect == Spec => []TypeOK
  BY Inductive, PTL DEF IInv

\* active and total are exact whatever borrows, dials, failures, returns, pushes
\* and close_all interleave (CODE_REVIEW P0-3A, P0-3B in src/src/net/pool.rs).
THEOREM CountersExact == Spec => []Accounting
  BY Inductive, PTL DEF IInv

\* A guard's connection belongs to the server asked for (CODE_REVIEW P1-8).
THEOREM GuardsMatchServer == Spec => []ServerMatch
  BY Inductive, PTL DEF IInv

\* No connection with a failed send or recv waits in the queue (CODE_REVIEW P1-8).
THEOREM NoBrokenIdle == Spec => []IdleHealthy
  <1>1. IInv => IdleHealthy
    BY DEF IInv, TypeOK, GuardsOwn, BrokenInUse, IdleHealthy, Held
  <1>2. QED
    BY <1>1, Inductive, PTL

\* A refusal means that MaxSize threads occupy a slot.
LEMMA RefusalIsReal ==
  ASSUME IInv, NEW s \in Servers, Refuses(s)
  PROVE  Cardinality(Busy) >= MaxSize
  <1>1. TotalKept(s) = Cardinality(Busy) /\ Cardinality(Busy) \in Nat
    BY KeptExact, Finite, FS_EmptySet DEF IInv, Refuses
  <1>2. QED
    BY <1>1, PoolAssumption DEF Refuses

\* POOL_EXHAUSTED, and Ok(None) from try_borrow, would be answered only in states in
\* which MaxSize threads really occupy a slot.
THEOREM RefusalsAreReal == Spec => []RefusesOnlyWhenFull
  <1>1. IInv => RefusesOnlyWhenFull
    BY RefusalIsReal DEF RefusesOnlyWhenFull
  <1>2. QED
    BY <1>1, Inductive, PTL

-----------------------------------------------------------------------------
(* The pool implements PoolLedger, which has no counters. *)

\* The ledger counts with the same operator.
LEMMA SameCardinality == \A S : Ledger!Cardinality(S) = Cardinality(S)
  BY DEF Ledger!Cardinality, Cardinality

\* An empty pool is an empty ledger.
LEMMA LedgerInit == Init => Ledger!Init
  BY DEF Init, Ledger!Init, Busy

\* Under the invariant each step of the pool is a step of the ledger or a stutter.
LEMMA LedgerStep == ASSUME IInv, Next PROVE [Ledger!Next]_(Ledger!vars)
  <1> USE DEF IInv, Ledger!vars
  <1>0. TypeOK /\ Cardinality(idle) \in Nat /\ Cardinality(Busy) \in Nat
    BY Finite DEF TypeOK
  <1>1. ASSUME NEW t \in Threads, NEW s \in Servers, TakeIdle(t, s) PROVE Ledger!Reuse(t)
    <2>1. t \notin Busy /\ Busy' = Busy \cup {t}
      BY <1>1, BusyOf DEF TakeIdle
    <2>2. QED
      BY <1>1, <2>1 DEF TakeIdle, Matching, Ledger!Reuse
  <1>2. ASSUME NEW t \in Threads, NEW s \in Servers, ReserveSlot(t, s) PROVE Ledger!Reserve(t)
    <2>1. t \notin Busy /\ Busy' = Busy \cup {t}
      BY <1>2, BusyOf DEF ReserveSlot
    <2>2. idle' = {} /\ Cardinality(idle') = 0 /\ Cardinality(Matching(s)) = 0
      BY <1>2, FS_EmptySet DEF ReserveSlot
    <2>3. Cardinality(idle') + Cardinality(Busy) < MaxSize
      BY <1>0, <1>2, <2>2, KeptExact DEF ReserveSlot
    <2>4. QED
      BY <1>2, <2>1, <2>2, <2>3, SameCardinality DEF ReserveSlot, Ledger!Reserve
  <1>3. ASSUME NEW t \in Threads, NEW s \in Servers, Exhausted(t, s) PROVE Ledger!Close
    BY <1>3 DEF Exhausted, Busy, Ledger!Close
  <1>4. ASSUME NEW t \in Threads, Dialled(t) PROVE UNCHANGED Ledger!vars
    <2>1. Busy' = Busy \cup {t} /\ t \in Busy
      BY <1>0, <1>4, BusyOf DEF Dialled
    <2>2. Busy' = Busy
      BY <2>1
    <2>3. QED
      BY <1>4, <2>2 DEF Dialled
  <1>5. ASSUME NEW t \in Threads, DialFailed(t) PROVE Ledger!Release(t)
    <2>1. t \in Busy /\ Busy' = Busy \ {t}
      BY <1>0, <1>5, BusyOf DEF DialFailed
    <2>2. QED
      BY <1>5, <2>1 DEF DialFailed, Ledger!Release
  <1>6. ASSUME NEW t \in Threads, IoError(t) PROVE UNCHANGED Ledger!vars
    BY <1>6 DEF IoError, Busy
  <1>7. ASSUME NEW t \in Threads, Return(t) PROVE Ledger!Release(t)
    <2>1. t \in Busy /\ Busy' = Busy \ {t}
      BY <1>0, <1>7, BusyOf DEF Return, LetGo
    <2>2. held[t] \in Conns \ idle
      BY <1>7 DEF Return, GuardsOwn
    <2>3. idle' = idle \/ idle' = idle \cup {held[t]}
      BY <1>7 DEF Return
    <2>4. QED
      BY <1>7, <2>1, <2>2, <2>3 DEF Return, LetGo, Ledger!Release
  <1>8. ASSUME NEW s \in Servers, Push(s) PROVE Ledger!Deposit
    BY <1>8 DEF Push, Fresh, Busy, Ledger!Deposit
  <1>9. ASSUME CloseAll PROVE Ledger!Close
    BY <1>9 DEF CloseAll, Busy, Ledger!Close
  <1>10. QED
    BY <1>1, <1>2, <1>3, <1>4, <1>5, <1>6, <1>7, <1>8, <1>9 DEF Next, Borrow, TryBorrow, Ledger!Next

\* The pool with its counters implements the ledger without them: callers are
\* granted and refused slots exactly as the number of live connections says.
THEOREM ImplementsLedger == Spec => LedgerSpec
  <1>1. Init => Ledger!Init
    BY LedgerInit
  <1>2. IInv /\ [Next]_vars => [Ledger!Next]_(Ledger!vars)
    BY LedgerStep DEF vars, Ledger!vars, Busy
  <1>3. QED
    BY <1>1, <1>2, Inductive, PTL DEF Spec, LedgerSpec, Ledger!Spec
=============================================================================
