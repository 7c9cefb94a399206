----------------------------- MODULE PoolLedger -----------------------------
(***************************************************************************)
(* What the synchronous connection pool promises, without its counters: a  *)
(* set of parked connections and the set of callers that hold a slot.  A   *)
(* slot is granted by reusing a parked connection or, when the connections *)
(* that really exist are fewer than MaxSize, by dialling a new one; a slot *)
(* given back parks its connection or ends it.                             *)
(* ConnectionPool implements this with the integers active and total.      *)
(***************************************************************************)
EXTENDS Naturals, FiniteSets

CONSTANTS Threads, Conns, MaxSize

VARIABLES parked,    \* connections waiting in the pool
          holders    \* callers that occupy a slot: dialling or holding a guard

vars == <<parked, holders>>

Init == parked = {} /\ holders = {}

\* A caller gets a parked connection; parked connections of other servers may
\* be closed on the way.
Reuse(t) ==
  /\ t \notin holders
  /\ \E c \in parked : parked' \in SUBSET (parked \ {c})
  /\ holders' = holders \cup {t}

\* A caller may dial: fewer than MaxSize connections exist.
Reserve(t) ==
  /\ t \notin holders
  /\ parked' \in SUBSET parked
  /\ Cardinality(parked') + Cardinality(holders) < MaxSize
  /\ holders' = holders \cup {t}

\* A slot comes back: its connection is parked, or closed, or was never made.
Release(t) ==
  /\ t \in holders
  /\ \/ UNCHANGED parked
     \/ \E c \in Conns \ parked : parked' = parked \cup {c}
  /\ holders' = holders \ {t}

\* A connection dialled outside the pool is deposited.
Deposit ==
  /\ \E c \in Conns \ parked : parked' = parked \cup {c}
  /\ UNCHANGED holders

\* Parked connections are closed.
Close ==
  /\ parked' \in SUBSET parked
  /\ UNCHANGED holders

Next ==
  \/ \E t \in Threads : Reuse(t) \/ Reserve(t) \/ Release(t)
  \/ Deposit
  \/ Close

Spec == Init /\ [][Next]_vars
=============================================================================
