--------------------------- MODULE Downloader_proofs ---------------------------
(* Theorems of Downloader, for any lists, page sizes and numbers of bars: every        *)
(* variable keeps its type, an unadjusted .day file never loses a bar, and a file in   *)
(* order stays in order while what is new fits into a page.                            *)
EXTENDS Downloader, FiniteSetTheorems, SequenceTheorems, WellFoundedInduction, TLAPS
-----------------------------------------------------------------------------
(* Bars at places *)

\* Every set of natural numbers but the empty one has a least element.
LEMMA LeastOf ==
  ASSUME NEW T, T \subseteq Nat, T # {}
  PROVE  \E x \in T : \A y \in T : x <= y
<1> DEFINE Less == {ss \in Nat \X Nat : ss[1] < ss[2]}
<1>1. IsWellFoundedOn(Less, Nat)
  BY NatLessThanWellFounded DEF OpToRel
<1>2. \E x \in T : \A y \in T : ~(<<y, x>> \in Less)
  <2> HIDE DEF Less
  <2> QED BY <1>1, WFMin
<1>3. PICK x \in T : \A y \in T : ~(<<y, x>> \in Less)
  BY <1>2
<1>4. ASSUME NEW y \in T PROVE x <= y
  <2>1. x \in Nat /\ y \in Nat
    BY <1>3
  <2>2. y < x => <<y, x>> \in Less
    BY <2>1
  <2>3. QED
    BY <1>3, <2>1, <2>2
<1>5. QED
  BY <1>3, <1>4

\* For each rank, a set of places has the place of that rank.
LEMMA PlaceOfRank ==
  ASSUME NEW L \in Nat, NEW S \in SUBSET (1..L), NEW n \in 1..Cardinality(S)
  PROVE  \E i \in S : Cardinality({j \in S : j <= i}) = n
<1> DEFINE Below(k) == {j \in S : j <= k}
           T == {k \in 0..L : Cardinality(Below(k)) >= n}
<1>0. \A j \in S : j \in Nat /\ 1 <= j /\ j <= L
  OBVIOUS
<1>1. IsFiniteSet(S) /\ Cardinality(S) \in Nat /\ n \in Nat /\ n >= 1
  <2>1. IsFiniteSet(1..L)
    BY FS_Interval
  <2>2. IsFiniteSet(S)
    BY <2>1, FS_Subset
  <2>3. QED
    BY <2>2, FS_CardinalityType
<1>2. ASSUME NEW k \in 0..L
      PROVE  IsFiniteSet(Below(k)) /\ Cardinality(Below(k)) \in Nat
  <2>1. Below(k) \in SUBSET S
    OBVIOUS
  <2>2. IsFiniteSet(Below(k))
    <3> HIDE DEF Below
    <3> QED BY <1>1, <2>1, FS_Subset
  <2>3. QED
    <3> HIDE DEF Below
    <3> QED BY <2>2, FS_CardinalityType
<1>3. L \in T
  <2>1. Below(L) = S
    BY <1>0
  <2>2. Cardinality(Below(L)) >= n
    <3> HIDE DEF Below
    <3> QED BY <1>1, <2>1
  <2>3. QED
    BY <2>2
<1>4. PICK k \in T : \A y \in T : k <= y
  <2>1. T \subseteq Nat /\ T # {}
    <3>1. T \subseteq 0..L
      OBVIOUS
    <3>2. QED
      <4> HIDE DEF T
      <4> QED BY <1>3, <3>1
  <2>2. QED
    <3> HIDE DEF T
    <3> QED BY <2>1, LeastOf
<1>5. k \in 0..L /\ Cardinality(Below(k)) >= n
  BY <1>4
<1>6. k # 0
  <2>1. Below(0) = {}
    <3>1. \A j \in S : ~(j <= 0)
      BY <1>0
    <3>2. QED
      BY <3>1
  <2>2. Cardinality(Below(0)) = 0
    <3> HIDE DEF Below
    <3> QED BY <2>1, FS_EmptySet
  <2>3. QED
    <3> HIDE DEF Below
    <3> QED BY <1>1, <1>5, <2>2
<1>7. k - 1 \in 0..L /\ k \in Nat
  BY <1>5, <1>6
<1>8. Cardinality(Below(k - 1)) < n
  <2>1. k - 1 \notin T
    <3> HIDE DEF T
    <3> QED BY <1>4, <1>7
  <2>2. ~(Cardinality(Below(k - 1)) >= n)
    BY <1>7, <2>1
  <2>3. Cardinality(Below(k - 1)) \in Nat
    BY <1>7, <1>2
  <2>4. QED
    <3> HIDE DEF Below
    <3> QED BY <1>1, <2>2, <2>3
<1>9. CASE k \in S
  <2>1. Below(k) = Below(k - 1) \cup {k} /\ k \notin Below(k - 1)
    <3>1. \A j \in S : j <= k <=> (j <= k - 1 \/ j = k)
      BY <1>0, <1>7
    <3>2. ~(k <= k - 1)
      BY <1>7
    <3>3. Below(k) = Below(k - 1) \cup {k}
      BY <1>9, <3>1
    <3>4. QED
      BY <3>2, <3>3
  <2>2. Cardinality(Below(k)) = Cardinality(Below(k - 1)) + 1
    <3>1. IsFiniteSet(Below(k - 1))
      BY <1>7, <1>2
    <3>2. QED
      <4> HIDE DEF Below
      <4> QED BY <2>1, <3>1, FS_AddElement
  <2>3. Cardinality(Below(k)) = n
    <3>1. Cardinality(Below(k - 1)) \in Nat
      BY <1>7, <1>2
    <3>2. QED
      <4> HIDE DEF Below
      <4> QED BY <1>1, <1>5, <1>8, <2>2, <3>1
  <2>4. QED
    BY <1>9, <2>3
<1>10. CASE k \notin S
  <2>1. Below(k) = Below(k - 1)
    <3>1. \A j \in S : j <= k <=> (j <= k - 1 \/ j = k)
      BY <1>0, <1>7
    <3>2. QED
      BY <1>10, <3>1
  <2>2. Cardinality(Below(k - 1)) \in Nat
    BY <1>7, <1>2
  <2>3. QED
    <3> HIDE DEF Below
    <3> QED BY <1>1, <1>5, <1>8, <2>1, <2>2
<1>11. QED
  BY <1>9, <1>10

\* The bars at some places are a sequence of the same bars, as long as there are places.
LEMMA PlacesGiveBars ==
  ASSUME NEW B, NEW bars \in Seq(B), NEW places \in SUBSET DOMAIN bars
  PROVE  /\ AtPlaces(bars, places) \in Seq(B)
         /\ Cardinality(places) \in Nat /\ Len(AtPlaces(bars, places)) = Cardinality(places)
<1> DEFINE n0 == Cardinality(places)
           place(n) == CHOOSE i \in places : Cardinality({j \in places : j <= i}) = n
<1>1. Len(bars) \in Nat /\ DOMAIN bars = 1..Len(bars)
  OBVIOUS
<1>2. places \in SUBSET (1..Len(bars))
  BY <1>1
<1>3. n0 \in Nat
  <2>1. IsFiniteSet(1..Len(bars))
    BY <1>1, FS_Interval
  <2>2. IsFiniteSet(places)
    BY <1>2, <2>1, FS_Subset
  <2>3. QED
    BY <2>2, FS_CardinalityType
<1>4. ASSUME NEW n \in 1..n0 PROVE bars[place(n)] \in B
  <2>1. \E i \in places : Cardinality({j \in places : j <= i}) = n
    BY <1>1, <1>2, PlaceOfRank
  <2>2. place(n) \in places
    BY <2>1
  <2>3. QED
    <3> HIDE DEF place
    <3> QED BY <1>1, <1>2, <2>2
<1>5. AtPlaces(bars, places) = [n \in 1..n0 |-> bars[place(n)]]
  BY DEF AtPlaces
<1>6. QED
  <2> HIDE DEF n0, place
  <2>1. [n \in 1..n0 |-> bars[place(n)]] \in [1..n0 -> B]
    BY <1>4
  <2>2. [n \in 1..n0 |-> bars[place(n)]] \in Seq(B)
    BY <1>3, <2>1, SeqDef
  <2>3. DOMAIN AtPlaces(bars, places) = 1..n0
    BY <1>5
  <2>4. Len(AtPlaces(bars, places)) = n0
    BY <1>3, <1>5, <2>2, <2>3
  <2>5. QED
    BY <1>3, <1>5, <2>2, <2>4 DEF n0
-----------------------------------------------------------------------------
(* Types *)

RunOK(r) ==
  /\ r \in [at : {"idle", "list", "pages", "write", "sync", "save", "finish"},
            jobs : Seq(Jobs), codes : {None} \cup Seq(Codes), togo : Seq(Codes),
            done : Nat, total : Nat, offset : Nat, bars : Seq(1..MaxTop)]
  /\ r.total = r.done + Len(r.togo)
  /\ r.at \in {"pages", "write", "sync", "save", "finish"} => r.jobs # <<>>
  /\ r.at \in {"pages", "write", "sync", "save"} => r.togo # <<>>

DiskOK ==
  /\ file \in [Jobs \X Codes -> Seq(1..MaxTop)]
  /\ checkpoint = None \/ checkpoint \in [job : Jobs, code : Codes \cup {None}, done : Nat, total : Nat]
  /\ synced \in Orders

InsideOK ==
  /\ memory \in Orders \cup {None}
  /\ counter \in 0..(SyncEvery - 1)

WorldOK ==
  /\ format \in {"tdx", "parquet"} /\ fq \in {0, 1}
  /\ top \in 1..MaxTop /\ faults \in 0..MaxFaults

LEMMA TypeParts == TypeOK <=> WorldOK /\ DiskOK /\ InsideOK /\ RunOK(run)
BY DEF TypeOK, WorldOK, DiskOK, InsideOK, RunOK

LEMMA CodesFinite ==
  ASSUME DownloaderAssumption
  PROVE  IsFiniteSet(Codes) /\ Cardinality(Codes) \in Nat
<1>1. List \in Seq(Codes)
  BY DEF DownloaderAssumption
<1>2. List \in [1..Len(List) -> Codes] /\ Len(List) \in Nat /\ DOMAIN List = 1..Len(List)
  BY <1>1
<1>3. List \in Surjection(1..Len(List), Codes)
  BY <1>2 DEF Surjection, Codes, ToSet
<1>4. IsFiniteSet(1..Len(List))
  BY <1>2, FS_Interval
<1>5. IsFiniteSet(Codes)
  BY <1>3, <1>4, FS_Surjection
<1>6. QED
  BY <1>5, FS_CardinalityType

LEMMA OrdersAreSeqs ==
  ASSUME DownloaderAssumption, NEW s \in Orders
  PROVE  s \in Seq(Codes)
<1>1. PICK m \in 0..Cardinality(Codes) : s \in [1..m -> Codes]
  BY DEF Orders, SeqOf
<1>2. m \in Nat
  BY <1>1, CodesFinite
<1>3. QED
  BY <1>1, <1>2, SeqDef

LEMMA NothingIsAnOrder ==
  ASSUME DownloaderAssumption
  PROVE  <<>> \in Orders
<1>1. 0 \in 0..Cardinality(Codes)
  BY CodesFinite
<1>2. <<>> \in [1..0 -> Codes]
  OBVIOUS
<1>3. IsInjective(<<>>)
  BY DEF IsInjective
<1>4. QED
  BY <1>1, <1>2, <1>3 DEF Orders, SeqOf

\* A stock that is not in an order yet can be put behind it.
LEMMA OrderGrows ==
  ASSUME DownloaderAssumption, NEW s \in Orders, NEW code \in Codes, code \notin ToSet(s)
  PROVE  Append(s, code) \in Orders
<1>1. PICK m \in 0..Cardinality(Codes) : s \in [1..m -> Codes]
  BY DEF Orders, SeqOf
<1>2. m \in Nat /\ Cardinality(Codes) \in Nat /\ IsFiniteSet(Codes) /\ m <= Cardinality(Codes)
  BY <1>1, CodesFinite
<1>3. IsInjective(s)
  BY DEF Orders
<1>4. \A i \in 1..m : s[i] # code
  BY <1>1 DEF ToSet
<1>5. s \in Injection(1..m, Codes \ {code})
  <2>1. s \in [1..m -> Codes \ {code}]
    BY <1>1, <1>4
  <2>2. QED
    BY <1>3, <2>1 DEF Injection
<1>6. m <= Cardinality(Codes) - 1
  <2>1. /\ IsFiniteSet(Codes \ {code})
        /\ Cardinality(Codes \ {code}) = Cardinality(Codes) - 1
    BY <1>2, FS_RemoveElement
  <2>2. Cardinality(1..m) <= Cardinality(Codes \ {code})
    BY <1>5, <2>1, FS_Injection
  <2>3. Cardinality(1..m) = m
    <3>1. Cardinality(1..m) = IF 1 > m THEN 0 ELSE m - 1 + 1
      BY <1>2, FS_Interval
    <3>2. QED
      BY <1>2, <3>1
  <2>4. QED
    BY <2>1, <2>2, <2>3
<1>7. s \in Seq(Codes) /\ Len(s) = m
  BY <1>1, <1>2, SeqDef
<1>8. /\ Append(s, code) \in [1..(m + 1) -> Codes]
      /\ \A i \in 1..m : Append(s, code)[i] = s[i]
      /\ Append(s, code)[m + 1] = code
  <2>1. Append(s, code) \in Seq(Codes) /\ Len(Append(s, code)) = m + 1
    BY <1>7, AppendProperties
  <2>2. Append(s, code) \in [1..(m + 1) -> Codes]
    BY <2>1, LenProperties
  <2>3. QED
    BY <1>7, <2>2, AppendProperties
<1>9. IsInjective(Append(s, code))
  <2> DEFINE a == Append(s, code)
  <2>1. DOMAIN a = 1..(m + 1)
    BY <1>8
  <2>2. ASSUME NEW i \in 1..(m + 1), NEW j \in 1..(m + 1), a[i] = a[j] PROVE i = j
    <3>1. /\ i \in 1..m \/ i = m + 1
          /\ j \in 1..m \/ j = m + 1
      BY <1>2
    <3>2. \A x, y \in 1..m : s[x] = s[y] => x = y
      BY <1>1, <1>3 DEF IsInjective
    <3>3. QED
      BY <1>4, <1>8, <2>2, <3>1, <3>2
  <2>3. QED
    BY <2>1, <2>2 DEF IsInjective
<1>10. m + 1 \in 0..Cardinality(Codes)
  BY <1>2, <1>6
<1>11. QED
  BY <1>8, <1>9, <1>10 DEF Orders, SeqOf

\* What _update_sync records is an order of stocks.
LEMMA RecordedIsAnOrder ==
  ASSUME DownloaderAssumption, synced \in Orders, memory \in Orders \cup {None},
         run.togo \in Seq(Codes), run.togo # <<>>
  PROVE  Recorded \in Orders
<1> DEFINE old == IF memory \in {None, <<>>} THEN synced ELSE memory
           code == Head(run.togo)
<1>1. old \in Orders
  OBVIOUS
<1>2. code \in Codes
  OBVIOUS
<1>3. Recorded = IF code \in ToSet(old) THEN old ELSE Append(old, code)
  BY DEF Recorded
<1>4. QED
  <2> HIDE DEF old, code
  <2> QED BY <1>1, <1>2, <1>3, OrderGrows
-----------------------------------------------------------------------------
(* What the steps of a call write keeps its type *)

\* A page: the bars that end offset bars before the newest.
LEMMA PageOfBars ==
  ASSUME NEW offset \in Nat, NEW count \in Nat \ {0}, MaxTop \in Nat, top \in 1..MaxTop
  PROVE  /\ Bars(offset, count) \in Seq(1..MaxTop)
         /\ top - offset <= 0 => Bars(offset, count) = <<>>
         /\ \A i \in DOMAIN Bars(offset, count) : Bars(offset, count)[i] <= top - offset
         /\ offset = 0 => \E first \in 1..top :
              /\ first = 1 \/ first = top - count + 1
              /\ Len(Bars(0, count)) = top + 1 - first
              /\ \A i \in 1..(top + 1 - first) : Bars(0, count)[i] = first + i - 1
<1> DEFINE last == IF offset < top THEN top - offset ELSE 0
           first == IF last > count THEN last - count + 1 ELSE 1
<1>1. last \in Nat /\ first \in Nat /\ first >= 1 /\ last <= MaxTop /\ last + 1 - first \in Nat
  OBVIOUS
<1>2. Bars(offset, count) = [i \in 1..(last + 1 - first) |-> first + i - 1]
  BY DEF Bars
<1>3. \A i \in 1..(last + 1 - first) : first + i - 1 \in 1..MaxTop
  <2> HIDE DEF last, first
  <2> QED BY <1>1
<1>4. /\ Bars(offset, count) \in Seq(1..MaxTop)
      /\ Len(Bars(offset, count)) = last + 1 - first
  <2> HIDE DEF last, first
  <2>1. [i \in 1..(last + 1 - first) |-> first + i - 1] \in [1..(last + 1 - first) -> 1..MaxTop]
    BY <1>3
  <2>2. Bars(offset, count) \in Seq(1..MaxTop)
    BY <1>1, <1>2, <2>1, SeqDef
  <2>3. DOMAIN Bars(offset, count) = 1..(last + 1 - first)
    BY <1>2
  <2>4. QED
    BY <1>1, <2>2, <2>3
<1>5. ASSUME top - offset <= 0 PROVE Bars(offset, count) = <<>>
  <2>1. last + 1 - first = 0
    BY <1>5
  <2>2. Len(Bars(offset, count)) = 0
    BY <1>4, <2>1
  <2>3. QED
    BY <1>4, <2>2, EmptySeq
<1>6. DOMAIN Bars(offset, count) = 1..(last + 1 - first)
  <2> HIDE DEF last, first
  <2> QED BY <1>2
<1>7. ASSUME NEW i \in DOMAIN Bars(offset, count) PROVE Bars(offset, count)[i] <= top - offset
  <2>1. i \in 1..(last + 1 - first) /\ Bars(offset, count)[i] = first + i - 1
    <3> HIDE DEF last, first
    <3> QED BY <1>2, <1>6, <1>7
  <2>2. first + i - 1 <= last
    <3> HIDE DEF last, first
    <3> QED BY <1>1, <2>1
  <2>3. last = top - offset
    BY <1>1, <2>1
  <2>4. QED
    BY <2>1, <2>2, <2>3
<1>8. ASSUME offset = 0
      PROVE  \E f \in 1..top :
               /\ f = 1 \/ f = top - count + 1
               /\ Len(Bars(0, count)) = top + 1 - f
               /\ \A i \in 1..(top + 1 - f) : Bars(0, count)[i] = f + i - 1
  <2>1. last = top /\ first \in 1..top /\ (first = 1 \/ first = top - count + 1)
    BY <1>8
  <2>2. Len(Bars(0, count)) = top + 1 - first
    <3> HIDE DEF last, first
    <3> QED BY <1>4, <1>8, <2>1
  <2>3. \A i \in 1..(top + 1 - first) : Bars(0, count)[i] = first + i - 1
    <3> HIDE DEF last, first
    <3> QED BY <1>2, <1>8, <2>1
  <2>4. QED
    <3> HIDE DEF last, first
    <3> QED BY <2>1, <2>2, <2>3
<1>9. QED
  BY <1>4, <1>5, <1>7, <1>8

LEMMA NewerBars ==
  ASSUME NEW bars \in Seq(1..MaxTop)
  PROVE  Newer(bars) \in Seq(1..MaxTop)
BY PlacesGiveBars DEF Newer

LEMMA ThisIsAFile ==
  ASSUME RunOK(run), run.at \in {"pages", "write", "sync", "save"}
  PROVE  This \in Jobs \X Codes /\ run.jobs # <<>> /\ run.togo # <<>>
<1>1. run.jobs # <<>> /\ run.togo # <<>> /\ run.jobs \in Seq(Jobs) /\ run.togo \in Seq(Codes)
  BY DEF RunOK
<1>2. Head(run.jobs) \in Jobs /\ Head(run.togo) \in Codes
  BY <1>1
<1>3. QED
  BY <1>1, <1>2 DEF This

LEMMA WrittenBars ==
  ASSUME DiskOK, This \in Jobs \X Codes, NEW bars \in Seq(1..MaxTop)
  PROVE  Written(bars) \in Seq(1..MaxTop)
<1>1. file[This] \in Seq(1..MaxTop)
  BY DEF DiskOK
<1>2. QED
  BY <1>1, ConcatProperties DEF Written

LEMMA IdleOK == RunOK(Idle)
<1>1. <<>> \in Seq(Jobs) /\ <<>> \in Seq(Codes) /\ <<>> \in Seq(1..MaxTop) /\ Len(<<>>) = 0
  BY EmptySeq
<1>2. QED
  BY <1>1 DEF RunOK, Idle

\* The stages of a call: each leaves its locals in order.
LEMMA StartOK ==
  ASSUME NEW jobs \in Seq(Jobs), NEW codes \in {None} \cup Seq(Codes), Start(jobs, codes)
  PROVE  RunOK(run')
<1>1. <<>> \in Seq(Codes) /\ <<>> \in Seq(1..MaxTop) /\ Len(<<>>) = 0
  BY EmptySeq
<1>2. run' = [at |-> "list", jobs |-> jobs, codes |-> codes, togo |-> <<>>, done |-> 0,
              total |-> 0, offset |-> 0, bars |-> <<>>]
  BY DEF Start, Idle
<1>3. QED
  BY <1>1, <1>2 DEF RunOK

LEMMA StocksOK ==
  ASSUME RunOK(run), run.jobs # <<>>, NEW list \in Seq(Codes), Stocks(list)
  PROVE  RunOK(run')
<1>1. Len(list) \in Nat
  OBVIOUS
<1>2. run' = [run EXCEPT !.at = IF list = <<>> THEN "finish" ELSE "pages", !.togo = list,
                         !.done = 0, !.total = Len(list)]
  BY DEF Stocks
<1>3. run' \in [at : {"idle", "list", "pages", "write", "sync", "save", "finish"},
                jobs : Seq(Jobs), codes : {None} \cup Seq(Codes), togo : Seq(Codes),
                done : Nat, total : Nat, offset : Nat, bars : Seq(1..MaxTop)]
  BY <1>1, <1>2 DEF RunOK
<1>4. /\ run'.at = IF list = <<>> THEN "finish" ELSE "pages"
      /\ run'.jobs = run.jobs /\ run'.togo = list /\ run'.done = 0 /\ run'.total = Len(list)
  BY <1>2 DEF RunOK
<1>5. QED
  BY <1>1, <1>3, <1>4 DEF RunOK

LEMMA NextJobOK ==
  ASSUME RunOK(run), run.jobs # <<>>
  PROVE  RunOK(NextJob)
<1>1. Tail(run.jobs) \in Seq(Jobs) /\ <<>> \in Seq(Codes) /\ Len(<<>>) = 0
  BY EmptySeq, HeadTailProperties DEF RunOK
<1>2. NextJob \in [at : {"idle", "list", "pages", "write", "sync", "save", "finish"},
                   jobs : Seq(Jobs), codes : {None} \cup Seq(Codes), togo : Seq(Codes),
                   done : Nat, total : Nat, offset : Nat, bars : Seq(1..MaxTop)]
  BY <1>1 DEF RunOK, NextJob
<1>3. NextJob.at = "list" /\ NextJob.togo = <<>> /\ NextJob.done = 0 /\ NextJob.total = 0
  BY DEF RunOK, NextJob
<1>4. QED
  BY <1>1, <1>2, <1>3 DEF RunOK

LEMMA DownloadedOK ==
  ASSUME RunOK(run), run.at = "pages", NEW bars \in Seq(1..MaxTop), Downloaded(bars)
  PROVE  RunOK(run')
<1>1. Newer(bars) \in Seq(1..MaxTop)
  BY NewerBars
<1>2. run' = [run EXCEPT !.at = IF Newer(bars) = <<>> THEN "save" ELSE "write",
                         !.bars = Newer(bars), !.offset = 0]
  BY DEF Downloaded
<1>3. QED
  BY <1>1, <1>2 DEF RunOK

\* A stock's turn goes on: only the stage and the bars change.
LEMMA StageOK ==
  ASSUME RunOK(run), run.at \in {"pages", "write", "sync", "save"},
         NEW at \in {"sync", "save"}, NEW bars \in Seq(1..MaxTop), NEW offset \in Nat
  PROVE  /\ RunOK([run EXCEPT !.at = at]) /\ RunOK([run EXCEPT !.at = at, !.bars = bars])
         /\ RunOK([run EXCEPT !.at = at, !.bars = bars, !.offset = offset])
BY DEF RunOK

LEMMA ResumedList ==
  ASSUME NEW job, NEW list \in Seq(Codes)
  PROVE  Resumed(job, list) \in Seq(Codes)
<1> DEFINE at == IF checkpoint = None THEN {} ELSE {i \in DOMAIN list : list[i] = checkpoint.code}
           i == CHOOSE i \in at : TRUE
<1>1. Resumed(job, list) \in {list, SubSeq(list, i + 1, Len(list))}
  BY DEF Resumed
<1>2. at # {} => i \in 1..Len(list)
  OBVIOUS
<1>3. at # {} => SubSeq(list, i + 1, Len(list)) \in Seq(Codes)
  <2> HIDE DEF i, at
  <2> QED BY <1>2
<1>4. at = {} => Resumed(job, list) = list
  BY DEF Resumed
<1>5. QED
  BY <1>1, <1>3, <1>4
-----------------------------------------------------------------------------
(* Types: one step per action *)

LEMMA TypePartsNext == TypeOK' <=> WorldOK' /\ DiskOK' /\ InsideOK' /\ RunOK(run')
BY DEF TypeOK, WorldOK, DiskOK, InsideOK, RunOK

\* The parts of the state that a step leaves alone, or of which it only counts a fault.
LEMMA TypeKept ==
  ASSUME DownloaderAssumption, TypeOK
  PROVE  /\ UNCHANGED world => WorldOK'
         /\ Fault /\ UNCHANGED <<format, fq, top>> => WorldOK'
         /\ UNCHANGED disk => DiskOK'
         /\ UNCHANGED inside => InsideOK'
         /\ memory' = None /\ counter' = 0 => InsideOK'
         /\ UNCHANGED run => RunOK(run')
         /\ run' = Idle => RunOK(run')
<1>1. WorldOK /\ DiskOK /\ InsideOK /\ RunOK(run)
  BY TypeParts
<1>2. SyncEvery \in Nat \ {0} /\ MaxFaults \in Nat
  BY DEF DownloaderAssumption
<1>3. UNCHANGED world => WorldOK'
  BY <1>1 DEF WorldOK, world
<1>4. Fault /\ UNCHANGED <<format, fq, top>> => WorldOK'
  BY <1>1, <1>2 DEF WorldOK, Fault
<1>5. UNCHANGED disk => DiskOK'
  BY <1>1 DEF DiskOK, disk
<1>6. UNCHANGED inside => InsideOK'
  BY <1>1 DEF InsideOK, inside
<1>7. memory' = None /\ counter' = 0 => InsideOK'
  BY <1>2 DEF InsideOK
<1>8. UNCHANGED run => RunOK(run')
  BY <1>1
<1>9. run' = Idle => RunOK(run')
  BY IdleOK
<1>10. QED
  BY <1>3, <1>4, <1>5, <1>6, <1>7, <1>8, <1>9

\* A file or a checkpoint of the right type keeps the disk in order.
LEMMA DiskKept ==
  ASSUME DownloaderAssumption, DiskOK
  PROVE  /\ \A f \in Jobs \X Codes, bars \in Seq(1..MaxTop) :
              file' = [file EXCEPT ![f] = bars] /\ UNCHANGED <<checkpoint, synced>> => DiskOK'
         /\ UNCHANGED <<file, synced>> /\ checkpoint' = None => DiskOK'
         /\ UNCHANGED <<file, checkpoint>> /\ synced' \in Orders => DiskOK'
<1>1. ASSUME NEW f \in Jobs \X Codes, NEW bars \in Seq(1..MaxTop),
             file' = [file EXCEPT ![f] = bars], UNCHANGED <<checkpoint, synced>>
      PROVE  DiskOK'
  <2>1. file' \in [Jobs \X Codes -> Seq(1..MaxTop)]
    BY <1>1 DEF DiskOK
  <2>2. QED
    BY <1>1, <2>1 DEF DiskOK
<1>2. UNCHANGED <<file, synced>> /\ checkpoint' = None => DiskOK'
  BY DEF DiskOK
<1>3. UNCHANGED <<file, checkpoint>> /\ synced' \in Orders => DiskOK'
  BY DEF DiskOK
<1>4. QED
  BY <1>1, <1>2, <1>3

LEMMA CheckpointKept ==
  ASSUME DiskOK, run.jobs \in Seq(Jobs), run.jobs # <<>>, NEW code \in Codes \cup {None},
         NEW done \in Nat, NEW total \in Nat, Checkpoint(code, done, total), UNCHANGED <<file, synced>>
  PROVE  DiskOK'
<1>1. Head(run.jobs) \in Jobs
  OBVIOUS
<1>2. checkpoint' \in [job : Jobs, code : Codes \cup {None}, done : Nat, total : Nat]
  BY <1>1 DEF Checkpoint
<1>3. QED
  BY <1>2 DEF DiskOK

LEMMA TypeOfWorldSteps ==
  ASSUME DownloaderAssumption, TypeOK, NewBar \/ Killed \/ Expire \/ NewDownloader
  PROVE  TypeOK'
<1>1. WorldOK /\ DiskOK /\ InsideOK /\ RunOK(run)
  BY TypeParts
<1>2. CASE NewBar
  <2>1. WorldOK'
    BY <1>1, <1>2 DEF NewBar, WorldOK
  <2>2. QED
    BY <1>2, <2>1, TypeKept, TypePartsNext DEF NewBar
<1>3. CASE Killed
  <2>1. run' = Idle /\ (UNCHANGED inside \/ (memory' = None /\ counter' = 0))
    BY <1>3 DEF Killed, Ends
  <2>2. QED
    BY <1>3, <2>1, TypeKept, TypePartsNext DEF Killed
<1>4. CASE Expire
  <2>1. DiskOK'
    BY <1>1, <1>4, DiskKept DEF Expire
  <2>2. QED
    BY <1>4, <2>1, TypeKept, TypePartsNext DEF Expire
<1>5. CASE NewDownloader
  BY <1>5, TypeKept, TypePartsNext DEF NewDownloader
<1>6. QED
  BY <1>2, <1>3, <1>4, <1>5

LEMMA TypeOfCalls ==
  ASSUME DownloaderAssumption, TypeOK, NEW jobs \in Lists, NEW codes \in Given \cup {None}, Run(jobs, codes) \/ Update(jobs, codes)
  PROVE  TypeOK'
<1>1. WorldOK /\ DiskOK /\ InsideOK /\ RunOK(run)
  BY TypeParts
<1>2. jobs \in Seq(Jobs) /\ codes \in {None} \cup Seq(Codes)
  BY DEF DownloaderAssumption
<1>3. CASE Run(jobs, codes)
  <2>1. RunOK(run')
    BY <1>2, <1>3, StartOK DEF Run
  <2>2. QED
    BY <1>3, <2>1, TypeKept, TypePartsNext DEF Run
<1>4. CASE Update(jobs, codes)
  <2>1. synced \in Orders /\ synced \in Seq(Codes)
    BY <1>1, OrdersAreSeqs DEF DiskOK
  <2>2. CASE synced = <<>> /\ codes = None
    <3>1. Start(jobs, None) /\ UNCHANGED memory
      BY <1>4, <2>2 DEF Update
    <3>2. RunOK(run')
      BY <1>2, <3>1, StartOK
    <3>3. UNCHANGED world /\ UNCHANGED disk /\ UNCHANGED inside
      BY <1>4, <3>1 DEF Update, inside
    <3>4. QED
      BY <3>2, <3>3, TypeKept, TypePartsNext
  <2>3. CASE ~(synced = <<>> /\ codes = None)
    <3>1. memory' = synced /\ Start(jobs, IF codes = None THEN synced ELSE codes)
      BY <1>4, <2>3 DEF Update
    <3>2. (IF codes = None THEN synced ELSE codes) \in {None} \cup Seq(Codes)
      BY <1>2, <2>1
    <3>3. RunOK(run')
      BY <1>2, <3>1, <3>2, StartOK
    <3>4. UNCHANGED world /\ UNCHANGED disk /\ UNCHANGED counter
      BY <1>4 DEF Update
    <3>5. InsideOK'
      BY <1>1, <2>1, <3>1, <3>4 DEF InsideOK
    <3>6. QED
      BY <3>3, <3>4, <3>5, TypeKept, TypePartsNext
  <2>4. QED
    BY <2>2, <2>3
<1>5. QED
  BY <1>3, <1>4

LEMMA TypeOfLists ==
  ASSUME DownloaderAssumption, TypeOK, FetchList \/ FetchListCut \/ FetchListFails \/ TakeCodes
  PROVE  TypeOK'
<1>1. WorldOK /\ DiskOK /\ InsideOK /\ RunOK(run)
  BY TypeParts
<1>2. List \in Seq(Codes) /\ run.jobs \in Seq(Jobs)
  BY <1>1 DEF DownloaderAssumption, RunOK
<1>3. CASE FetchList
  <2>1. Resumed(Head(run.jobs), List) \in Seq(Codes)
    BY <1>2, ResumedList
  <2>2. RunOK(run')
    BY <1>1, <1>3, <2>1, StocksOK DEF FetchList
  <2>3. QED
    BY <1>3, <2>2, TypeKept, TypePartsNext DEF FetchList
<1>4. CASE FetchListCut
  <2>1. run.jobs # <<>> /\ Fault /\ UNCHANGED <<format, fq, top>> /\ UNCHANGED disk /\ UNCHANGED inside
    BY <1>4 DEF FetchListCut
  <2>2. RunOK(run')
    <3>1. PICK n \in 0..(Len(List) - 1) :
             IF n = 0 THEN run' = NextJob ELSE Stocks(Resumed(Head(run.jobs), SubSeq(List, 1, n)))
      BY <1>4 DEF FetchListCut
    <3>2. CASE n = 0
      BY <1>1, <2>1, <3>1, <3>2, NextJobOK
    <3>3. CASE n # 0
      <4>1. SubSeq(List, 1, n) \in Seq(Codes)
        BY <1>2, <3>1
      <4>2. Resumed(Head(run.jobs), SubSeq(List, 1, n)) \in Seq(Codes)
        BY <4>1, ResumedList
      <4>3. QED
        BY <1>1, <2>1, <3>1, <3>3, <4>2, StocksOK
    <3>4. QED
      BY <3>2, <3>3
  <2>3. QED
    BY <2>1, <2>2, TypeKept, TypePartsNext
<1>5. CASE FetchListFails
  <2>1. /\ run.jobs # <<>> /\ Fault /\ UNCHANGED <<format, fq, top>> /\ UNCHANGED inside
        /\ run' = NextJob /\ Checkpoint(None, 0, 0) /\ UNCHANGED <<file, synced>>
    BY <1>5 DEF FetchListFails
  <2>2. DiskOK'
    BY <1>1, <1>2, <2>1, CheckpointKept
  <2>3. RunOK(run')
    BY <1>1, <2>1, NextJobOK
  <2>4. QED
    BY <2>1, <2>2, <2>3, TypeKept, TypePartsNext
<1>6. CASE TakeCodes
  <2>1. run.codes \in Seq(Codes)
    BY <1>1, <1>6 DEF TakeCodes, RunOK
  <2>2. RunOK(run')
    BY <1>1, <1>6, <2>1, StocksOK DEF TakeCodes
  <2>3. QED
    BY <1>6, <2>2, TypeKept, TypePartsNext DEF TakeCodes
<1>7. QED
  BY <1>3, <1>4, <1>5, <1>6

LEMMA TypeOfSummaries ==
  ASSUME DownloaderAssumption, TypeOK, Summary \/ SummaryTears
  PROVE  TypeOK'
<1>1. WorldOK /\ DiskOK /\ InsideOK /\ RunOK(run)
  BY TypeParts
<1>2. CASE Summary
  <2>1. synced' \in Orders
    BY <1>1, <1>2 DEF Summary, DiskOK, InsideOK
  <2>2. DiskOK'
    BY <1>1, <1>2, <2>1, DiskKept DEF Summary
  <2>3. QED
    BY <1>2, <2>2, TypeKept, TypePartsNext DEF Summary
<1>3. CASE SummaryTears
  <2>1. synced' \in Orders
    BY <1>3, NothingIsAnOrder DEF SummaryTears
  <2>2. DiskOK'
    BY <1>1, <1>3, <2>1, DiskKept DEF SummaryTears
  <2>3. run' = Idle /\ (UNCHANGED inside \/ (memory' = None /\ counter' = 0))
    BY <1>3 DEF SummaryTears, Ends
  <2>4. QED
    BY <1>3, <2>2, <2>3, TypeKept, TypePartsNext DEF SummaryTears
<1>4. QED
  BY <1>2, <1>3

LEMMA TypeOfPages ==
  ASSUME DownloaderAssumption, TypeOK, Request \/ RequestEmpty \/ RequestFails
  PROVE  TypeOK'
<1>1. WorldOK /\ DiskOK /\ InsideOK /\ RunOK(run)
  BY TypeParts
<1>2. run.bars \in Seq(1..MaxTop) /\ run.offset \in Nat /\ Page \in Nat \ {0} /\ MaxTop \in Nat
  BY <1>1 DEF RunOK, DownloaderAssumption
<1>3. CASE Request
  <2> DEFINE page == Bars(run.offset, Page)
  <2>1. page \in Seq(1..MaxTop)
    BY <1>1, <1>2, PageOfBars DEF WorldOK
  <2>2. run.bars \o page \in Seq(1..MaxTop)
    <3> HIDE DEF page
    <3> QED BY <1>2, <2>1, ConcatProperties
  <2>3. \/ Downloaded(run.bars \o page)
        \/ run' = [run EXCEPT !.bars = run.bars \o page, !.offset = @ + Page]
    BY <1>3 DEF Request
  <2>4. run.at = "pages" /\ UNCHANGED <<world, disk, inside>>
    BY <1>3 DEF Request
  <2>5. CASE Downloaded(run.bars \o page)
    <3> HIDE DEF page
    <3>1. RunOK(run')
      BY <1>1, <2>2, <2>4, <2>5, DownloadedOK
    <3>2. QED
      BY <2>4, <3>1, TypeKept, TypePartsNext
  <2>6. CASE run' = [run EXCEPT !.bars = run.bars \o page, !.offset = @ + Page]
    <3> HIDE DEF page
    <3>1. RunOK(run')
      <4> DEFINE bars == run.bars \o page
      <4>1. bars \in Seq(1..MaxTop) /\ run.offset + Page \in Nat
        BY <1>2, <2>2
      <4>2. run' = [run EXCEPT !.bars = bars, !.offset = run.offset + Page]
        BY <2>6
      <4>3. QED
        <5> HIDE DEF bars
        <5> QED BY <1>1, <4>1, <4>2 DEF RunOK
    <3>2. QED
      BY <2>4, <3>1, TypeKept, TypePartsNext
  <2>7. QED
    BY <2>3, <2>5, <2>6
<1>4. CASE RequestEmpty
  <2>1. RunOK(run')
    BY <1>1, <1>2, <1>4, DownloadedOK DEF RequestEmpty
  <2>2. QED
    BY <1>4, <2>1, TypeKept, TypePartsNext DEF RequestEmpty
<1>5. CASE RequestFails
  <2>1. <<>> \in Seq(1..MaxTop)
    BY EmptySeq
  <2>2. RunOK(run')
    BY <1>1, <1>5, <2>1, StageOK DEF RequestFails
  <2>3. QED
    BY <1>5, <2>2, TypeKept, TypePartsNext DEF RequestFails
<1>6. QED
  BY <1>3, <1>4, <1>5

LEMMA TypeOfWrites ==
  ASSUME DownloaderAssumption, TypeOK, Write \/ WriteTears \/ MergeFails
  PROVE  TypeOK'
<1>1. WorldOK /\ DiskOK /\ InsideOK /\ RunOK(run)
  BY TypeParts
<1>2. run.at = "write" /\ run.bars \in Seq(1..MaxTop) /\ <<>> \in Seq(1..MaxTop)
  BY <1>1, EmptySeq DEF RunOK, Write, WriteTears, MergeFails
<1>3. This \in Jobs \X Codes
  BY <1>1, <1>2, ThisIsAFile
<1>4. CASE Write
  <2>1. DiskOK'
    <3>1. Written(run.bars) \in Seq(1..MaxTop)
      BY <1>1, <1>2, <1>3, WrittenBars
    <3>2. QED
      BY <1>1, <1>3, <1>4, <3>1, DiskKept DEF Write
  <2>2. RunOK(run')
    BY <1>1, <1>2, <1>4, StageOK DEF Write
  <2>3. QED
    BY <1>4, <2>1, <2>2, TypeKept, TypePartsNext DEF Write
<1>5. CASE WriteTears
  <2>1. DiskOK'
    <3>1. PICK n \in 0..(Len(run.bars) - 1) :
            file' = [file EXCEPT ![This] = IF format = "tdx" THEN Written(SubSeq(run.bars, 1, n)) ELSE <<>>]
      BY <1>5 DEF WriteTears
    <3>2. SubSeq(run.bars, 1, n) \in Seq(1..MaxTop)
      BY <1>2, <3>1
    <3>3. Written(SubSeq(run.bars, 1, n)) \in Seq(1..MaxTop)
      BY <1>1, <1>3, <3>2, WrittenBars
    <3>4. (IF format = "tdx" THEN Written(SubSeq(run.bars, 1, n)) ELSE <<>>) \in Seq(1..MaxTop)
      BY <1>2, <3>3
    <3>5. QED
      BY <1>1, <1>3, <1>5, <3>1, <3>4, DiskKept DEF WriteTears
  <2>2. RunOK(run') /\ InsideOK'
    <3>1. CASE Ends
      BY <3>1, TypeKept DEF Ends
    <3>2. CASE run' = [run EXCEPT !.at = "save", !.bars = <<>>] /\ UNCHANGED inside
      BY <1>1, <1>2, <3>2, StageOK, TypeKept
    <3>3. QED
      BY <1>5, <3>1, <3>2 DEF WriteTears
  <2>3. QED
    BY <1>5, <2>1, <2>2, TypeKept, TypePartsNext DEF WriteTears
<1>6. CASE MergeFails
  <2>1. DiskOK'
    BY <1>1, <1>2, <1>3, <1>6, DiskKept DEF MergeFails
  <2>2. RunOK(run')
    BY <1>1, <1>2, <1>6, StageOK DEF MergeFails
  <2>3. QED
    BY <1>6, <2>1, <2>2, TypeKept, TypePartsNext DEF MergeFails
<1>7. QED
  BY <1>4, <1>5, <1>6

LEMMA TypeOfRecords ==
  ASSUME DownloaderAssumption, TypeOK, UpdateSync \/ UpdateSyncTears
  PROVE  TypeOK'
<1>1. WorldOK /\ DiskOK /\ InsideOK /\ RunOK(run)
  BY TypeParts
<1>2. run.at = "sync" /\ SyncEvery \in Nat \ {0}
  BY DEF UpdateSync, UpdateSyncTears, DownloaderAssumption
<1>3. Recorded \in Orders
  BY <1>1, <1>2, RecordedIsAnOrder DEF DiskOK, InsideOK, RunOK
<1>4. ASSUME Remember PROVE InsideOK' /\ memory' \in Orders
  <2>1. (counter + 1) % SyncEvery \in 0..(SyncEvery - 1)
    BY <1>1, <1>2 DEF InsideOK
  <2>2. QED
    BY <1>3, <1>4, <2>1 DEF Remember, InsideOK
<1>5. CASE UpdateSync
  <2>1. Remember
    BY <1>5 DEF UpdateSync
  <2>2. synced' \in Orders
    BY <1>1, <1>4, <1>5, <2>1 DEF UpdateSync, DiskOK
  <2>3. DiskOK'
    BY <1>1, <1>5, <2>2, DiskKept DEF UpdateSync
  <2>4. RunOK(run')
    BY <1>1, <1>2, <1>5, StageOK, EmptySeq DEF UpdateSync
  <2>5. QED
    BY <1>4, <1>5, <2>1, <2>3, <2>4, TypeKept, TypePartsNext DEF UpdateSync
<1>6. CASE UpdateSyncTears
  <2>1. DiskOK'
    BY <1>1, <1>6, NothingIsAnOrder, DiskKept DEF UpdateSyncTears
  <2>2. RunOK(run') /\ InsideOK'
    <3>1. CASE run' = Idle /\ memory' = None /\ counter' = 0
      BY <3>1, TypeKept
    <3>2. CASE run' \in {Idle, [run EXCEPT !.at = "save"]} /\ Remember
      <4>1. RunOK(Idle) /\ RunOK([run EXCEPT !.at = "save"])
        BY <1>1, <1>2, IdleOK, StageOK, EmptySeq
      <4>2. QED
        BY <1>4, <3>2, <4>1
    <3>3. QED
      BY <1>6, <3>1, <3>2 DEF UpdateSyncTears
  <2>3. QED
    BY <1>6, <2>1, <2>2, TypeKept, TypePartsNext DEF UpdateSyncTears
<1>7. QED
  BY <1>5, <1>6

LEMMA TypeOfSaves ==
  ASSUME DownloaderAssumption, TypeOK, Save \/ Finish \/ SaveTears
  PROVE  TypeOK'
<1>1. WorldOK /\ DiskOK /\ InsideOK /\ RunOK(run)
  BY TypeParts
<1>2. run.jobs \in Seq(Jobs) /\ run.jobs # <<>> /\ run.done \in Nat /\ run.total \in Nat /\ run.done + 1 \in Nat
  BY <1>1 DEF RunOK, Save, Finish, SaveTears
<1>3. CASE Save
  <2>1. run.at = "save" /\ run.togo \in Seq(Codes) /\ run.togo # <<>>
    BY <1>1, <1>3 DEF Save, RunOK
  <2>2. Head(run.togo) \in Codes
    BY <2>1
  <2>3. DiskOK'
    <3>1. CASE Checkpoint(Head(run.togo), run.done + 1, run.total)
      BY <1>1, <1>2, <1>3, <2>2, <3>1, CheckpointKept DEF Save
    <3>2. CASE UNCHANGED checkpoint
      <4>1. UNCHANGED disk
        BY <1>3, <3>2 DEF Save, disk
      <4>2. QED
        BY <4>1, TypeKept
    <3>3. QED
      BY <1>3, <3>1, <3>2 DEF Save
  <2>4. RunOK(run')
    <3> DEFINE rest == Tail(run.togo)
    <3>1. rest \in Seq(Codes) /\ Len(rest) = Len(run.togo) - 1 /\ Len(run.togo) \in Nat
      BY <2>1, HeadTailProperties
    <3>2. Len(run.togo) # 1 => rest # <<>>
      <4> HIDE DEF rest
      <4>1. Len(run.togo) # 1 => Len(rest) # 0
        BY <3>1
      <4>2. QED
        BY <4>1
    <3>3. run' = [run EXCEPT !.at = IF Len(run.togo) = 1 THEN "finish" ELSE "pages",
                             !.togo = rest, !.done = run.done + 1]
      BY <1>3 DEF Save
    <3> HIDE DEF rest
    <3>4. run' \in [at : {"idle", "list", "pages", "write", "sync", "save", "finish"},
                    jobs : Seq(Jobs), codes : {None} \cup Seq(Codes), togo : Seq(Codes),
                    done : Nat, total : Nat, offset : Nat, bars : Seq(1..MaxTop)]
      BY <1>1, <1>2, <3>1, <3>3 DEF RunOK
    <3>5. /\ run'.at = IF Len(run.togo) = 1 THEN "finish" ELSE "pages"
          /\ run'.jobs = run.jobs /\ run'.togo = rest /\ run'.done = run.done + 1 /\ run'.total = run.total
      BY <1>1, <3>3 DEF RunOK
    <3>6. run.total = run.done + Len(run.togo)
      BY <1>1 DEF RunOK
    <3>7. run'.total = run'.done + Len(run'.togo)
      <4>1. ASSUME NEW a \in Nat, NEW b \in Nat, NEW c \in Nat, c = a + b
            PROVE  c = (a + 1) + (b - 1)
        BY <4>1
      <4>2. run.total = (run.done + 1) + (Len(run.togo) - 1)
        BY <1>2, <3>1, <3>6, <4>1
      <4>3. QED
        BY <3>1, <3>5, <4>2
    <3>8. QED
      BY <1>2, <3>2, <3>4, <3>5, <3>7 DEF RunOK
  <2>5. QED
    BY <1>3, <2>3, <2>4, TypeKept, TypePartsNext DEF Save
<1>4. CASE Finish
  <2>1. DiskOK'
    BY <1>1, <1>2, <1>4, CheckpointKept DEF Finish
  <2>2. RunOK(run')
    BY <1>1, <1>2, <1>4, NextJobOK DEF Finish
  <2>3. QED
    BY <1>4, <2>1, <2>2, TypeKept, TypePartsNext DEF Finish
<1>5. CASE SaveTears
  <2>1. DiskOK'
    BY <1>1, <1>5, DiskKept DEF SaveTears
  <2>2. run' = Idle /\ (UNCHANGED inside \/ (memory' = None /\ counter' = 0))
    BY <1>5 DEF SaveTears, Ends
  <2>3. QED
    BY <1>5, <2>1, <2>2, TypeKept, TypePartsNext DEF SaveTears
<1>6. QED
  BY <1>3, <1>4, <1>5
-----------------------------------------------------------------------------
LEMMA TypeInit ==
  ASSUME DownloaderAssumption, Init
  PROVE  TypeOK
<1>1. <<>> \in Seq(1..MaxTop)
  BY EmptySeq
<1>2. WorldOK
  BY DEF Init, WorldOK, DownloaderAssumption
<1>3. DiskOK
  BY <1>1, NothingIsAnOrder DEF Init, DiskOK
<1>4. InsideOK
  BY DEF Init, InsideOK, DownloaderAssumption
<1>5. RunOK(run)
  BY IdleOK DEF Init
<1>6. QED
  BY <1>2, <1>3, <1>4, <1>5, TypeParts

LEMMA TypeStep ==
  ASSUME DownloaderAssumption, TypeOK, [Next]_vars
  PROVE  TypeOK'
<1>1. CASE \E jobs \in Lists, codes \in Given \cup {None} : Run(jobs, codes) \/ Update(jobs, codes)
  BY <1>1, TypeOfCalls
<1>2. CASE NewBar \/ Killed \/ Expire \/ NewDownloader
  BY <1>2, TypeOfWorldSteps
<1>3. CASE FetchList \/ FetchListCut \/ FetchListFails \/ TakeCodes
  BY <1>3, TypeOfLists
<1>4. CASE Summary \/ SummaryTears
  BY <1>4, TypeOfSummaries
<1>5. CASE Request \/ RequestEmpty \/ RequestFails
  BY <1>5, TypeOfPages
<1>6. CASE Write \/ WriteTears \/ MergeFails
  BY <1>6, TypeOfWrites
<1>7. CASE UpdateSync \/ UpdateSyncTears
  BY <1>7, TypeOfRecords
<1>8. CASE Save \/ Finish \/ SaveTears
  BY <1>8, TypeOfSaves
<1>9. CASE UNCHANGED vars
  BY <1>9 DEF vars, TypeOK
<1>10. QED
  BY <1>1, <1>2, <1>3, <1>4, <1>5, <1>6, <1>7, <1>8, <1>9 DEF Next, Step

\* Every variable keeps its type, for any lists, page sizes and numbers of faults: what
\* is recorded is an order of stocks of the market, each once; a call's stocks are those
\* it processed and those to go; and a stage that works on a stock has one.
THEOREM TypeCorrect == Spec => []TypeOK
<1>1. Init => TypeOK
  BY TypeInit, DownloaderAssumption
<1>2. TypeOK /\ [Next]_vars => TypeOK'
  BY TypeStep, DownloaderAssumption
<1>3. QED
  BY <1>1, <1>2, PTL DEF Spec
-----------------------------------------------------------------------------
(* What is written continues the file *)

\* A sequence is a beginning of itself with something behind it.
LEMMA BeginningOfLonger ==
  ASSUME NEW B, NEW s \in Seq(B), NEW t \in Seq(B)
  PROVE  IsPrefix(s, s \o t) /\ IsPrefix(s, s)
<1>1. Len(s) \in Nat /\ Len(t) \in Nat /\ s \o t \in Seq(B) /\ Len(s \o t) = Len(s) + Len(t)
  BY ConcatProperties
<1>2. SubSeq(s, 1, Len(s)) = SubSeq(s \o t, 1, Len(s))
  <2>1. CASE Len(s) = 0
    BY <2>1, SubSeqEmpty
  <2>2. CASE Len(s) # 0
    <3>1. 1 \in 1..Len(s) /\ Len(s) \in 1..Len(s)
      BY <1>1, <2>2
    <3>2. QED
      BY <3>1, SubSeqOfConcat1
  <2>3. QED
    BY <2>1, <2>2
<1>3. QED
  BY <1>1, <1>2 DEF IsPrefix

LEMMA BeginningOfAny ==
  ASSUME NEW B, NEW t \in Seq(B)
  PROVE  IsPrefix(<<>>, t)
<1>1. Len(<<>>) = 0 /\ Len(t) \in Nat
  BY EmptySeq
<1>2. SubSeq(<<>>, 1, 0) = <<>> /\ SubSeq(t, 1, 0) = <<>>
  BY SubSeqEmpty
<1>3. QED
  BY <1>1, <1>2 DEF IsPrefix

\* No bar has the date 0, which stands for a file without bars.
LEMMA DatesArePositive ==
  ASSUME NEW bar \in 1..MaxTop, NEW job \in Jobs, DownloaderAssumption
  PROVE  Date(job, bar) \in Nat /\ Date(job, bar) >= 1
<1>1. PerDay[job] \in Nat \ {0} /\ bar - 1 \in Nat
  BY DEF DownloaderAssumption
<1>2. (bar - 1) \div PerDay[job] \in Nat
  BY <1>1
<1>3. QED
  BY <1>2 DEF Date

\* An unadjusted file is continued exactly if it has bars.
LEMMA LastOfFile ==
  ASSUME DownloaderAssumption, DiskOK, This \in Jobs \X Codes, fq = 0
  PROVE  /\ file[This] \in Seq(1..MaxTop)
         /\ ExistingLast = 0 <=> file[This] = <<>>
<1>1. file[This] \in Seq(1..MaxTop)
  BY DEF DiskOK
<1>2. ASSUME file[This] # <<>> PROVE ExistingLast # 0
  <2>1. Len(file[This]) \in 1..Len(file[This])
    BY <1>1, <1>2, EmptySeq
  <2>2. Last(file[This]) \in 1..MaxTop
    BY <1>1, <2>1 DEF Last
  <2>3. Head(run.jobs) \in Jobs
    BY DEF This
  <2>4. QED
    BY <1>2, <2>2, <2>3, DatesArePositive DEF ExistingLast
<1>3. QED
  BY <1>1, <1>2 DEF ExistingLast

LEMMA WrittenContinues ==
  ASSUME DownloaderAssumption, DiskOK, This \in Jobs \X Codes, fq = 0, NEW bars \in Seq(1..MaxTop)
  PROVE  IsPrefix(file[This], Written(bars))
<1>1. CASE file[This] = <<>>
  BY <1>1, LastOfFile, BeginningOfAny DEF Written
<1>2. CASE file[This] # <<>>
  BY <1>2, LastOfFile, BeginningOfLonger DEF Written
<1>3. QED
  BY <1>1, <1>2

\* Only writing changes files.
LEMMA FilesChangeByWriting ==
  ASSUME [Next]_vars
  PROVE  UNCHANGED file \/ Write \/ WriteTears \/ MergeFails
<1>1. ASSUME NEW jobs \in Lists, NEW codes \in Given \cup {None}, Run(jobs, codes) \/ Update(jobs, codes)
      PROVE  UNCHANGED file
  BY <1>1 DEF Run, Update, disk
<1>2. CASE NewBar \/ Killed \/ Expire \/ NewDownloader
  BY <1>2 DEF NewBar, Killed, Expire, NewDownloader, disk
<1>3. CASE FetchList \/ FetchListCut \/ FetchListFails \/ TakeCodes \/ Summary \/ SummaryTears
  BY <1>3 DEF FetchList, FetchListCut, FetchListFails, TakeCodes, Summary, SummaryTears, disk
<1>4. CASE Request \/ RequestEmpty \/ RequestFails
  BY <1>4 DEF Request, RequestEmpty, RequestFails, disk
<1>5. CASE UpdateSync \/ UpdateSyncTears \/ Save \/ Finish \/ SaveTears
  BY <1>5 DEF UpdateSync, UpdateSyncTears, Save, Finish, SaveTears
<1>6. CASE UNCHANGED vars
  BY <1>6 DEF vars
<1>7. QED
  BY <1>1, <1>2, <1>3, <1>4, <1>5, <1>6 DEF Next, Step

LEMMA HistoryStep ==
  ASSUME DownloaderAssumption, TypeOK, [Next]_vars, format = "tdx", fq = 0, NEW f \in DOMAIN file
  PROVE  IsPrefix(file[f], file'[f])
<1>1. DiskOK /\ RunOK(run)
  BY TypeParts
<1>2. f \in Jobs \X Codes /\ file[f] \in Seq(1..MaxTop) /\ file \in [Jobs \X Codes -> Seq(1..MaxTop)]
  BY <1>1 DEF DiskOK
<1>3. CASE UNCHANGED file
  BY <1>2, <1>3, BeginningOfLonger
<1>4. ASSUME run.at = "write", NEW bars \in Seq(1..MaxTop), file' = [file EXCEPT ![This] = Written(bars)]
      PROVE  IsPrefix(file[f], file'[f])
  <2>1. This \in Jobs \X Codes
    BY <1>1, <1>4, ThisIsAFile
  <2>2. IsPrefix(file[This], Written(bars))
    BY <1>1, <2>1, WrittenContinues
  <2>3. CASE f = This
    <3>1. file'[f] = Written(bars)
      BY <1>2, <1>4, <2>3
    <3>2. QED
      BY <2>2, <2>3, <3>1
  <2>4. CASE f # This
    <3>1. file'[f] = file[f]
      BY <1>2, <1>4, <2>4
    <3>2. QED
      BY <1>2, <3>1, BeginningOfLonger
  <2>5. QED
    BY <2>3, <2>4
<1>5. run.bars \in Seq(1..MaxTop)
  BY <1>1 DEF RunOK
<1>6. CASE Write
  BY <1>4, <1>5, <1>6 DEF Write
<1>7. CASE WriteTears
  <2>1. run.at = "write"
    BY <1>7 DEF WriteTears
  <2>2. PICK n \in 0..(Len(run.bars) - 1) : file' = [file EXCEPT ![This] = Written(SubSeq(run.bars, 1, n))]
    BY <1>7 DEF WriteTears
  <2>3. SubSeq(run.bars, 1, n) \in Seq(1..MaxTop)
    BY <1>5, <2>2
  <2>4. QED
    BY <1>4, <2>1, <2>2, <2>3
<1>8. ~MergeFails
  BY DEF MergeFails
<1>9. QED
  BY <1>3, <1>6, <1>7, <1>8, FilesChangeByWriting

\* What a .day file of unadjusted prices has is never lost, whatever is torn, cut off or
\* resumed, for any number of bars a day and any page size.
THEOREM HistoryIsKept == Spec => HistoryKept
<1>1. TypeOK /\ [Next]_vars =>
        [format = "tdx" /\ fq = 0 => \A f \in DOMAIN file : IsPrefix(file[f], file'[f])]_vars
  BY HistoryStep, DownloaderAssumption
<1>2. QED
  BY <1>1, TypeCorrect, PTL DEF Spec, HistoryKept
-----------------------------------------------------------------------------
(* A .day file in order: days, and what is newer *)

LEMMA ProductsKeepOrder ==
  ASSUME NEW x \in Nat, NEW y \in Nat, NEW P \in Nat, x <= y
  PROVE  x * P <= y * P
<1>1. PICK d \in Nat : y = x + d
  <2>1. y - x \in Nat /\ y = x + (y - x)
    OBVIOUS
  <2>2. QED
    BY <2>1
<1>2. y * P = x * P + d * P /\ x * P \in Nat /\ d * P \in Nat
  BY <1>1
<1>3. QED
  BY <1>2

\* The first e days have e * PerDay[job] bars.
LEMMA BarsOfDays ==
  ASSUME DownloaderAssumption, NEW job \in Jobs, NEW bar \in 1..MaxTop, NEW e \in Nat
  PROVE  Date(job, bar) > e <=> bar > e * PerDay[job]
<1> DEFINE P == PerDay[job]
           q == (bar - 1) \div P
<1>1. P \in Nat \ {0} /\ bar - 1 \in Nat /\ MaxTop \in Nat
  BY DEF DownloaderAssumption
<1>2. q \in Nat /\ q * P <= bar - 1 /\ bar - 1 < (q + 1) * P
  <2> HIDE DEF P
  <2> QED BY <1>1
<1>3. Date(job, bar) = q + 1
  BY DEF Date
<1>4. e * P \in Nat
  <2> HIDE DEF P
  <2> QED BY <1>1
<1>5. CASE e <= q
  <2>1. e * P <= q * P
    <3> HIDE DEF P, q
    <3> QED BY <1>1, <1>2, <1>5, ProductsKeepOrder
  <2>2. bar > e * P
    <3>1. q * P \in Nat
      <4> HIDE DEF P, q
      <4> QED BY <1>1, <1>2
    <3>2. QED
      <4> HIDE DEF P, q
      <4> QED BY <1>1, <1>2, <1>4, <2>1, <3>1
  <2>3. QED
    <3> HIDE DEF q
    <3> QED BY <1>2, <1>3, <1>5, <2>2
<1>6. CASE ~(e <= q)
  <2>1. q + 1 <= e /\ q + 1 \in Nat
    <3> HIDE DEF P, q
    <3> QED BY <1>2, <1>6
  <2>2. (q + 1) * P <= e * P
    <3> HIDE DEF P, q
    <3> QED BY <1>1, <2>1, ProductsKeepOrder
  <2>3. ~(bar > e * P)
    <3>1. (q + 1) * P \in Nat
      <4> HIDE DEF P, q
      <4> QED BY <1>1, <1>2
    <3>2. QED
      <4> HIDE DEF P, q
      <4> QED BY <1>1, <1>2, <1>4, <2>2, <3>1
  <2>4. QED
    <3> HIDE DEF q
    <3> QED BY <1>2, <1>3, <2>1, <2>3
<1>7. QED
  BY <1>5, <1>6

\* A file's last date stands for the last bar of that day.
LEMMA EndOfFile ==
  ASSUME DownloaderAssumption, DiskOK, fq \in {0, 1}, This \in Jobs \X Codes
  PROVE  /\ Head(run.jobs) \in Jobs /\ This[1] = Head(run.jobs)
         /\ ExistingLast \in Nat
         /\ End(This) = ExistingLast * PerDay[Head(run.jobs)] /\ End(This) \in Nat
<1>1. Head(run.jobs) \in Jobs /\ This[1] = Head(run.jobs)
  BY DEF This
<1>2. PerDay[Head(run.jobs)] \in Nat
  BY <1>1 DEF DownloaderAssumption
<1>3. CASE fq = 0 /\ file[This] # <<>>
  <2>1. file[This] \in Seq(1..MaxTop)
    BY DEF DiskOK
  <2>2. Len(file[This]) \in 1..Len(file[This])
    BY <1>3, <2>1, EmptySeq
  <2>3. Last(file[This]) \in 1..MaxTop
    BY <2>1, <2>2 DEF Last
  <2>4. ExistingLast = Date(Head(run.jobs), Last(file[This])) /\ ExistingLast \in Nat
    BY <1>1, <1>3, <2>3, DatesArePositive DEF ExistingLast
  <2>5. End(This) = ExistingLast * PerDay[Head(run.jobs)]
    BY <1>1, <1>3, <2>4 DEF End
  <2>6. ExistingLast * PerDay[Head(run.jobs)] \in Nat
    <3> DEFINE P == PerDay[Head(run.jobs)]
               e == ExistingLast
    <3>1. P \in Nat /\ e \in Nat
      BY <1>2, <2>4
    <3>2. e * P \in Nat
      <4> HIDE DEF P, e
      <4> QED BY <3>1
    <3>3. QED
      BY <3>2
  <2>7. QED
    BY <1>1, <2>4, <2>5, <2>6
<1>4. CASE ~(fq = 0 /\ file[This] # <<>>)
  <2>1. ExistingLast = 0 /\ End(This) = 0
    BY <1>4 DEF ExistingLast, End
  <2>2. 0 * PerDay[Head(run.jobs)] = 0
    BY <1>2
  <2>3. QED
    BY <1>1, <2>1, <2>2
<1>5. QED
  BY <1>3, <1>4

\* The bars at places that stand together, in their order.
LEMMA PlacesTogether ==
  ASSUME NEW L \in Nat, NEW a \in 0..L, NEW b \in a..L,
         NEW n \in 1..Cardinality({i \in 1..L : a < i /\ i <= b})
  PROVE  (CHOOSE p \in {i \in 1..L : a < i /\ i <= b} :
            Cardinality({j \in {i \in 1..L : a < i /\ i <= b} : j <= p}) = n) = a + n
         /\ a + n <= b
<1> DEFINE S == {i \in 1..L : a < i /\ i <= b}
           place == CHOOSE i \in S : Cardinality({j \in S : j <= i}) = n
<1>1. S \in SUBSET (1..L) /\ n \in 1..Cardinality(S) /\ a \in Nat /\ b \in Nat
  OBVIOUS
<1>2. \E i \in S : Cardinality({j \in S : j <= i}) = n
  <2> HIDE DEF S
  <2> QED BY <1>1, PlaceOfRank
<1>3. place \in S /\ Cardinality({j \in S : j <= place}) = n
  <2> HIDE DEF S
  <2> QED BY <1>2
<1>4. place \in Nat /\ place > a /\ place <= b /\ place <= L
  BY <1>3
<1>5. {j \in S : j <= place} = (a + 1)..place
  <2> HIDE DEF place
  <2>1. ASSUME NEW j PROVE j \in {k \in S : k <= place} <=> j \in (a + 1)..place
    BY <1>1, <1>4
  <2>2. QED
    BY <2>1
<1>6. n = place - a
  <2> HIDE DEF place
  <2>1. a + 1 \in Int /\ place \in Int
    BY <1>1, <1>4
  <2>2. Cardinality((a + 1)..place) = IF a + 1 > place THEN 0 ELSE place - (a + 1) + 1
    BY <2>1, FS_Interval
  <2>3. Cardinality((a + 1)..place) = place - a
    BY <1>1, <1>4, <2>2
  <2>4. QED
    <3> HIDE DEF S
    <3> QED BY <1>3, <1>5, <2>3
<1>7. place = a + n /\ a + n <= b
  <2> HIDE DEF place, S
  <2> QED BY <1>1, <1>4, <1>6
<1>8. QED
  BY <1>7

\* If the new bars stand together, they continue the file.
LEMMA NewerContinues ==
  ASSUME DownloaderAssumption, DiskOK, fq \in {0, 1}, This \in Jobs \X Codes,
         NEW bars \in Seq(1..MaxTop), Together(bars, End(This))
  PROVE  Numbered(Newer(bars), End(This))
<1> DEFINE L == Len(bars)
           last == End(This)
<1>1. L \in Nat /\ DOMAIN bars = 1..L /\ last \in Nat
  BY EndOfFile
<1>2a. PICK a \in 0..L : \E b \in a..L :
         \A i \in 1..L : IF a < i /\ i <= b THEN bars[i] = last + (i - a) ELSE bars[i] <= last
  BY <1>1 DEF Together
<1>2. PICK b \in a..L :
        \A i \in 1..L : IF a < i /\ i <= b THEN bars[i] = last + (i - a) ELSE bars[i] <= last
  BY <1>2a
<1>3. a \in Nat /\ b \in Nat /\ a <= b /\ b <= L
  BY <1>1
<1> DEFINE S == {i \in 1..L : a < i /\ i <= b}
<1>4. {i \in DOMAIN bars : Date(Head(run.jobs), bars[i]) > ExistingLast} = S
  <2>1. ASSUME NEW i \in 1..L
        PROVE  Date(Head(run.jobs), bars[i]) > ExistingLast <=> (a < i /\ i <= b)
    <3>1. bars[i] \in 1..MaxTop
      BY <1>1
    <3>2. Date(Head(run.jobs), bars[i]) > ExistingLast <=> bars[i] > last
      <4>1. /\ Head(run.jobs) \in Jobs /\ ExistingLast \in Nat
            /\ last = ExistingLast * PerDay[Head(run.jobs)]
        BY EndOfFile
      <4>2. Date(Head(run.jobs), bars[i]) > ExistingLast
              <=> bars[i] > ExistingLast * PerDay[Head(run.jobs)]
        BY ONLY <3>1, <4>1, BarsOfDays, DownloaderAssumption
      <4>3. QED
        <5> HIDE DEF last
        <5> QED BY <4>1, <4>2
    <3>3. bars[i] > last <=> (a < i /\ i <= b)
      <4> HIDE DEF L, last
      <4>1. CASE a < i /\ i <= b
        <5>1. bars[i] = last + (i - a)
          BY <1>2, <4>1
        <5>2. QED
          BY <1>1, <1>3, <4>1, <5>1
      <4>2. CASE ~(a < i /\ i <= b)
        <5>1. bars[i] <= last
          BY <1>2, <4>2
        <5>2. bars[i] \in Int
          BY <3>1
        <5>3. QED
          BY <1>1, <4>2, <5>1, <5>2
      <4>3. QED
        BY <4>1, <4>2
    <3>4. QED
      BY <3>2, <3>3
  <2>2. QED
    <3> HIDE DEF L
    <3> QED BY <1>1, <2>1
<1>5. Newer(bars) = [n \in 1..Cardinality(S) |->
                      bars[CHOOSE i \in S : Cardinality({j \in S : j <= i}) = n]]
  <2> HIDE DEF S
  <2>1. Newer(bars) = AtPlaces(bars, S)
    BY <1>4 DEF Newer
  <2>2. QED
    BY <2>1 DEF AtPlaces
<1>6. ASSUME NEW n \in 1..Cardinality(S) PROVE Newer(bars)[n] = last + n
  <2> DEFINE place == CHOOSE i \in S : Cardinality({j \in S : j <= i}) = n
  <2>1. place = a + n /\ a + n <= b
    <3> HIDE DEF L, last
    <3> QED BY <1>1, PlacesTogether DEF S
  <2>2. Newer(bars)[n] = bars[place]
    <3> HIDE DEF S
    <3> QED BY <1>5
  <2>3. n \in Nat /\ n >= 1
    <3> HIDE DEF S
    <3> QED OBVIOUS
  <2>4. a + n \in 1..L /\ a < a + n
    <3> HIDE DEF L, place, S
    <3> QED BY <1>1, <1>3, <2>1, <2>3
  <2>5. bars[a + n] = last + ((a + n) - a)
    <3> HIDE DEF L, place, S, last
    <3> QED BY <1>2, <2>1, <2>4
  <2>6. QED
    <3> HIDE DEF L, place, S, last
    <3> QED BY <1>1, <1>3, <2>1, <2>2, <2>3, <2>5
<1>7. DOMAIN Newer(bars) = 1..Cardinality(S)
  <2> HIDE DEF S
  <2> QED BY <1>5
<1>8. QED
  <2> HIDE DEF S
  <2> QED BY <1>6, <1>7 DEF Numbered

LEMMA ConcatPlaces ==
  ASSUME NEW B, NEW s \in Seq(B), NEW t \in Seq(B)
  PROVE  /\ s \o t \in Seq(B) /\ Len(s) \in Nat /\ Len(t) \in Nat
         /\ DOMAIN (s \o t) = 1..(Len(s) + Len(t))
         /\ \A i \in 1..Len(s) : (s \o t)[i] = s[i] /\ i \in DOMAIN s
         /\ \A i \in (Len(s) + 1)..(Len(s) + Len(t)) :
              (s \o t)[i] = t[i - Len(s)] /\ i - Len(s) \in DOMAIN t
<1>1. /\ s \o t \in Seq(B) /\ Len(s \o t) = Len(s) + Len(t) /\ Len(s) \in Nat /\ Len(t) \in Nat
      /\ \A i \in 1..(Len(s) + Len(t)) : (s \o t)[i] = IF i <= Len(s) THEN s[i] ELSE t[i - Len(s)]
      /\ DOMAIN s = 1..Len(s) /\ DOMAIN t = 1..Len(t)
  BY ConcatProperties, LenProperties
<1>2. DOMAIN (s \o t) = 1..(Len(s) + Len(t))
  BY <1>1, LenProperties
<1> DEFINE m == Len(s)
           n == Len(t)
           st == s \o t
<1>3. /\ m \in Nat /\ n \in Nat /\ DOMAIN s = 1..m /\ DOMAIN t = 1..n
      /\ \A i \in 1..(m + n) : st[i] = IF i <= m THEN s[i] ELSE t[i - m]
  BY <1>1
<1>4. ASSUME NEW i \in 1..m PROVE st[i] = s[i] /\ i \in DOMAIN s
  <2> HIDE DEF m, n, st
  <2>1. i \in 1..(m + n) /\ i <= m
    BY <1>3
  <2>2. QED
    BY <1>3, <2>1
<1>5. ASSUME NEW i \in (m + 1)..(m + n) PROVE st[i] = t[i - m] /\ i - m \in DOMAIN t
  <2> HIDE DEF m, n, st
  <2>1. i \in 1..(m + n) /\ ~(i <= m) /\ i - m \in 1..n
    BY <1>3
  <2>2. QED
    BY <1>3, <2>1
<1>6. QED
  BY <1>1, <1>2, <1>4, <1>5

\* The file with what continues it.
LEMMA WrittenInOrder ==
  ASSUME DownloaderAssumption, DiskOK, fq \in {0, 1}, This \in Jobs \X Codes,
         InOrder(This[1], file[This]), NEW bars \in Seq(1..MaxTop), Numbered(bars, End(This))
  PROVE  InOrder(This[1], Written(bars))
<1> DEFINE s == file[This]
           job == This[1]
           last == End(This)
<1>1. s \in Seq(1..MaxTop) /\ last \in Nat /\ job = Head(run.jobs)
  BY EndOfFile DEF DiskOK
<1>2. Len(bars) \in Nat /\ DOMAIN bars = 1..Len(bars) /\ \A i \in 1..Len(bars) : bars[i] = last + i
  BY DEF Numbered
<1>3. ASSUME NEW i \in 1..Len(bars), i # 1
      PROVE  i - 1 \in 1..Len(bars) /\ bars[i] = bars[i - 1] + 1
  <2>1. i - 1 \in 1..Len(bars)
    BY <1>2, <1>3
  <2>2. bars[i] = last + i /\ bars[i - 1] = last + (i - 1)
    BY <1>2, <2>1
  <2>3. QED
    <3> HIDE DEF last
    <3> QED BY <1>1, <1>3, <2>1, <2>2
<1>4. CASE ExistingLast = 0
  <2>1. Written(bars) = bars
    BY <1>4 DEF Written
  <2>2. last = 0
    <3>1. last = ExistingLast * PerDay[job] /\ PerDay[job] \in Nat
      BY <1>1, EndOfFile DEF DownloaderAssumption
    <3>2. QED
      <4> HIDE DEF last, job
      <4> QED BY <1>4, <3>1
  <2>3. ASSUME NEW i \in 1..Len(bars), i = 1 PROVE bars[i] = 1
    <3>1. bars[i] = last + i
      BY <1>2
    <3>2. QED
      BY <2>2, <2>3, <3>1
  <2>4. QED
    <3> HIDE DEF job, s, last
    <3> QED BY <1>2, <1>3, <2>1, <2>3 DEF InOrder
<1>5. CASE ExistingLast # 0
  <2>1. Written(bars) = s \o bars
    BY <1>5 DEF Written
  <2>2. s # <<>> /\ fq = 0
    BY <1>5 DEF ExistingLast
  <2>3. Len(s) \in Nat \ {0} /\ DOMAIN s = 1..Len(s) /\ Last(s) = s[Len(s)]
    <3> HIDE DEF s
    <3> QED BY <1>1, <2>2, EmptySeq DEF Last
  <2>4. last = Date(job, s[Len(s)]) * PerDay[job]
    BY <2>2, <2>3 DEF End
  <2>5. \A i \in 1..Len(s) :
          IF i = 1 THEN s[i] = 1 ELSE s[i] \in {s[i - 1] + 1, Date(job, s[i - 1]) * PerDay[job] + 1}
    <3>1. InOrder(job, s)
      OBVIOUS
    <3>2. QED
      <4> HIDE DEF s, job
      <4> QED BY <2>3, <3>1 DEF InOrder
  <2> DEFINE m == Len(s)
             n == Len(bars)
             st == s \o bars
  <2>6. /\ DOMAIN st = 1..(m + n)
        /\ \A i \in 1..m : st[i] = s[i]
        /\ \A i \in (m + 1)..(m + n) : st[i] = bars[i - m] /\ i - m \in DOMAIN bars
    <3> HIDE DEF s
    <3> QED BY <1>1, ConcatPlaces
  <2>7. m \in Nat \ {0} /\ n \in Nat
    BY <1>2, <2>3
  <2>8. ASSUME NEW i \in 1..(m + n)
        PROVE  IF i = 1 THEN st[i] = 1
               ELSE st[i] \in {st[i - 1] + 1, Date(job, st[i - 1]) * PerDay[job] + 1}
    <3>1. CASE i <= m
      <4>1. i \in 1..m /\ (i # 1 => i - 1 \in 1..m)
        <5> HIDE DEF m, n, st, s
        <5> QED BY <2>7, <3>1
      <4>2. st[i] = s[i] /\ (i # 1 => st[i - 1] = s[i - 1])
        <5> HIDE DEF m, n, st, s
        <5> QED BY <2>6, <4>1
      <4>3. IF i = 1 THEN s[i] = 1 ELSE s[i] \in {s[i - 1] + 1, Date(job, s[i - 1]) * PerDay[job] + 1}
        <5> HIDE DEF job, s, st
        <5> QED BY <2>5, <4>1
      <4>4. QED
        <5> HIDE DEF job, m, n, st, s
        <5> QED BY <4>2, <4>3
    <3>2. CASE i = m + 1
      <4>1. i # 1 /\ i - 1 = m /\ i - m = 1 /\ m \in 1..m /\ i \in (m + 1)..(m + n) /\ 1 \in 1..n
        <5> HIDE DEF m, n, st, s
        <5> QED BY <2>7, <3>2
      <4>2. st[i] = bars[1] /\ st[i - 1] = s[m]
        <5> HIDE DEF m, n, st, s
        <5> QED BY <2>6, <4>1
      <4>3. bars[1] = last + 1
        <5> HIDE DEF last
        <5> QED BY <1>2, <4>1
      <4>4. st[i] = Date(job, st[i - 1]) * PerDay[job] + 1
        <5> HIDE DEF job, n, st, s, last
        <5> QED BY <2>4, <4>2, <4>3 DEF m
      <4>5. QED
        <5> HIDE DEF job, m, n, st, s
        <5> QED BY <4>1, <4>4
    <3>3. CASE i > m + 1
      <4>1. /\ i # 1 /\ i \in (m + 1)..(m + n) /\ i - 1 \in (m + 1)..(m + n)
            /\ i - m \in 1..n /\ i - m # 1 /\ (i - 1) - m = (i - m) - 1
        <5> HIDE DEF m, n, st, s
        <5> QED BY <2>7, <3>3
      <4>2. st[i] = bars[i - m] /\ st[i - 1] = bars[(i - m) - 1]
        <5> HIDE DEF m, n, st, s
        <5> QED BY <2>6, <4>1
      <4>3. bars[i - m] = bars[(i - m) - 1] + 1
        <5> HIDE DEF m, st, s
        <5> QED BY <1>3, <4>1
      <4>4. QED
        <5> HIDE DEF job, m, n, st, s
        <5> QED BY <4>1, <4>2, <4>3
    <3>4. QED
      <4> HIDE DEF job, m, n, st, s
      <4> QED BY <2>7, <3>1, <3>2, <3>3
  <2>9. InOrder(job, st)
    <3> HIDE DEF job, m, n, s, st
    <3> QED BY <2>6, <2>8 DEF InOrder
  <2>10. QED
    BY <2>1, <2>9
<1>6. QED
  BY <1>4, <1>5
-----------------------------------------------------------------------------
(* The inductive invariant: one step per action *)

\* Nothing is being downloaded.
Fresh(r) == r.at # "write" /\ r.offset = 0 /\ r.bars = <<>>

LEMMA FreshInOrder ==
  ASSUME Fresh(run')
  PROVE  DownloadInOrder'
BY DEF Fresh, DownloadInOrder

LEMMA FreshBetween ==
  ASSUME DownloadInOrder, run.at \notin {"pages", "write"}
  PROVE  Fresh(run)
BY DEF Fresh, DownloadInOrder

\* Between two stocks nothing is downloaded, whatever ends, begins or is written down.
LEMMA FreshStages ==
  ASSUME TypeOK, Fresh(run),
         \/ \E jobs \in Lists, codes \in Given \cup {None} : Run(jobs, codes) \/ Update(jobs, codes)
         \/ FetchList \/ FetchListCut \/ FetchListFails \/ TakeCodes \/ Summary \/ SummaryTears
         \/ UpdateSync \/ UpdateSyncTears \/ Save \/ Finish \/ SaveTears
  PROVE  Fresh(run')
<1>1. RunOK(run)
  BY TypeParts
<1>2. Fresh(Idle)
  BY DEF Fresh, Idle
<1>3. Fresh(NextJob)
  BY <1>1 DEF Fresh, NextJob, RunOK
<1>4. ASSUME NEW list, Stocks(list) PROVE Fresh(run')
  BY <1>1, <1>4 DEF Fresh, Stocks, RunOK
<1>5. ASSUME NEW jobs, NEW codes, Start(jobs, codes) PROVE Fresh(run')
  BY <1>5 DEF Fresh, Start, Idle
<1>6. Fresh([run EXCEPT !.at = "save"])
  BY <1>1 DEF Fresh, RunOK
<1>7. CASE \E jobs \in Lists, codes \in Given \cup {None} : Run(jobs, codes) \/ Update(jobs, codes)
  <2>1. PICK jobs \in Lists, codes \in Given \cup {None} : Run(jobs, codes) \/ Update(jobs, codes)
    BY <1>7
  <2>2. CASE Run(jobs, codes)
    BY <1>5, <2>2 DEF Run
  <2>3. CASE Update(jobs, codes)
    <3>1. Start(jobs, None) \/ Start(jobs, IF codes = None THEN synced ELSE codes)
      BY <2>3 DEF Update
    <3>2. QED
      BY <1>5, <3>1
  <2>4. QED
    BY <2>1, <2>2, <2>3
<1>8. CASE FetchList \/ TakeCodes
  BY <1>4, <1>8 DEF FetchList, TakeCodes
<1>9. CASE FetchListCut
  <2>1. PICK n \in 0..(Len(List) - 1) :
           IF n = 0 THEN run' = NextJob ELSE Stocks(Resumed(Head(run.jobs), SubSeq(List, 1, n)))
    BY <1>9 DEF FetchListCut
  <2>2. QED
    BY <1>3, <1>4, <2>1
<1>10. CASE FetchListFails \/ Finish
  BY <1>3, <1>10 DEF FetchListFails, Finish
<1>11. CASE Summary \/ SummaryTears \/ SaveTears
  BY <1>2, <1>11 DEF Summary, SummaryTears, SaveTears, Ends
<1>12. CASE UpdateSync
  BY <1>6, <1>12 DEF UpdateSync
<1>13. CASE UpdateSyncTears
  BY <1>2, <1>6, <1>13 DEF UpdateSyncTears
<1>14. CASE Save
  <2>1. run' = [run EXCEPT !.at = IF Len(run.togo) = 1 THEN "finish" ELSE "pages",
                           !.togo = Tail(run.togo), !.done = run.done + 1]
    BY <1>14 DEF Save
  <2>2. QED
    BY <1>1, <2>1 DEF Fresh, RunOK
<1>15. QED
  BY <1>7, <1>8, <1>9, <1>10, <1>11, <1>12, <1>13, <1>14

\* While the files and the stock stay, a download in order stays so: more bars in the
\* market only make it fit less.
LEMMA FitsAsBefore ==
  ASSUME UNCHANGED <<format, file, fq>>, run'.jobs = run.jobs, run'.togo = run.togo,
         MaxTop \in Nat, top \in 1..MaxTop, top' \in {top, top + 1}, Page \in Nat, End(This) \in Nat
  PROVE  End(This)' = End(This) /\ (Fits' => Fits)
<1>1. This' = This
  BY DEF This
<1>2. End(This)' = End(This)
  BY <1>1 DEF End, Date
<1>3. QED
  BY <1>2 DEF Fits

LEMMA NothingTogether ==
  ASSUME NEW last
  PROVE  Together(<<>>, last)
<1>1. Len(<<>>) = 0 /\ DOMAIN <<>> = {} /\ 0 \in 0..0
  BY EmptySeq
<1>2. \E a \in 0..0 : \E b \in a..0 :
        \A i \in {} : IF a < i /\ i <= b THEN <<>>[i] = last + (i - a) ELSE <<>>[i] <= last
  BY <1>1
<1>3. QED
  BY <1>1, <1>2 DEF Together

\* The first page has all that is new, if that fits into a page.
LEMMA FirstPageTogether ==
  ASSUME MaxTop \in Nat, top \in 1..MaxTop, Page \in Nat \ {0}, NEW last \in Nat, top <= last + Page
  PROVE  Together(Bars(0, Page), last)
<1> DEFINE page == Bars(0, Page)
<1>1. PICK first \in 1..top :
        /\ first = 1 \/ first = top - Page + 1
        /\ Len(page) = top + 1 - first
        /\ \A i \in 1..(top + 1 - first) : page[i] = first + i - 1
  <2>1. \E first \in 1..top :
          /\ first = 1 \/ first = top - Page + 1
          /\ Len(Bars(0, Page)) = top + 1 - first
          /\ \A i \in 1..(top + 1 - first) : Bars(0, Page)[i] = first + i - 1
    BY PageOfBars
  <2>2. QED
    BY <2>1
<1>2. page \in Seq(1..MaxTop)
  BY PageOfBars
<1> HIDE DEF page
<1> DEFINE L == top + 1 - first
           a == IF last >= top THEN L ELSE last + 1 - first
<1>3. DOMAIN page = 1..L /\ Len(page) = L
  BY <1>1, <1>2, LenProperties
<1>4. L \in Nat /\ a \in 0..L /\ L \in a..L
  BY <1>1
<1>5. ASSUME NEW i \in 1..L
      PROVE  IF a < i /\ i <= L THEN page[i] = last + (i - a) ELSE page[i] <= last
  <2>1. page[i] = first + i - 1
    BY <1>1
  <2>2. CASE last >= top
    BY <1>1, <2>1, <2>2
  <2>3. CASE ~(last >= top)
    BY <1>1, <2>1, <2>3
  <2>4. QED
    BY <2>2, <2>3
<1>6. \E aa \in 0..L : \E b \in aa..L : \A i \in 1..L :
        IF aa < i /\ i <= b THEN page[i] = last + (i - aa) ELSE page[i] <= last
  <2> HIDE DEF L, a
  <2> QED BY <1>4, <1>5
<1>7. Together(page, last)
  <2> HIDE DEF L
  <2> QED BY <1>3, <1>6 DEF Together
<1>8. QED
  BY <1>7 DEF page

\* An older page behind the new bars.
LEMMA OlderPageTogether ==
  ASSUME NEW B, NEW s \in Seq(B), NEW t \in Seq(B), NEW last, Together(s, last),
         \A i \in DOMAIN t : t[i] <= last
  PROVE  Together(s \o t, last)
<1> DEFINE m == Len(s)
           n == Len(t)
           st == s \o t
<1>1. /\ st \in Seq(B) /\ m \in Nat /\ n \in Nat /\ DOMAIN st = 1..(m + n) /\ DOMAIN s = 1..m
      /\ \A i \in 1..m : st[i] = s[i]
      /\ \A i \in (m + 1)..(m + n) : st[i] = t[i - m] /\ i - m \in DOMAIN t
  BY ConcatPlaces, LenProperties
<1>2. Len(st) = m + n
  <2> HIDE DEF m, n, st
  <2>1. Len(st) \in Nat /\ DOMAIN st = 1..Len(st)
    BY <1>1, LenProperties
  <2>2. QED
    BY <1>1, <2>1
<1>3. PICK a \in 0..m : \E b \in a..m :
        \A i \in 1..m : IF a < i /\ i <= b THEN s[i] = last + (i - a) ELSE s[i] <= last
  BY <1>1 DEF Together
<1>4. PICK b \in a..m :
        \A i \in 1..m : IF a < i /\ i <= b THEN s[i] = last + (i - a) ELSE s[i] <= last
  BY <1>3
<1> HIDE DEF m, n, st
<1>5. a \in 0..(m + n) /\ b \in a..(m + n) /\ a \in Nat /\ b \in Nat /\ b <= m
  BY <1>1
<1>6. ASSUME NEW i \in 1..(m + n)
      PROVE  IF a < i /\ i <= b THEN st[i] = last + (i - a) ELSE st[i] <= last
  <2>1. CASE i <= m
    <3>1. i \in 1..m
      BY <1>1, <2>1
    <3>2. QED
      BY <1>1, <1>4, <3>1
  <2>2. CASE i > m
    <3>1. i \in (m + 1)..(m + n) /\ ~(i <= b)
      BY <1>1, <1>5, <2>2
    <3>2. st[i] = t[i - m] /\ t[i - m] <= last
      BY <1>1, <3>1
    <3>3. QED
      BY <3>1, <3>2
  <2>3. QED
    BY <1>1, <2>1, <2>2
<1>7. Together(st, last)
  BY <1>1, <1>2, <1>5, <1>6 DEF Together
<1>8. QED
  BY <1>7 DEF st

\* The end of the pages: what is newer than the file goes to the file.
LEMMA DownloadedInOrder ==
  ASSUME DownloaderAssumption, TypeOK, run.at = "pages", UNCHANGED <<format, fq, top, file>>,
         NEW bars \in Seq(1..MaxTop), Fits => Together(bars, End(This)), Downloaded(bars)
  PROVE  DownloadInOrder'
<1>1. DiskOK /\ RunOK(run) /\ fq \in {0, 1} /\ top \in 1..MaxTop /\ MaxTop \in Nat /\ Page \in Nat
  BY TypeParts DEF WorldOK, DownloaderAssumption
<1>2. This \in Jobs \X Codes
  BY <1>1, ThisIsAFile
<1>3. /\ run'.at = IF Newer(bars) = <<>> THEN "save" ELSE "write"
      /\ run'.bars = Newer(bars) /\ run'.offset = 0
      /\ run'.jobs = run.jobs /\ run'.togo = run.togo
  BY <1>1 DEF Downloaded, RunOK
<1>4. End(This) \in Nat
  BY <1>1, <1>2, EndOfFile
<1>5. End(This)' = End(This) /\ (Fits' => Fits)
  BY <1>1, <1>3, <1>4, FitsAsBefore
<1>6. Fits => Numbered(Newer(bars), End(This))
  BY <1>1, <1>2, NewerContinues
<1>7. Fits' => Numbered(run'.bars, End(This)')
  BY <1>3, <1>5, <1>6
<1>8. Fits' => Numbered(run.bars, End(This))'
  BY <1>7 DEF Numbered
<1>9. QED
  BY <1>3, <1>8 DEF DownloadInOrder

LEMMA RequestInOrder ==
  ASSUME DownloaderAssumption, OrderInv, Request
  PROVE  DownloadInOrder'
<1> DEFINE page == Bars(run.offset, Page)
           all == run.bars \o page
           last == End(This)
<1>1. /\ DiskOK /\ RunOK(run) /\ run.at = "pages" /\ UNCHANGED <<format, fq, top, file>>
      /\ fq \in {0, 1} /\ top \in 1..MaxTop /\ Page \in Nat \ {0} /\ MaxTop \in Nat
  BY TypeParts DEF OrderInv, WorldOK, Request, world, disk, DownloaderAssumption
<1>2. run.bars \in Seq(1..MaxTop) /\ run.offset \in Nat
  BY <1>1 DEF RunOK
<1>3. last \in Nat
  BY <1>1, ThisIsAFile, EndOfFile
<1>4. \/ run.offset = 0 /\ run.bars = <<>>
      \/ run.offset >= Page /\ (Fits => Together(run.bars, last))
  BY <1>1 DEF OrderInv, DownloadInOrder
<1>5. page \in Seq(1..MaxTop) /\ \A i \in DOMAIN page : page[i] <= top - run.offset
  BY <1>1, <1>2, PageOfBars
<1>6. Fits => top <= last + Page
  BY DEF Fits
<1>7. all \in Seq(1..MaxTop)
  <2> HIDE DEF page
  <2> QED BY <1>2, <1>5, ConcatProperties
<1>8. ASSUME Fits PROVE Together(all, last)
  <2>1. CASE run.offset = 0 /\ run.bars = <<>>
    <3>1. Together(Bars(0, Page), last)
      <4> HIDE DEF last
      <4> QED BY <1>1, <1>3, <1>6, <1>8, FirstPageTogether
    <3>2. all = page
      <4> HIDE DEF page
      <4> QED BY <1>5, <2>1, ConcatEmptySeq
    <3>3. QED
      <4> HIDE DEF all, last
      <4> QED BY <2>1, <3>1, <3>2
  <2>2. CASE run.offset >= Page /\ (Fits => Together(run.bars, last))
    <3>1. \A i \in DOMAIN page : page[i] <= last
      <4>1. top - run.offset <= last
        <5> HIDE DEF last
        <5> QED BY <1>1, <1>2, <1>3, <1>6, <1>8, <2>2
      <4>2. \A i \in DOMAIN page : page[i] \in Int
        <5> HIDE DEF page
        <5> QED BY <1>5
      <4>3. QED
        <5> HIDE DEF page, last
        <5> QED BY <1>1, <1>2, <1>3, <1>5, <4>1, <4>2
    <3>2. QED
      <4> HIDE DEF page, last
      <4> QED BY <1>2, <1>5, <1>8, <2>2, <3>1, OlderPageTogether
  <2>3. QED
    BY <1>4, <2>1, <2>2
<1>9. \/ Downloaded(all)
      \/ run' = [run EXCEPT !.bars = all, !.offset = @ + Page]
  BY DEF Request
<1>10. CASE Downloaded(all)
  <2> HIDE DEF all
  <2> QED BY <1>1, <1>7, <1>8, <1>10, DownloadedInOrder DEF OrderInv
<1>11. CASE run' = [run EXCEPT !.bars = all, !.offset = @ + Page]
  <2> HIDE DEF all
  <2>1. /\ run'.at = "pages" /\ run'.bars = all /\ run'.offset = run.offset + Page
        /\ run'.jobs = run.jobs /\ run'.togo = run.togo
    BY <1>1, <1>11 DEF RunOK
  <2>2. run'.offset >= Page
    BY <1>1, <1>2, <2>1
  <2>3. last' = last /\ (Fits' => Fits)
    BY <1>1, <1>3, <2>1, FitsAsBefore
  <2>4. Fits' => Together(all, last)
    BY <1>8, <2>3
  <2>5. Fits' => Together(run.bars, last)'
    BY <2>1, <2>3, <2>4 DEF Together
  <2>6. QED
    BY <2>1, <2>2, <2>5 DEF DownloadInOrder
<1>12. QED
  BY <1>9, <1>10, <1>11

LEMMA RequestEmptyInOrder ==
  ASSUME DownloaderAssumption, OrderInv, RequestEmpty \/ RequestFails
  PROVE  DownloadInOrder'
<1>1. RunOK(run) /\ run.at = "pages" /\ UNCHANGED <<format, fq, top, file>>
  BY TypeParts DEF OrderInv, RequestEmpty, RequestFails, disk
<1>2. CASE RequestEmpty
  <2>1. run.bars \in Seq(1..MaxTop)
    BY <1>1 DEF RunOK
  <2>2. \/ run.bars = <<>>
        \/ Fits => Together(run.bars, End(This))
    BY <1>1 DEF OrderInv, DownloadInOrder
  <2>3. Fits => Together(run.bars, End(This))
    BY <2>2, NothingTogether
  <2>4. Downloaded(run.bars)
    BY <1>2 DEF RequestEmpty
  <2>5. QED
    BY <1>1, <2>1, <2>3, <2>4, DownloadedInOrder DEF OrderInv
<1>3. CASE RequestFails
  <2>1. Fresh(run')
    BY <1>1, <1>3 DEF RequestFails, Fresh, RunOK
  <2>2. QED
    BY <2>1, FreshInOrder
<1>4. QED
  BY <1>2, <1>3

LEMMA CutSequence ==
  ASSUME NEW B, NEW s \in Seq(B), NEW n \in 0..(Len(s) - 1)
  PROVE  /\ SubSeq(s, 1, n) \in Seq(B)
         /\ DOMAIN SubSeq(s, 1, n) = 1..n
         /\ \A i \in 1..n : SubSeq(s, 1, n)[i] = s[i] /\ i \in DOMAIN s
<1>1. Len(s) \in Nat /\ n \in Nat /\ 1 \in Int /\ n \in Int /\ n <= Len(s)
  OBVIOUS
<1>2. \A i \in 1..n : s[i] \in B /\ i \in DOMAIN s
  BY <1>1
<1>3. /\ SubSeq(s, 1, n) \in Seq(B)
      /\ Len(SubSeq(s, 1, n)) = IF 1 <= n THEN n - 1 + 1 ELSE 0
      /\ \A i \in 1..(n - 1 + 1) : SubSeq(s, 1, n)[i] = s[1 + i - 1]
  BY <1>1, <1>2, SubSeqProperties
<1>4. Len(SubSeq(s, 1, n)) = n
  BY <1>1, <1>3
<1>5. \A i \in 1..n : SubSeq(s, 1, n)[i] = s[i]
  <2>1. \A i \in 1..n : i \in 1..(n - 1 + 1) /\ 1 + i - 1 = i
    BY <1>1
  <2>2. QED
    BY <1>3, <2>1
<1>6. DOMAIN SubSeq(s, 1, n) = 1..n
  BY <1>3, <1>4, LenProperties
<1>7. QED
  BY <1>2, <1>3, <1>5, <1>6

LEMMA WritesInOrder ==
  ASSUME DownloaderAssumption, OrderInv, Write \/ WriteTears \/ MergeFails
  PROVE  /\ DownloadInOrder'
         /\ Fits /\ InOrder(This[1], file[This])
              => \E bars \in Seq(1..MaxTop) :
                   /\ file' = [file EXCEPT ![This] = bars]
                   /\ InOrder(This[1], bars)
<1>1. DiskOK /\ RunOK(run) /\ fq \in {0, 1} /\ run.at = "write" /\ run.bars \in Seq(1..MaxTop)
  BY TypeParts DEF OrderInv, WorldOK, Write, WriteTears, MergeFails, RunOK
<1>2. This \in Jobs \X Codes
  BY <1>1, ThisIsAFile
<1>3. run.offset = 0 /\ (Fits => Numbered(run.bars, End(This)))
  BY <1>1 DEF OrderInv, DownloadInOrder
<1>4. ASSUME NEW bars \in Seq(1..MaxTop), Numbered(bars, End(This)), InOrder(This[1], file[This]),
             file' = [file EXCEPT ![This] = Written(bars)]
      PROVE  \E b \in Seq(1..MaxTop) : file' = [file EXCEPT ![This] = b] /\ InOrder(This[1], b)
  <2>1. InOrder(This[1], Written(bars))
    BY <1>1, <1>2, <1>4, WrittenInOrder
  <2>2. Written(bars) \in Seq(1..MaxTop)
    BY <1>1, <1>2, WrittenBars
  <2>3. QED
    BY <1>4, <2>1, <2>2
<1>5. CASE Write
  <2>1. Fresh(run')
    BY <1>1, <1>3, <1>5 DEF Write, Fresh, RunOK
  <2>2. file' = [file EXCEPT ![This] = Written(run.bars)]
    BY <1>5 DEF Write
  <2>3. QED
    BY <1>1, <1>3, <1>4, <2>1, <2>2, FreshInOrder
<1>6. CASE WriteTears
  <2>1. Fresh(run')
    <3>1. CASE run' = Idle
      BY <3>1 DEF Fresh, Idle
    <3>2. CASE run' = [run EXCEPT !.at = "save", !.bars = <<>>]
      BY <1>1, <1>3, <3>2 DEF Fresh, RunOK
    <3>3. QED
      BY <1>6, <3>1, <3>2 DEF WriteTears, Ends
  <2>2. ASSUME Fits, InOrder(This[1], file[This])
        PROVE  \E bars \in Seq(1..MaxTop) : file' = [file EXCEPT ![This] = bars] /\ InOrder(This[1], bars)
    <3>1. PICK n \in 0..(Len(run.bars) - 1) :
            file' = [file EXCEPT ![This] = IF format = "tdx" THEN Written(SubSeq(run.bars, 1, n)) ELSE <<>>]
      BY <1>6 DEF WriteTears
    <3>2. file' = [file EXCEPT ![This] = Written(SubSeq(run.bars, 1, n))]
      BY <2>2, <3>1 DEF Fits
    <3>3. /\ SubSeq(run.bars, 1, n) \in Seq(1..MaxTop)
          /\ DOMAIN SubSeq(run.bars, 1, n) = 1..n
          /\ \A i \in 1..n : SubSeq(run.bars, 1, n)[i] = run.bars[i] /\ i \in DOMAIN run.bars
      BY ONLY <1>1, CutSequence
    <3>4. Numbered(SubSeq(run.bars, 1, n), End(This))
      BY <1>3, <2>2, <3>3 DEF Numbered
    <3>5. QED
      BY <1>4, <2>2, <3>2, <3>3, <3>4
  <2>3. QED
    BY <2>1, <2>2, FreshInOrder
<1>7. CASE MergeFails
  <2>1. Fresh(run')
    BY <1>1, <1>3, <1>7 DEF MergeFails, Fresh, RunOK
  <2>2. ~Fits
    BY <1>7 DEF MergeFails, Fits
  <2>3. QED
    BY <2>1, <2>2, FreshInOrder
<1>8. QED
  BY <1>5, <1>6, <1>7

LEMMA OrderStep ==
  ASSUME DownloaderAssumption, OrderInv, [Next]_vars
  PROVE  OrderInv'
<1>1. TypeOK'
  BY TypeStep DEF OrderInv
<1>2. CASE Request
  BY <1>1, <1>2, RequestInOrder DEF OrderInv
<1>3. CASE RequestEmpty \/ RequestFails
  BY <1>1, <1>3, RequestEmptyInOrder DEF OrderInv
<1>4. CASE Write \/ WriteTears \/ MergeFails
  BY <1>1, <1>4, WritesInOrder DEF OrderInv
<1>5. CASE Killed
  <2>1. Fresh(run')
    BY <1>5 DEF Killed, Ends, Fresh, Idle
  <2>2. QED
    BY <1>1, <2>1, FreshInOrder DEF OrderInv
<1>6. CASE NewBar \/ Expire \/ NewDownloader \/ UNCHANGED vars
  <2>1. DiskOK /\ RunOK(run) /\ fq \in {0, 1} /\ top \in 1..MaxTop /\ MaxTop \in Nat /\ Page \in Nat
    BY TypeParts DEF OrderInv, WorldOK, DownloaderAssumption
  <2>2. UNCHANGED <<run, format, file, fq>> /\ top' \in {top, top + 1}
    BY <1>6 DEF NewBar, Expire, NewDownloader, vars, world, disk
  <2>3. DownloadInOrder
    BY DEF OrderInv
  <2>4. CASE run.at \in {"pages", "write"}
    <3>1. End(This) \in Nat
      BY <2>1, <2>4, ThisIsAFile, EndOfFile
    <3>2. End(This)' = End(This) /\ (Fits' => Fits)
      BY <2>1, <2>2, <3>1, FitsAsBefore
    <3>3. DownloadInOrder'
      <4>1. run'.at = run.at /\ run'.bars = run.bars /\ run'.offset = run.offset
        BY <2>2
      <4>2. run.at = "pages" => \/ run.offset = 0 /\ run.bars = <<>>
                                \/ run.offset >= Page /\ (Fits => Together(run.bars, End(This)))
        BY <2>3 DEF DownloadInOrder
      <4>3. run.at = "write" => run.offset = 0 /\ (Fits => Numbered(run.bars, End(This)))
        BY <2>3 DEF DownloadInOrder
      <4>4. Numbered(run.bars, End(This)) => Numbered(run.bars, End(This))'
        BY <3>2, <4>1 DEF Numbered
      <4>5. Together(run.bars, End(This)) => Together(run.bars, End(This))'
        BY <3>2, <4>1 DEF Together
      <4>6. QED
        BY <2>4, <3>2, <4>1, <4>2, <4>3, <4>4, <4>5 DEF DownloadInOrder
    <3>4. QED
      BY <1>1, <3>3 DEF OrderInv
  <2>5. CASE run.at \notin {"pages", "write"}
    <3>1. Fresh(run')
      BY <2>2, <2>3, <2>5, FreshBetween
    <3>2. QED
      BY <1>1, <3>1, FreshInOrder DEF OrderInv
  <2>6. QED
    BY <2>4, <2>5
<1>7. CASE \/ \E jobs \in Lists, codes \in Given \cup {None} : Run(jobs, codes) \/ Update(jobs, codes)
           \/ FetchList \/ FetchListCut \/ FetchListFails \/ TakeCodes \/ Summary \/ SummaryTears
           \/ UpdateSync \/ UpdateSyncTears \/ Save \/ Finish \/ SaveTears
  <2>1. run.at \notin {"pages", "write"}
    BY <1>7 DEF Run, Update, FetchList, FetchListCut, FetchListFails, TakeCodes, Summary,
                SummaryTears, UpdateSync, UpdateSyncTears, Save, Finish, SaveTears
  <2>2. Fresh(run)
    BY <2>1, FreshBetween DEF OrderInv
  <2>3. Fresh(run')
    BY <1>7, <2>2, FreshStages DEF OrderInv
  <2>4. QED
    BY <1>1, <2>3, FreshInOrder DEF OrderInv
<1>8. QED
  BY <1>2, <1>3, <1>4, <1>5, <1>6, <1>7 DEF Next, Step

\* OrderInv is an inductive invariant, for any numbers of bars a day and any page size.
THEOREM Inductive == Spec => []OrderInv
<1>1. Init => OrderInv
  <2>1. Init => TypeOK
    BY TypeInit, DownloaderAssumption
  <2>2. Init => DownloadInOrder
    BY DEF Init, Idle, DownloadInOrder
  <2>3. QED
    BY <2>1, <2>2 DEF OrderInv
<1>2. OrderInv /\ [Next]_vars => OrderInv'
  BY OrderStep, DownloaderAssumption
<1>3. QED
  BY <1>1, <1>2, PTL DEF Spec

LEMMA FileStaysInOrder ==
  ASSUME DownloaderAssumption, OrderInv, [Next]_vars, NEW f \in DOMAIN file, format = "tdx",
         InOrder(f[1], file[f]), top <= End(f) + Page
  PROVE  InOrder(f[1], file'[f])
<1>1. CASE UNCHANGED file
  BY <1>1 DEF InOrder, Date
<1>2. CASE Write \/ WriteTears \/ MergeFails
  <2>1. file \in [Jobs \X Codes -> Seq(1..MaxTop)]
    BY TypeParts DEF OrderInv, DiskOK
  <2>2. CASE f = This
    <3>1. Fits /\ InOrder(This[1], file[This])
      BY <2>2 DEF Fits
    <3>2. PICK bars \in Seq(1..MaxTop) : file' = [file EXCEPT ![This] = bars] /\ InOrder(This[1], bars)
      BY <1>2, <3>1, WritesInOrder
    <3>3. file'[f] = bars
      BY <2>1, <2>2, <3>2
    <3>4. QED
      BY <2>2, <3>2, <3>3
  <2>3. CASE f # This
    <3>1. file'[f] = file[f]
      BY <1>2, <2>1, <2>3 DEF Write, WriteTears, MergeFails
    <3>2. QED
      BY <3>1
  <2>4. QED
    BY <2>2, <2>3
<1>3. QED
  BY <1>1, <1>2, FilesChangeByWriting

\* A .day file in order stays in order as long as what is new fits into a page: for any
\* lists, page sizes and numbers of bars a day, whatever is cut off, resumed, skipped,
\* torn or added to the market in the middle of a download.
THEOREM FilesStayInOrder == Spec => FilesInOrder
<1>1. OrderInv /\ [Next]_vars =>
        [\A f \in DOMAIN file :
           format = "tdx" /\ InOrder(f[1], file[f]) /\ top <= End(f) + Page
             => InOrder(f[1], file'[f])]_vars
  BY FileStaysInOrder, DownloaderAssumption
<1>2. QED
  BY <1>1, Inductive, PTL DEF Spec, FilesInOrder
=============================================================================
