-------------------------- MODULE FinanceCache_proofs --------------------------
(* Proofs about FinanceCache, for any callers, chunks, lifetimes and versions, shorter  *)
(* or longer than the chunks asked for: types, and that what is cached or returned has  *)
(* each cell in its place and older versions behind newer ones only from other          *)
(* processes.                                                                           *)
EXTENDS FinanceCache, SequenceTheorems, FiniteSetTheorems, TLAPS

\* A download asks for what comes behind the part it has.
Adjoining == \A c \in Callers : call[c].at = "ask" => call[c].offset = Len(call[c].acc)

\* What is downloaded is of versions the server has had.
Known == \A c \in Callers : \A i \in DOMAIN call[c].acc : call[c].acc[i].version <= version

Writing == {c \in Callers : call[c].at = "write"}

\* Each process that has emptied the file may still put its data before the rest of
\* another's.
Overlaid ==
  Cardinality(Back(file.data)) + Cardinality(Writing) + (IF file.data = <<>> THEN 0 ELSE 1)
    <= Cardinality(Callers)

IInv == TypeOK /\ OnlyBeginnings /\ Adjoining /\ Known /\ Overlaid

Beginnings == {data \in Seq(Cells) : InPlace(data)}

\* What one process downloads.
Runs == {data \in Beginnings : Back(data) = {}}

-----------------------------------------------------------------------------
(* Sequences of cells *)

\* What follows a beginning makes it a longer one.
LEMMA Continued ==
  ASSUME NEW data \in Beginnings, NEW more \in Seq(Cells),
         \A i \in 1..Len(more) : more[i].place = Len(data) + i
  PROVE  data \o more \in Beginnings
  <1>1. data \in Seq(Cells) /\ \A i \in 1..Len(data) : data[i].place = i
    BY DEF Beginnings, InPlace
  <1>2. /\ data \o more \in Seq(Cells)
        /\ Len(data \o more) = Len(data) + Len(more)
        /\ \A i \in 1..(Len(data) + Len(more)) :
             (data \o more)[i] = IF i <= Len(data) THEN data[i] ELSE more[i - Len(data)]
    BY <1>1, ConcatProperties
  <1>3. ASSUME NEW i \in 1..(Len(data) + Len(more))
        PROVE  (data \o more)[i].place = i
    <2>1. Len(data) \in Nat /\ Len(more) \in Nat
      BY <1>1, LenProperties
    <2>2. CASE i <= Len(data)
      BY <1>1, <1>2, <2>1, <2>2
    <2>3. CASE ~(i <= Len(data))
      <3>1. i - Len(data) \in 1..Len(more)
        BY <2>1, <2>3
      <3>2. more[i - Len(data)].place = Len(data) + (i - Len(data))
        BY <3>1
      <3>3. QED
        BY <1>2, <2>1, <2>3, <3>2
    <2>4. QED
      BY <2>2, <2>3
  <1>4. QED
    BY <1>2, <1>3, LenProperties DEF Beginnings, InPlace

\* A part from the start is a beginning.
LEMMA CutShort ==
  ASSUME NEW data \in Seq(Cells), NEW n \in 0..Len(data)
  PROVE  /\ SubSeq(data, 1, n) \in Seq(Cells)
         /\ Len(SubSeq(data, 1, n)) = n
         /\ \A i \in 1..n : SubSeq(data, 1, n)[i] = data[i]
  <1>1. Len(data) \in Nat /\ \A i \in 1..Len(data) : data[i] \in Cells
    BY LenProperties, ElementOfSeq
  <1>2. \A i \in 1..n : data[i] \in Cells
    BY <1>1
  <1>3. QED
    BY <1>1, <1>2, SubSeqProperties

LEMMA CutBeginning ==
  ASSUME NEW data \in Beginnings, NEW n \in 0..Len(data)
  PROVE  SubSeq(data, 1, n) \in Beginnings
  <1>1. data \in Seq(Cells) /\ Len(data) \in Nat /\ \A i \in 1..Len(data) : data[i].place = i
    BY LenProperties DEF Beginnings, InPlace
  <1> DEFINE part == SubSeq(data, 1, n)
  <1>2. part \in Seq(Cells) /\ Len(part) = n /\ \A i \in 1..n : part[i] = data[i]
    BY <1>1, CutShort
  <1>3. \A i \in 1..n : part[i].place = i
    BY <1>1, <1>2
  <1> HIDE DEF part
  <1>4. DOMAIN part = 1..n
    BY <1>2, LenProperties
  <1>5. part \in Beginnings
    BY <1>2, <1>3, <1>4 DEF Beginnings, InPlace
  <1>6. QED
    BY <1>5 DEF part

\* What remains of an older file behind a beginning continues it.
LEMMA OverwrittenBeginning ==
  ASSUME file.data \in Beginnings, NEW data \in Beginnings
  PROVE  Overwritten(data) \in Beginnings
  <1> DEFINE rest == SubSeq(file.data, Len(data) + 1, Len(file.data))
  <1>1. data \in Seq(Cells) /\ file.data \in Seq(Cells) /\ Len(data) \in Nat /\ Len(file.data) \in Nat
    BY LenProperties DEF Beginnings
  <1>2. \A i \in 1..Len(file.data) : file.data[i] \in Cells /\ file.data[i].place = i
    BY <1>1, ElementOfSeq DEF Beginnings, InPlace
  <1>3. \A i \in (Len(data) + 1)..Len(file.data) : file.data[i] \in Cells
    BY <1>1, <1>2
  <1>4. /\ rest \in Seq(Cells)
        /\ Len(rest) = IF Len(data) + 1 <= Len(file.data) THEN Len(file.data) - (Len(data) + 1) + 1 ELSE 0
        /\ \A i \in 1..(Len(file.data) - (Len(data) + 1) + 1) : rest[i] = file.data[(Len(data) + 1) + i - 1]
    BY <1>1, <1>3, SubSeqProperties
  <1>5. ASSUME NEW i \in 1..Len(rest)
        PROVE  rest[i].place = Len(data) + i
    <2>1. i \in 1..(Len(file.data) - (Len(data) + 1) + 1) /\ (Len(data) + 1) + i - 1 = Len(data) + i
          /\ Len(data) + i \in 1..Len(file.data)
      BY <1>1, <1>4
    <2>2. rest[i] = file.data[Len(data) + i]
      BY <1>4, <2>1
    <2>3. QED
      BY <1>2, <2>1, <2>2
  <1>6. QED
    BY <1>4, <1>5, Continued DEF Overwritten

\* A newer chunk behind what was downloaded leaves the versions in order.
LEMMA ContinuedInOrder ==
  ASSUME NEW v \in Nat, NEW data \in Runs, NEW more \in Seq(Cells),
         \A i \in DOMAIN data : data[i].version <= v,
         \A i \in 1..Len(more) : more[i].place = Len(data) + i /\ more[i].version = v
  PROVE  /\ data \o more \in Runs
         /\ \A i \in DOMAIN (data \o more) : (data \o more)[i].version <= v
  <1> DEFINE all == data \o more
  <1>1. data \in Seq(Cells) /\ Len(data) \in Nat /\ Len(more) \in Nat /\ DOMAIN data = 1..Len(data)
    BY LenProperties DEF Runs, Beginnings
  <1>2. all \in Beginnings
    BY Continued DEF Runs
  <1>3. /\ Len(all) = Len(data) + Len(more)
        /\ \A i \in 1..(Len(data) + Len(more)) :
             all[i] = IF i <= Len(data) THEN data[i] ELSE more[i - Len(data)]
    BY <1>1, ConcatProperties
  <1> HIDE DEF all
  <1>4. ASSUME NEW i \in 1..Len(all)
        PROVE  /\ i <= Len(data) => all[i] = data[i] /\ i \in DOMAIN data
               /\ i > Len(data) => all[i].version = v
    <2>1. CASE i <= Len(data)
      BY <1>1, <1>3, <2>1
    <2>2. CASE i > Len(data)
      <3>1. i - Len(data) \in 1..Len(more) /\ all[i] = more[i - Len(data)]
        BY <1>1, <1>3, <2>2
      <3>2. QED
        BY <1>1, <2>2, <3>1
    <2>3. QED
      BY <1>1, <2>1, <2>2
  <1>5. ASSUME NEW i \in 1..Len(all)
        PROVE  all[i].version <= v
    <2>1. CASE i <= Len(data)
      BY <1>4, <2>1
    <2>2. CASE i > Len(data)
      BY <1>4, <2>2
    <2>3. QED
      BY <1>1, <2>1, <2>2
  <1>6. \A i \in 1..Len(data) : data[i].version \in Int
    <2>1. \A i \in 1..Len(data) : data[i] \in Cells
      BY <1>1, ElementOfSeq
    <2>2. \A w \in DOMAIN Sizes : w \in Int
      BY FinanceCacheAssumption, LenProperties
    <2>3. QED
      BY <2>1, <2>2 DEF Cells
  <1>7. ASSUME NEW i \in Back(all)
        PROVE  FALSE
    <2>1. i \in 1..Len(all) /\ i + 1 \in 1..Len(all) /\ all[i + 1].version < all[i].version
      BY <1>1, <1>3, <1>7 DEF Back
    <2>2. CASE i + 1 <= Len(data)
      <3>1. all[i + 1] = data[i + 1] /\ all[i] = data[i]
        BY <1>1, <1>4, <2>1, <2>2
      <3>2. i \in Back(data)
        BY <1>1, <2>1, <2>2, <3>1 DEF Back
      <3>3. QED
        BY <3>2 DEF Runs
    <2>3. CASE i + 1 > Len(data)
      <3>1. all[i + 1].version = v
        BY <1>4, <2>1, <2>3
      <3>2. all[i].version <= v
        BY <1>5, <2>1
      <3>3. all[i].version \in Int
        <4>1. CASE i <= Len(data)
          BY <1>1, <1>4, <1>6, <2>1, <4>1
        <4>2. CASE i > Len(data)
          BY <1>4, <2>1, <4>2
        <4>3. QED
          BY <1>1, <2>1, <4>1, <4>2
      <3>4. QED
        BY <2>1, <3>1, <3>2, <3>3
    <2>4. QED
      BY <1>1, <2>1, <2>2, <2>3
  <1>8. DOMAIN all = 1..Len(all)
    BY <1>2, LenProperties DEF Beginnings
  <1>9. all \in Runs /\ \A i \in DOMAIN all : all[i].version <= v
    BY <1>2, <1>5, <1>7, <1>8 DEF Runs
  <1>10. QED
    BY <1>9 DEF all

\* A part of a download is in order as well.
LEMMA CutInOrder ==
  ASSUME NEW data \in Runs, NEW n \in 0..Len(data)
  PROVE  SubSeq(data, 1, n) \in Runs
  <1> DEFINE part == SubSeq(data, 1, n)
  <1>1. data \in Seq(Cells) /\ Len(data) \in Nat /\ part \in Beginnings
    BY CutBeginning, LenProperties DEF Runs, Beginnings
  <1>2. Len(part) = n /\ \A i \in 1..n : part[i] = data[i]
    BY <1>1, CutShort
  <1> HIDE DEF part
  <1>3. ASSUME NEW i \in Back(part)
        PROVE  i \in Back(data)
    BY <1>1, <1>2, <1>3 DEF Back
  <1>4. part \in Runs
    BY <1>1, <1>3 DEF Runs
  <1>5. QED
    BY <1>4 DEF part

\* Overwriting adds at most one place at which the versions go back: the end of the new
\* data.
LEMMA OverwrittenBack ==
  ASSUME file.data \in Beginnings, NEW data \in Runs
  PROVE  /\ Back(Overwritten(data)) \subseteq Back(file.data) \cup {Len(data)}
         /\ file.data = <<>> => Back(Overwritten(data)) = {}
  <1> DEFINE rest == SubSeq(file.data, Len(data) + 1, Len(file.data))
             all == data \o rest
  <1>1. data \in Seq(Cells) /\ file.data \in Seq(Cells) /\ Len(data) \in Nat /\ Len(file.data) \in Nat
    BY LenProperties DEF Runs, Beginnings
  <1>2. \A i \in (Len(data) + 1)..Len(file.data) : file.data[i] \in Cells
    BY <1>1, ElementOfSeq
  <1>3. /\ rest \in Seq(Cells)
        /\ Len(rest) = IF Len(data) + 1 <= Len(file.data) THEN Len(file.data) - (Len(data) + 1) + 1 ELSE 0
        /\ \A i \in 1..(Len(file.data) - (Len(data) + 1) + 1) : rest[i] = file.data[(Len(data) + 1) + i - 1]
    BY <1>1, <1>2, SubSeqProperties
  <1> HIDE DEF rest
  <1>4. /\ Len(all) = Len(data) + Len(rest)
        /\ \A i \in 1..(Len(data) + Len(rest)) :
             all[i] = IF i <= Len(data) THEN data[i] ELSE rest[i - Len(data)]
    BY <1>1, <1>3, ConcatProperties
  <1> HIDE DEF all
  <1>5. ASSUME NEW i \in 1..Len(all), i > Len(data)
        PROVE  i \in 1..Len(file.data) /\ all[i] = file.data[i]
    <2>1. Len(rest) = Len(file.data) - Len(data) /\ i - Len(data) \in 1..Len(rest)
      BY <1>1, <1>3, <1>4, <1>5
    <2>2. all[i] = rest[i - Len(data)]
      BY <1>1, <1>4, <1>5, <2>1
    <2>3. rest[i - Len(data)] = file.data[(Len(data) + 1) + (i - Len(data)) - 1]
      BY <1>1, <1>3, <2>1
    <2>4. (Len(data) + 1) + (i - Len(data)) - 1 = i
      BY <1>1
    <2>5. QED
      BY <1>1, <2>1, <2>2, <2>3, <2>4
  <1>6. Len(all) \in Nat
    BY <1>1, <1>3, <1>4
  <1>7. ASSUME NEW i \in Back(all)
        PROVE  i \in Back(file.data) \cup {Len(data)}
    <2>1. i \in 1..(Len(all) - 1) /\ i \in 1..Len(all) /\ i + 1 \in 1..Len(all) /\ all[i + 1].version < all[i].version
      BY <1>6, <1>7 DEF Back
    <2>2. CASE i < Len(data)
      <3>1. all[i] = data[i] /\ all[i + 1] = data[i + 1]
        BY <1>1, <1>3, <1>4, <2>1, <2>2
      <3>2. i \in Back(data)
        BY <1>1, <2>1, <2>2, <3>1 DEF Back
      <3>3. QED
        BY <3>2 DEF Runs
    <2>3. CASE i > Len(data)
      <3>1. all[i] = file.data[i] /\ all[i + 1] = file.data[i + 1] /\ i + 1 \in 1..Len(file.data)
        BY <1>1, <1>5, <2>1, <2>3
      <3>2. i \in Back(file.data)
        BY <1>1, <2>1, <3>1 DEF Back
      <3>3. QED
        BY <3>2
    <2>4. QED
      BY <1>1, <2>1, <2>2, <2>3
  <1>8. ASSUME file.data = <<>>
        PROVE  Back(all) = {}
    <2>1. Len(file.data) = 0
      BY <1>8, EmptySeq
    <2>2. Len(rest) = 0
      BY <1>1, <1>3, <2>1
    <2>3. Len(all) = Len(data) /\ \A i \in 1..Len(data) : all[i] = data[i]
      BY <1>1, <1>4, <2>2
    <2>4. ASSUME NEW i \in Back(all)
          PROVE  i \in Back(data)
      BY <1>1, <2>3, <2>4 DEF Back
    <2>5. QED
      BY <2>4 DEF Runs
  <1>9. Overwritten(data) = all
    BY DEF Overwritten, all, rest
  <1>10. QED
    BY <1>7, <1>8, <1>9

LEMMA BackIsFinite ==
  ASSUME NEW data \in Seq(Cells)
  PROVE  IsFiniteSet(Back(data)) /\ Cardinality(Back(data)) \in Nat
  <1>1. Len(data) \in Nat /\ IsFiniteSet(1..(Len(data) - 1))
    BY LenProperties, FS_Interval
  <1>2. Back(data) \subseteq 1..(Len(data) - 1)
    BY DEF Back
  <1>3. QED
    BY <1>1, <1>2, FS_Subset, FS_CardinalityType

LEMMA NoneBack ==
  ASSUME NEW data, data = <<>> \/ Back(data) = {}
  PROVE  /\ Back(data) = {}
         /\ Cardinality(Back(data)) = 0
         /\ Cardinality(Back(data)) < Cardinality(Callers)
  <1>1. Len(<<>>) = 0 /\ 1..(0 - 1) = {}
    BY EmptySeq
  <1>2. Back(data) = {}
    <2>1. CASE data = <<>>
      BY <1>1, <2>1 DEF Back
    <2>2. QED
      BY <2>1
  <1>3. Cardinality(Callers) \in Nat /\ Cardinality(Callers) # 0
    BY FinanceCacheAssumption, FS_CardinalityType, FS_EmptySet
  <1>4. Cardinality(Back(data)) = 0
    BY <1>2, FS_EmptySet
  <1>5. QED
    BY <1>2, <1>3, <1>4

\* The server answers with at most a chunk, from the place asked for on.
LEMMA Chunks ==
  ASSUME NEW offset \in Nat, version \in DOMAIN Sizes
  PROVE  /\ ReportFile(offset) \in Seq(Cells)
         /\ Len(ReportFile(offset)) \in 0..Chunk
         /\ \A i \in 1..Len(ReportFile(offset)) :
              ReportFile(offset)[i].place = offset + i /\ ReportFile(offset)[i].version = version
  <1> DEFINE left == Sizes[version] - offset
             n == IF left <= 0 THEN 0 ELSE IF left < Chunk THEN left ELSE Chunk
             cell == [i \in 1..n |-> [version |-> version, place |-> offset + i]]
  <1>1. Sizes[version] \in Nat
    BY FinanceCacheAssumption, ElementOfSeq, LenProperties
  <1>2. n \in 0..Chunk /\ n \in Nat
    BY <1>1, FinanceCacheAssumption
  <1>3. \A i \in 1..n : [version |-> version, place |-> offset + i] \in Cells
    BY <1>2 DEF Cells
  <1>4. cell \in [1..n -> Cells]
    BY <1>3
  <1>5. ReportFile(offset) = cell
    BY DEF ReportFile
  <1>6. \A i \in 1..n : cell[i].place = offset + i /\ cell[i].version = version
    OBVIOUS
  <1> HIDE DEF left, n, cell
  <1>7. cell \in Seq(Cells) /\ Len(cell) = n
    <2>1. cell \in Seq(Cells)
      BY <1>2, <1>4, SeqDef
    <2>2. QED
      BY <1>2, <1>4, <2>1, LenProperties
  <1>8. QED
    BY <1>2, <1>5, <1>6, <1>7

-----------------------------------------------------------------------------
(* The steps *)

\* A chunk that begins where it was asked for keeps the part downloaded in place and in
\* order, and the next request adjoins it.
LEMMA ReceiveStep ==
  ASSUME IInv, NEW c \in Callers, NEW chunk \in Seq(Cells), call[c].at = "ask",
         Len(chunk) \in 0..Chunk,
         \A i \in 1..Len(chunk) : chunk[i].place = call[c].offset + i /\ chunk[i].version = version,
         Receive(c, chunk), UNCHANGED <<version, file, outcome>>, faults' \in 0..MaxFaults
  PROVE  IInv'
  <1> DEFINE d == call[c]
             next == d.offset + (IF d.size = 0 THEN Chunk ELSE Len(chunk))
             more == d.acc \o chunk
             at == IF Len(chunk) < Chunk \/ next >= (IF d.size = 0 THEN MaxPages * Chunk ELSE d.size)
                   THEN "put" ELSE "ask"
  <1>1. d \in [at : {"idle", "ask", "put", "write"}, size : Nat, offset : Nat, acc : Seq(Cells)]
    BY DEF IInv, TypeOK
  <1>2. d.acc \in Runs /\ d.offset = Len(d.acc) /\ \A i \in DOMAIN d.acc : d.acc[i].version <= version
    BY <1>1 DEF IInv, Adjoining, OnlyBeginnings, Known, Beginnings, Runs
  <1>3. version \in Nat
    BY FinanceCacheAssumption, LenProperties DEF IInv, TypeOK
  <1>4. more \in Runs /\ \A i \in DOMAIN more : more[i].version <= version
    BY <1>2, <1>3, ContinuedInOrder
  <1>5. Len(more) = Len(d.acc) + Len(chunk)
    BY <1>1, ConcatProperties
  <1>6. next \in Nat /\ at \in {"put", "ask"} /\ (at = "ask" => next = Len(more))
    <2>1. Len(chunk) \in Nat /\ Chunk \in Nat /\ Len(d.acc) \in Nat /\ d.offset \in Nat
      BY <1>1, LenProperties, FinanceCacheAssumption
    <2>2. next \in Nat /\ next = Len(d.acc) + (IF d.size = 0 THEN Chunk ELSE Len(chunk))
      <3>1. CASE d.size = 0
        BY <1>2, <2>1, <3>1
      <3>2. CASE d.size # 0
        BY <1>2, <2>1, <3>2
      <3>3. QED
        BY <3>1, <3>2
    <2>3. at = "ask" => Len(chunk) = Chunk
      BY <2>1
    <2>4. at \in {"put", "ask"}
      OBVIOUS
    <2> HIDE DEF at, next, more
    <2>5. QED
      BY <1>5, <2>1, <2>2, <2>3, <2>4
  <1>7. call' = [call EXCEPT ![c] = [at |-> at, size |-> d.size, offset |-> next, acc |-> more]]
    BY DEF Receive
  <1> HIDE DEF d, next, more, at
  <1>8. more \in Seq(Cells) /\ InPlace(more) /\ Back(more) = {}
    BY <1>4 DEF Beginnings, Runs
  <1>9. TypeOK'
    BY <1>1, <1>6, <1>7, <1>8 DEF IInv, TypeOK
  <1>10. OnlyBeginnings'
    <2>1. \A o \in Callers : InPlace(call'[o].acc) /\ Back(call'[o].acc) = {}
      BY <1>7, <1>8 DEF IInv, TypeOK, OnlyBeginnings
    <2>2. Copy(file.data) /\ \A o \in Callers : Copy(outcome[o].data)
      BY DEF IInv, OnlyBeginnings
    <2>3. QED
      BY <2>1, <2>2 DEF OnlyBeginnings, Copy, InPlace, Back
  <1>11. Adjoining' /\ Known'
    BY <1>4, <1>6, <1>7 DEF IInv, TypeOK, Adjoining, Known
  <1>12. Writing' = Writing
    BY <1>6, <1>7 DEF IInv, TypeOK, Writing
  <1>13. Overlaid'
    BY <1>12 DEF IInv, Overlaid, Back
  <1>14. QED
    BY <1>9, <1>10, <1>11, <1>13 DEF IInv

LEMMA WritingIsFinite == IsFiniteSet(Writing) /\ Cardinality(Writing) \in Nat
  BY FinanceCacheAssumption, FS_Subset, FS_CardinalityType DEF Writing

\* A call that ends with a copy, or with nothing, leaves only copies.
LEMMA FinishStep ==
  ASSUME IInv, NEW c \in Callers, NEW ok \in BOOLEAN, NEW data \in Beginnings,
         Cardinality(Back(data)) < Cardinality(Callers),
         Finish(c, [ok |-> ok, data |-> data]),
         file' \in [there : BOOLEAN, data : Beginnings, age : -1..(TTL + 1)],
         Copy(file.data)', Overlaid', version' = version, faults' \in 0..MaxFaults
  PROVE  IInv'
  <1>1. <<>> \in Seq(Cells) /\ Len(<<>>) = 0 /\ data \in Seq(Cells) /\ InPlace(<<>>) /\ Back(<<>>) = {}
    BY EmptySeq, NoneBack DEF Beginnings, InPlace
  <1>2. TypeOK'
    BY <1>1 DEF IInv, TypeOK, Finish, Idle, Beginnings
  <1>3. Copy(data)
    BY DEF Copy, Beginnings
  <1>4. OnlyBeginnings'
    <2>1. ASSUME NEW d \in Callers
          PROVE  (Copy(outcome[d].data) /\ InPlace(call[d].acc) /\ Back(call[d].acc) = {})'
      <3>1. CASE d = c
        <4>1. outcome'[d].data = data /\ call'[d].acc = <<>>
          BY <3>1 DEF IInv, TypeOK, Finish, Idle
        <4>2. QED
          BY <1>1, <1>3, <4>1 DEF Copy, InPlace, Back
      <3>2. CASE d # c
        <4>1. outcome'[d] = outcome[d] /\ call'[d] = call[d]
          BY <3>2 DEF IInv, TypeOK, Finish
        <4>2. QED
          BY <4>1 DEF IInv, OnlyBeginnings, Copy, InPlace, Back
      <3>3. QED
        BY <3>1, <3>2
    <2>2. QED
      BY <2>1 DEF OnlyBeginnings
  <1>5. Adjoining'
    BY <1>1 DEF IInv, TypeOK, Adjoining, Finish, Idle
  <1>6. Known'
    <2>1. DOMAIN <<>> = {}
      OBVIOUS
    <2>2. QED
      BY <2>1 DEF IInv, TypeOK, Known, Finish, Idle
  <1>7. QED
    BY <1>2, <1>4, <1>5, <1>6 DEF IInv

\* The file within its bounds, its copies and the processes that write unchanged.
LEMMA SameFile ==
  ASSUME IInv, file' = file, Writing' = Writing
  PROVE  Overlaid' /\ Copy(file.data)'
  BY DEF IInv, OnlyBeginnings, Overlaid, Copy, InPlace, Back

\* A process that writes its data is then one less that may.
LEMMA WriteStep ==
  ASSUME IInv, NEW c \in Callers, call[c].at = "write", NEW data \in Runs, NEW ok \in BOOLEAN,
         NEW given \in Runs,
         file' = [there |-> TRUE, data |-> Overwritten(data), age |-> 0],
         Finish(c, [ok |-> ok, data |-> given]), version' = version, faults' \in 0..MaxFaults
  PROVE  IInv'
  <1>1. file.data \in Beginnings /\ data \in Beginnings /\ given \in Beginnings
    BY DEF IInv, TypeOK, OnlyBeginnings, Copy, Beginnings, Runs
  <1>2. Overwritten(data) \in Beginnings
    BY <1>1, OverwrittenBeginning
  <1>3. file' \in [there : BOOLEAN, data : Beginnings, age : -1..(TTL + 1)]
    BY <1>2, FinanceCacheAssumption
  <1>4. IsFiniteSet(Writing) /\ Writing' = Writing \ {c} /\ c \in Writing
    BY WritingIsFinite DEF Writing, IInv, TypeOK, Finish, Idle
  <1>5. Cardinality(Writing') = Cardinality(Writing) - 1 /\ Cardinality(Writing) \in Nat /\ IsFiniteSet(Writing')
    BY <1>4, FS_RemoveElement, FS_CardinalityType
  <1> DEFINE old == Cardinality(Back(file.data))
             new == Cardinality(Back(Overwritten(data)))
  <1>6. old \in Nat /\ IsFiniteSet(Back(file.data)) /\ new \in Nat /\ IsFiniteSet(Back(Overwritten(data)))
    BY <1>1, <1>2, BackIsFinite DEF Beginnings
  <1>7. new <= old + 1 /\ (file.data = <<>> => new = 0)
    <2>1. /\ Back(Overwritten(data)) \subseteq Back(file.data) \cup {Len(data)}
          /\ file.data = <<>> => Back(Overwritten(data)) = {}
      BY <1>1, OverwrittenBack
    <2>2. /\ IsFiniteSet(Back(file.data) \cup {Len(data)})
          /\ Cardinality(Back(file.data) \cup {Len(data)}) \in {old, old + 1}
      BY <1>6, FS_AddElement
    <2>3. new <= Cardinality(Back(file.data) \cup {Len(data)})
      BY <2>1, <2>2, FS_Subset
    <2>4. Back(Overwritten(data)) = {} => new = 0
      BY NoneBack
    <2> HIDE DEF old, new
    <2>5. QED
      BY <1>6, <2>1, <2>2, <2>3, <2>4
  <1>8. old + Cardinality(Writing) + (IF file.data = <<>> THEN 0 ELSE 1) <= Cardinality(Callers)
    BY DEF IInv, Overlaid
  <1>9. Cardinality(Back(file'.data)) = new
    OBVIOUS
  <1> HIDE DEF old, new
  <1>10. Cardinality(Callers) \in Nat
    BY FinanceCacheAssumption, FS_CardinalityType
  <1>11. new + Cardinality(Writing') + (IF file'.data = <<>> THEN 0 ELSE 1) <= Cardinality(Callers)
    BY <1>5, <1>6, <1>7, <1>8, <1>10
  <1>12. Overlaid'
    BY <1>9, <1>11 DEF Overlaid, Back
  <1>13. Copy(file.data)'
    <2>1. Cardinality(Back(file'.data)) < Cardinality(Callers)
      <3>1. CASE file'.data = <<>>
        BY <3>1, NoneBack
      <3>2. CASE file'.data # <<>>
        <4>1. Cardinality(Writing') \in Nat
          BY <1>5, FS_CardinalityType
        <4>2. QED
          BY <1>6, <1>9, <1>11, <1>10, <3>2, <4>1
      <3>3. QED
        BY <3>1, <3>2
    <2>2. InPlace(file'.data)
      BY <1>3 DEF Beginnings
    <2>3. QED
      BY <2>1, <2>2 DEF Copy, InPlace, Back
  <1>14. Cardinality(Back(given)) < Cardinality(Callers)
    BY NoneBack DEF Runs
  <1>15. QED
    BY <1>1, <1>3, <1>12, <1>13, <1>14, FinishStep

-----------------------------------------------------------------------------

\* IInv is an inductive invariant.
THEOREM Inductive == Spec => []IInv
  <1>1. Init => IInv
    <2>1. <<>> \in Seq(Cells) /\ InPlace(<<>>) /\ Len(<<>>) = 0
      BY EmptySeq DEF InPlace
    <2>2. 1 \in DOMAIN Sizes
      BY FinanceCacheAssumption, LenProperties, EmptySeq
    <2>3. Copy(<<>>) /\ Back(<<>>) = {}
      BY <2>1, NoneBack DEF Copy
    <2>4. ASSUME Init
          PROVE  IInv
      <3>1. TypeOK
        BY <2>1, <2>2, <2>4, FinanceCacheAssumption DEF Init, TypeOK, NoFile, Idle, Nothing
      <3>2. OnlyBeginnings /\ Adjoining
        BY <2>1, <2>3, <2>4 DEF Init, OnlyBeginnings, Adjoining, NoFile, Idle, Nothing
      <3>3. Known
        <4>1. DOMAIN <<>> = {}
          OBVIOUS
        <4>2. QED
          BY <2>4, <4>1 DEF Init, Known, Idle
      <3>4. Overlaid
        <4>1. Writing = {}
          BY <2>4 DEF Init, Writing, Idle
        <4>2. Cardinality(Back(file.data)) = 0 /\ file.data = <<>>
          BY <2>4, NoneBack DEF Init, NoFile
        <4>3. Cardinality(Callers) \in Nat /\ Cardinality(Writing) = 0
          BY <4>1, FinanceCacheAssumption, FS_CardinalityType, FS_EmptySet
        <4>4. QED
          BY <4>2, <4>3 DEF Overlaid
      <3>5. QED
        BY <3>1, <3>2, <3>3, <3>4 DEF IInv
    <2>5. QED
      BY <2>4
  <1>2. ASSUME IInv, [Next]_vars
        PROVE  IInv'
    <2> USE <1>2
    <2>1. /\ file \in [there : BOOLEAN, data : Beginnings, age : -1..(TTL + 1)]
          /\ \A c \in Callers : call[c].acc \in Runs
          /\ <<>> \in Runs /\ <<>> \in Beginnings
          /\ Cardinality(Back(<<>>)) < Cardinality(Callers)
      <3>1. <<>> \in Beginnings
        BY EmptySeq DEF Beginnings, InPlace
      <3>2. Back(<<>>) = {} /\ Cardinality(Back(<<>>)) < Cardinality(Callers)
        BY NoneBack
      <3>3. QED
        BY <3>1, <3>2 DEF IInv, TypeOK, OnlyBeginnings, Copy, Beginnings, Runs
    <2>2. ASSUME NEW c \in Callers, NEW size \in {0, Sizes[version]}, Get(c, size)
          PROVE  IInv'
      <3>1. CASE Cached
        <4>1. Finish(c, [ok |-> TRUE, data |-> file.data]) /\ UNCHANGED <<version, file, faults>>
          BY <2>2, <3>1 DEF Get
        <4>2. Writing' = Writing
          BY <2>2, <4>1 DEF Get, Finish, Idle, Writing, IInv, TypeOK
        <4>3. file.data \in Beginnings /\ Cardinality(Back(file.data)) < Cardinality(Callers)
          BY <2>1 DEF IInv, OnlyBeginnings, Copy
        <4>4. QED
          BY <2>1, <4>1, <4>2, <4>3, SameFile, FinishStep DEF IInv, TypeOK
      <3>2. CASE ~Cached
        <4>1. size \in Nat
          BY FinanceCacheAssumption, ElementOfSeq, LenProperties DEF IInv, TypeOK
        <4>2. call' = [call EXCEPT ![c] = [at |-> "ask", size |-> size, offset |-> 0, acc |-> <<>>]]
              /\ UNCHANGED <<version, file, outcome, faults>>
          BY <2>2, <3>2 DEF Get, Idle
        <4>3. <<>> \in Seq(Cells) /\ InPlace(<<>>) /\ Len(<<>>) = 0 /\ Back(<<>>) = {} /\ DOMAIN <<>> = {}
          BY EmptySeq, NoneBack DEF InPlace
        <4>4. Writing' = Writing
          BY <2>2, <4>2 DEF Get, Idle, Writing, IInv, TypeOK
        <4>5. TypeOK' /\ Adjoining' /\ Known'
          BY <4>1, <4>2, <4>3 DEF IInv, TypeOK, Adjoining, Known
        <4>6. OnlyBeginnings'
          BY <4>2, <4>3 DEF IInv, TypeOK, OnlyBeginnings, Copy, InPlace, Back
        <4>7. QED
          BY <4>2, <4>4, <4>5, <4>6, SameFile DEF IInv
      <3>3. QED
        BY <3>1, <3>2
    <2>3. ASSUME NEW c \in Callers, Download(c)
          PROVE  IInv'
      <3>1. call[c].offset \in Nat /\ version \in DOMAIN Sizes
        BY DEF IInv, TypeOK
      <3>2. QED
        BY <2>3, <3>1, Chunks, ReceiveStep DEF Download, IInv, TypeOK
    <2>4. ASSUME NEW c \in Callers, DownloadShort(c)
          PROVE  IInv'
      <3>1. call[c].offset \in Nat /\ version \in DOMAIN Sizes
        BY DEF IInv, TypeOK
      <3> DEFINE chunk == ReportFile(call[c].offset)
      <3>2. /\ chunk \in Seq(Cells) /\ Len(chunk) \in 0..Chunk
            /\ \A i \in 1..Len(chunk) : chunk[i].place = call[c].offset + i /\ chunk[i].version = version
        BY <3>1, Chunks
      <3> HIDE DEF chunk
      <3>3. PICK n \in 0..(Len(chunk) - 1) : Receive(c, SubSeq(chunk, 1, n))
        BY <2>4 DEF DownloadShort, chunk
      <3>4. n \in 0..Len(chunk) /\ n \in 0..Chunk
        BY <3>2, FinanceCacheAssumption
      <3>5. /\ SubSeq(chunk, 1, n) \in Seq(Cells)
            /\ Len(SubSeq(chunk, 1, n)) = n
            /\ \A i \in 1..n : SubSeq(chunk, 1, n)[i] = chunk[i]
        BY <3>2, <3>4, CutShort
      <3>6. faults' \in 0..MaxFaults
        BY <2>4, FinanceCacheAssumption DEF DownloadShort, Fault, IInv, TypeOK
      <3>7. \A i \in 1..n : /\ SubSeq(chunk, 1, n)[i].place = call[c].offset + i
                           /\ SubSeq(chunk, 1, n)[i].version = version
        BY <3>2, <3>4, <3>5
      <3>8. QED
        BY <2>4, <3>3, <3>4, <3>5, <3>6, <3>7, ReceiveStep DEF DownloadShort
    <2>5. ASSUME NEW c \in Callers, DownloadFails(c)
          PROVE  IInv'
      <3>1. faults' \in 0..MaxFaults
        BY <2>5, FinanceCacheAssumption DEF DownloadFails, Fault, IInv, TypeOK
      <3>2. Writing' = Writing
        BY <2>5 DEF DownloadFails, Finish, Idle, Writing, IInv, TypeOK
      <3>3. QED
        BY <2>1, <2>5, <3>1, <3>2, SameFile, FinishStep DEF DownloadFails, Nothing
    <2>6. ASSUME NEW c \in Callers, Truncate(c)
          PROVE  IInv'
      <3>1. <<>> \in Seq(Cells) /\ InPlace(<<>>)
        BY EmptySeq DEF InPlace
      <3>2. TypeOK'
        <4>1. file' \in [there : BOOLEAN, data : Seq(Cells), age : -1..(TTL + 1)]
          BY <2>6, <3>1, FinanceCacheAssumption DEF Truncate
        <4>2. QED
          BY <2>6, <4>1 DEF Truncate, IInv, TypeOK
      <3>3. OnlyBeginnings'
        <4>1. Copy(<<>>)
          BY <2>1, <3>1 DEF Copy
        <4>2. file'.data = <<>> /\ outcome' = outcome /\ \A d \in Callers : call'[d].acc = call[d].acc
          BY <2>6 DEF Truncate, IInv, TypeOK
        <4>3. QED
          BY <4>1, <4>2 DEF IInv, OnlyBeginnings, Copy, InPlace, Back
      <3>4. Adjoining' /\ Known'
        BY <2>6 DEF Truncate, IInv, TypeOK, Adjoining, Known
      <3>5. Overlaid'
        <4>1. file'.data = <<>>
          BY <2>6 DEF Truncate
        <4>2. Cardinality(Back(file'.data)) = 0
          BY <4>1, NoneBack
        <4>3. IsFiniteSet(Callers) /\ Writing' \subseteq Callers
          BY FinanceCacheAssumption DEF Writing
        <4>4. Cardinality(Writing') <= Cardinality(Callers) /\ Cardinality(Writing') \in Nat
          BY <4>3, FS_Subset, FS_CardinalityType
        <4>5. QED
          BY <4>1, <4>2, <4>4 DEF Overlaid, Back
      <3>6. QED
        BY <3>2, <3>3, <3>4, <3>5 DEF IInv
    <2>7. ASSUME NEW c \in Callers, Write(c)
          PROVE  IInv'
      <3>1. call[c].at = "write" /\ version' = version /\ faults' \in 0..MaxFaults
        BY <2>7 DEF Write, IInv, TypeOK
      <3>2. QED
        BY <2>1, <2>7, <3>1, WriteStep DEF Write
    <2>8. ASSUME NEW c \in Callers, WriteTears(c)
          PROVE  IInv'
      <3>1. PICK n \in 0..Len(call[c].acc) :
              file' = [there |-> TRUE, data |-> Overwritten(SubSeq(call[c].acc, 1, n)), age |-> 0]
        BY <2>8 DEF WriteTears
      <3>2. SubSeq(call[c].acc, 1, n) \in Runs
        BY <2>1, <3>1, CutInOrder
      <3>3. call[c].at = "write" /\ version' = version /\ faults' \in 0..MaxFaults
        BY <2>8, FinanceCacheAssumption DEF WriteTears, Fault, IInv, TypeOK
      <3>4. PICK ok \in BOOLEAN, given \in {call[c].acc, <<>>} : Finish(c, [ok |-> ok, data |-> given])
        BY <2>8 DEF WriteTears, Nothing
      <3>5. QED
        BY <2>1, <3>1, <3>2, <3>3, <3>4, WriteStep
    <2>9. CASE Replace
      <3>1. version' \in DOMAIN Sizes
        BY <2>9, FinanceCacheAssumption, LenProperties DEF Replace, IInv, TypeOK
      <3>2. TypeOK' /\ Adjoining'
        BY <2>9, <3>1 DEF Replace, IInv, TypeOK, Adjoining
      <3>3. Known'
        <4>1. version \in Int /\ version' = version + 1 /\ call' = call
          BY <2>9, FinanceCacheAssumption, LenProperties DEF Replace, IInv, TypeOK
        <4>2. ASSUME NEW c \in Callers, NEW i \in DOMAIN call[c].acc
              PROVE  call[c].acc[i].version <= version + 1
          <5>1. call[c].acc \in Seq(Cells) /\ call[c].acc[i].version <= version
            BY DEF IInv, TypeOK, Known
          <5>2. call[c].acc[i] \in Cells
            BY <5>1, ElementOfSeq, LenProperties
          <5>3. call[c].acc[i].version \in Int
            BY <5>2, FinanceCacheAssumption, LenProperties DEF Cells
          <5>4. QED
            BY <4>1, <5>1, <5>3
        <4>3. QED
          BY <4>1, <4>2 DEF Known
      <3>4. OnlyBeginnings' /\ Overlaid'
        BY <2>9 DEF Replace, IInv, OnlyBeginnings, Copy, InPlace, Back, Overlaid, Writing
      <3>5. QED
        BY <3>2, <3>3, <3>4 DEF IInv
    <2>10. CASE Tick \/ StepBack
      <3>1. /\ faults' \in 0..MaxFaults /\ UNCHANGED <<version, call, outcome>>
            /\ file' \in [there : BOOLEAN, data : Seq(Cells), age : -1..(TTL + 1)]
            /\ file'.data = file.data
        <4>1. TTL \in Nat /\ MaxFaults \in Nat /\ faults \in 0..MaxFaults /\ file.age \in -1..(TTL + 1)
              /\ file \in [there : BOOLEAN, data : Seq(Cells), age : -1..(TTL + 1)]
          BY FinanceCacheAssumption DEF IInv, TypeOK
        <4>2. CASE Tick
          <5>1. file' = [file EXCEPT !.age = file.age + 1] /\ file.age + 1 \in -1..(TTL + 1)
            BY <4>1, <4>2 DEF Tick
          <5>2. QED
            BY <4>1, <4>2, <5>1 DEF Tick
        <4>3. CASE StepBack
          <5>1. file' = [file EXCEPT !.age = file.age - 1] /\ file.age - 1 \in -1..(TTL + 1)
            BY <4>1, <4>3 DEF StepBack
          <5>2. QED
            BY <4>1, <4>3, <5>1 DEF StepBack, Fault
        <4>4. QED
          BY <2>10, <4>2, <4>3
      <3>2. QED
        BY <3>1 DEF IInv, TypeOK, OnlyBeginnings, Copy, Adjoining, Known, InPlace, Back, Overlaid, Writing
    <2>11. CASE UNCHANGED vars
      BY <2>11 DEF vars, IInv, TypeOK, OnlyBeginnings, Copy, Adjoining, Known, InPlace, Back, Overlaid, Writing
    <2>12. QED
      BY <2>2, <2>3, <2>4, <2>5, <2>6, <2>7, <2>8, <2>9, <2>10, <2>11 DEF Next
  <1>3. QED
    BY <1>1, <1>2, PTL DEF Spec

\* Every variable keeps its type, and the age of the file its range.
THEOREM TypeCorrect == Spec => []TypeOK
  <1>1. IInv => TypeOK
    BY DEF IInv
  <1>2. QED
    BY <1>1, Inductive, PTL

\* What is cached, and what is returned, has each cell in its place in every reachable
\* state, and an older version behind a newer one at most once for each other process,
\* whatever processes share the directory, whatever is cut off, torn or replaced, and
\* however long the files are.
THEOREM NothingDisplaced == Spec => []OnlyBeginnings
  <1>1. IInv => OnlyBeginnings
    BY DEF IInv
  <1>2. QED
    BY <1>1, Inductive, PTL
=============================================================================
