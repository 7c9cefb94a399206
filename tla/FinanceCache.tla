------------------------------ MODULE FinanceCache ----------------------------
(* TdxFinanceClient (net/finance_client.rs): a report file is downloaded in chunks,    *)
(* kept in a directory for a day, and read from there by later calls, also of other    *)
(* processes.  A file is a sequence of cells; a cell is the version of the file it is  *)
(* of and its place in it.  Each request to the server is one step; fs::write empties  *)
(* the file in one step and fills it in another.                                       *)
EXTENDS Integers, Sequences, FiniteSets

CONSTANTS
  Callers,   \* processes that share the directory
  Chunk,     \* CHUNK_SIZE, in cells
  MaxPages,  \* chunks asked for when the size is unknown
  TTL,       \* CACHE_TTL, in ticks
  Sizes,     \* Sizes[v]: cells of version v
  MaxFaults  \* bound on what goes wrong

ASSUME FinanceCacheAssumption ==
  /\ Chunk \in Nat \ {0} /\ MaxPages \in Nat \ {0} /\ TTL \in Nat /\ MaxFaults \in Nat
  /\ Sizes \in Seq(Nat \ {0}) /\ Sizes # <<>>
  /\ IsFiniteSet(Callers) /\ Callers # {}

VARIABLES
  version,  \* of the file on the server
  file,     \* the cached file: its data and age, by its modification time
  call,     \* call[c]: the download in progress
  outcome,  \* outcome[c]: what the last call returned
  faults

vars == <<version, file, call, outcome, faults>>

Cells == [version : DOMAIN Sizes, place : Nat \ {0}]

NoFile == [there |-> FALSE, data |-> <<>>, age |-> 0]
Idle == [at |-> "idle", size |-> 0, offset |-> 0, acc |-> <<>>]
Nothing == [ok |-> FALSE, data |-> <<>>]

TypeOK ==
  /\ version \in DOMAIN Sizes
  /\ file \in [there : BOOLEAN, data : Seq(Cells), age : -1..(TTL + 1)]
  /\ call \in [Callers -> [at : {"idle", "ask", "put", "write"}, size : Nat, offset : Nat, acc : Seq(Cells)]]
  /\ \A c \in Callers : call[c].at = "idle" => call[c] = Idle
  /\ outcome \in [Callers -> [ok : BOOLEAN, data : Seq(Cells)]]
  /\ faults \in 0..MaxFaults

Init ==
  /\ version = 1
  /\ file = NoFile
  /\ call = [c \in Callers |-> Idle]
  /\ outcome = [c \in Callers |-> Nothing]
  /\ faults = 0

-----------------------------------------------------------------------------

Fault == faults < MaxFaults /\ faults' = faults + 1

\* cache_get: a file older than a day, or from the future, does not count.
MutCached == file.there
Cached == file.there /\ file.age \in 0..TTL

\* get_report_file: up to Chunk cells from offset on.
ReportFile(offset) ==
  LET left == Sizes[version] - offset
  IN [i \in 1..(IF left <= 0 THEN 0 ELSE IF left < Chunk THEN left ELSE Chunk) |->
        [version |-> version, place |-> offset + i]]

Finish(c, result) ==
  /\ outcome' = [outcome EXCEPT ![c] = result]
  /\ call' = [call EXCEPT ![c] = Idle]

\* get_report_file_by_size; size 0 if it is not known.
Get(c, size) ==
  /\ call[c] = Idle
  /\ IF Cached THEN Finish(c, [ok |-> TRUE, data |-> file.data])
     ELSE /\ call' = [call EXCEPT ![c] = [Idle EXCEPT !.at = "ask", !.size = size]]
          /\ UNCHANGED outcome
  /\ UNCHANGED <<version, file, faults>>

\* download_report_file: the next offset is counted in chunks, or in what was received if
\* the size is known; a chunk that is empty or short is the last one.
MutReceive(c, chunk) ==
  LET unknown == call[c].size = 0
      next == call[c].offset + (IF unknown THEN Chunk ELSE Len(chunk))
      enough == IF unknown THEN MaxPages * Chunk ELSE call[c].size
  IN call' = [call EXCEPT ![c] =
       [at |-> IF chunk = <<>> \/ next >= enough THEN "put" ELSE "ask",
        size |-> @.size, offset |-> next, acc |-> @.acc \o chunk]]
Receive(c, chunk) ==
  LET unknown == call[c].size = 0
      next == call[c].offset + (IF unknown THEN Chunk ELSE Len(chunk))
      enough == IF unknown THEN MaxPages * Chunk ELSE call[c].size
  IN call' = [call EXCEPT ![c] =
       [at |-> IF Len(chunk) < Chunk \/ next >= enough THEN "put" ELSE "ask",
        size |-> @.size, offset |-> next, acc |-> @.acc \o chunk]]

Download(c) ==
  /\ call[c].at = "ask"
  /\ Receive(c, ReportFile(call[c].offset))
  /\ UNCHANGED <<version, file, outcome, faults>>

\* The answer is shorter than it should be, or its body than its length says (which
\* counts as an empty one).
DownloadShort(c) ==
  /\ call[c].at = "ask" /\ Fault
  /\ LET chunk == ReportFile(call[c].offset)
     IN \E n \in 0..(Len(chunk) - 1) : Receive(c, SubSeq(chunk, 1, n))
  /\ UNCHANGED <<version, file, outcome>>

\* No connection, or it breaks: the error ends the call and nothing is cached.
DownloadFails(c) ==
  /\ call[c].at = "ask" /\ Fault
  /\ Finish(c, Nothing)
  /\ UNCHANGED <<version, file>>

\* cache_put: fs::write.
Truncate(c) ==
  /\ call[c].at = "put"
  /\ file' = [there |-> TRUE, data |-> <<>>, age |-> 0]
  /\ call' = [call EXCEPT ![c].at = "write"]
  /\ UNCHANGED <<version, outcome, faults>>

\* Another process may have written since; its bytes behind the end of these remain.
Overwritten(data) == data \o SubSeq(file.data, Len(data) + 1, Len(file.data))

Write(c) ==
  /\ call[c].at = "write"
  /\ file' = [there |-> TRUE, data |-> Overwritten(call[c].acc), age |-> 0]
  /\ Finish(c, [ok |-> TRUE, data |-> call[c].acc])
  /\ UNCHANGED <<version, faults>>

\* The disk is full, or the process ends: the file stays as far as it was written.  An
\* error of fs::write is passed over.
WriteTears(c) ==
  /\ call[c].at = "write" /\ Fault
  /\ \E n \in 0..Len(call[c].acc) :
       file' = [there |-> TRUE, data |-> Overwritten(SubSeq(call[c].acc, 1, n)), age |-> 0]
  /\ \/ Finish(c, [ok |-> TRUE, data |-> call[c].acc])
     \/ Finish(c, Nothing)
  /\ UNCHANGED version

-----------------------------------------------------------------------------
(* External *)

Replace ==
  /\ version < Len(Sizes)
  /\ version' = version + 1
  /\ UNCHANGED <<file, call, outcome, faults>>

Tick ==
  /\ file.there /\ file.age <= TTL
  /\ file' = [file EXCEPT !.age = @ + 1]
  /\ UNCHANGED <<version, call, outcome, faults>>

\* The clock steps back.
StepBack ==
  /\ file.there /\ file.age >= 0 /\ Fault
  /\ file' = [file EXCEPT !.age = @ - 1]
  /\ UNCHANGED <<version, call, outcome>>

Next ==
  \/ \E c \in Callers, size \in {0, Sizes[version]} : Get(c, size)
  \/ \E c \in Callers :
       Download(c) \/ DownloadShort(c) \/ DownloadFails(c) \/ Truncate(c) \/ Write(c) \/ WriteTears(c)
  \/ Replace \/ Tick \/ StepBack

Spec == Init /\ [][Next]_vars

\* Callers ask again and again, their requests return, and time passes.
FairSpec ==
  /\ Spec /\ WF_vars(Tick)
  /\ \A c \in Callers :
       WF_vars(\E size \in {0, Sizes[version]} : Get(c, size)) /\ WF_vars(Download(c) \/ Truncate(c) \/ Write(c))
-----------------------------------------------------------------------------
(* Properties *)

InPlace(data) == \A i \in DOMAIN data : data[i].place = i

\* The places behind which an older version of the file goes on.
Back(data) == {i \in 1..(Len(data) - 1) : data[i + 1].version < data[i].version}

Copy(data) == InPlace(data) /\ Cardinality(Back(data)) < Cardinality(Callers)

\* What is returned, and what is cached, has each cell in its place: nothing in the middle
\* is missing, repeated or displaced, after short answers, torn writes and processes that
\* write at once.  It need not be of one version.  A file replaced during a download goes
\* on in the newer version, never in an older one; and the rest of an older version stands
\* behind a newer one at most once for each other process (its file, overwritten by a
\* shorter one), so that a process which is alone never sees it.
OnlyBeginnings ==
  /\ Copy(file.data)
  /\ \A c \in Callers : Copy(outcome[c].data) /\ InPlace(call[c].acc) /\ Back(call[c].acc) = {}

First(n) == [i \in 1..n |-> [version |-> version, place |-> i]]

\* A call that does not know the size of the file asks for MaxPages chunks at most.
Cut == IF Sizes[version] <= MaxPages * Chunk THEN Sizes[version] ELSE MaxPages * Chunk

Whole(data) == data \in {First(Sizes[version]), First(Cut)}

\* A part of a file, or an old version of it, is not served for ever: once nothing goes
\* wrong any more, each call returns the whole of the file the server has, or MaxPages
\* chunks of one that is longer (what a call which does not know the size asks for, and
\* what it caches for the others), and so do those after it.  Another process that is about
\* to write may still have emptied the file that a call reads (fs::write is not atomic);
\* even then somebody is always given the whole.
WholeAtLast ==
  /\ \A c \in Callers : <>[](/\ outcome[c].ok
                            /\ \/ Whole(outcome[c].data)
                               \/ outcome[c].data = <<>> /\ Callers # {c})
  /\ []<>(\E c \in Callers : Whole(outcome[c].data))

\* A call that succeeds returns a complete file (comment of get_report_file_by_size:
\* downloads the complete report file).  It does not: without the size it ends after
\* MaxPages chunks, an answer without data ends it early, and what it has is cached.
OnlyWholeFiles ==
  [][\A c \in Callers : outcome'[c] # outcome[c] /\ outcome'[c].ok =>
       \E v \in DOMAIN Sizes : outcome'[c].data = [i \in 1..Sizes[v] |-> [version |-> v, place |-> i]]]_vars
=============================================================================
