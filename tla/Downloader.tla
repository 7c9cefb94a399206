------------------------------ MODULE Downloader ------------------------------
(* Downloader (python/tdxrs/downloader.py): files of K-lines, one per category and     *)
(* stock, downloaded page by page and continued by later runs; a checkpoint from which *)
(* an interrupted run goes on; a record of the stocks that update() keeps up to date.  *)
(* A bar is its number, 1 the oldest; the servers have the bars up to top.  Requests   *)
(* and writes are steps; the process may end at each of them, and in the middle of a   *)
(* write.  One market; the series of its categories grow together, bar by bar, and no  *)
(* property compares two of them.  The server pool's order and its waiting are left    *)
(* out, and so are the range of dates, CSV, and the files by day (ticks, events),      *)
(* which no later call reads.                                                          *)
EXTENDS Naturals, Sequences, FiniteSets, SequencesExt

CONSTANTS
  List,       \* the market's list of stocks
  Lists,      \* what a caller passes as categories
  Given,      \* what a caller passes as codes
  None,
  Page,       \* max_per_req
  PerDay,     \* the bars of a day in each category: 1 for days and longer, more for minutes
  Every,      \* stocks from checkpoint to checkpoint
  SyncEvery,  \* stocks from writing to writing the sync record
  MaxTop, MaxFaults

Codes == ToSet(List)
Jobs == UNION {ToSet(jobs) : jobs \in Lists}

ASSUME DownloaderAssumption ==
  /\ List \in Seq(Codes) /\ IsInjective(List) /\ None \notin Codes \cup Jobs
  /\ Given \subseteq Seq(Codes) /\ Lists \subseteq Seq(Jobs)
  /\ PerDay \in [Jobs -> Nat \ {0}]
  /\ {Page, Every, SyncEvery} \subseteq Nat \ {0} /\ {MaxTop, MaxFaults} \subseteq Nat

VARIABLES
  format,      \* format: "tdx" or "parquet"
  fq,          \* 0 for prices as they are
  top,
  file,        \* the bars in each file; none if it is missing or cannot be read
  checkpoint,  \* checkpoint.json; None if it is missing, torn or a day old
  synced,      \* the stocks in last_sync.json, in its order
  memory,      \* _sync_data; None if unset
  counter,     \* _sync_counter, modulo SyncEvery
  run,         \* the call in progress: where it is, and its locals
  faults

vars == <<format, fq, top, file, checkpoint, synced, memory, counter, run, faults>>
disk == <<file, checkpoint, synced>>
inside == <<memory, counter>>
world == <<format, fq, top, faults>>

Idle == [at |-> "idle", jobs |-> <<>>, codes |-> None, togo |-> <<>>, done |-> 0, total |-> 0,
         offset |-> 0, bars |-> <<>>]

\* The sequences in which a set of stocks may be recorded.
Orders == {s \in SeqOf(Codes, Cardinality(Codes)) : IsInjective(s)}

TypeOK ==
  /\ format \in {"tdx", "parquet"} /\ fq \in {0, 1}
  /\ top \in 1..MaxTop /\ faults \in 0..MaxFaults
  /\ file \in [Jobs \X Codes -> Seq(1..MaxTop)]
  /\ checkpoint = None \/ checkpoint \in [job : Jobs, code : Codes \cup {None}, done : Nat, total : Nat]
  /\ synced \in Orders /\ memory \in Orders \cup {None}
  /\ counter \in 0..(SyncEvery - 1)
  /\ run \in [at : {"idle", "list", "pages", "write", "sync", "save", "finish"},
              jobs : Seq(Jobs), codes : {None} \cup Seq(Codes), togo : Seq(Codes),
              done : Nat, total : Nat, offset : Nat, bars : Seq(1..MaxTop)]
  /\ run.total = run.done + Len(run.togo)
  /\ run.at \in {"pages", "write", "sync", "save", "finish"} => run.jobs # <<>>
  /\ run.at \in {"pages", "write", "sync", "save"} => run.togo # <<>>

Init ==
  /\ format \in {"tdx", "parquet"} /\ fq \in {0, 1}
  /\ top \in 1..MaxTop /\ faults = 0
  /\ file = [f \in Jobs \X Codes |-> <<>>]
  /\ checkpoint = None /\ synced = <<>>
  /\ memory = None /\ counter = 0
  /\ run = Idle
-----------------------------------------------------------------------------
(* External: the market, and what goes wrong *)

NewBar ==
  /\ top < MaxTop /\ top' = top + 1
  /\ UNCHANGED <<format, fq, faults, disk, inside, run>>

Fault == faults < MaxFaults /\ faults' = faults + 1

\* get_security_bars: count bars that end offset bars before the newest, ascending.
Bars(offset, count) ==
  LET last == IF offset < top THEN top - offset ELSE 0
      first == IF last > count THEN last - count + 1 ELSE 1
  IN [i \in 1..(last + 1 - first) |-> first + i - 1]

\* The call ends where it is: by an interrupt, which leaves the Downloader as it is, or
\* with the process.
Ends ==
  /\ run' = Idle
  /\ \/ UNCHANGED inside
     \/ memory' = None /\ counter' = 0

Killed ==
  /\ run.at # "idle" /\ Fault /\ Ends
  /\ UNCHANGED <<format, fq, top, disk>>

\* The checkpoint is a day old.
Expire ==
  /\ checkpoint # None /\ checkpoint' = None
  /\ UNCHANGED <<world, file, synced, inside, run>>

\* Downloader(...), with the files that are there.
NewDownloader ==
  /\ run.at = "idle" /\ memory' = None /\ counter' = 0
  /\ UNCHANGED <<world, disk, run>>
-----------------------------------------------------------------------------
(* run and update *)

Start(jobs, codes) == run' = [Idle EXCEPT !.at = "list", !.jobs = jobs, !.codes = codes]

Run(jobs, codes) ==
  /\ run.at = "idle" /\ Start(jobs, codes)
  /\ UNCHANGED <<world, disk, inside>>

\* Only for prices as they are; without codes, for the stocks that are recorded, or for
\* all if none is.
Update(jobs, codes) ==
  /\ run.at = "idle" /\ fq = 0
  /\ IF synced = <<>> /\ codes = None
       THEN Start(jobs, None) /\ UNCHANGED memory
       ELSE /\ memory' = synced
            /\ Start(jobs, IF codes = None THEN synced ELSE codes)
  /\ UNCHANGED <<world, disk, counter>>

\* Where the list goes on: behind the stock of the checkpoint, if that is of this job
\* and of a run that did not come to its end.
Resumed(job, list) ==
  LET at == IF checkpoint = None THEN {} ELSE {i \in DOMAIN list : list[i] = checkpoint.code}
  IN IF /\ at # {} /\ checkpoint.job = job
        /\ checkpoint.done > 0 /\ checkpoint.done < checkpoint.total
       THEN SubSeq(list, (CHOOSE i \in at : TRUE) + 1, Len(list))
       ELSE list

NextJob == [run EXCEPT !.at = "list", !.jobs = Tail(@), !.togo = <<>>, !.done = 0, !.total = 0]

Stocks(list) ==
  run' = [run EXCEPT !.at = IF list = <<>> THEN "finish" ELSE "pages", !.togo = list, !.done = 0, !.total = Len(list)]

MutCheckpoint(code, done, total) ==
  checkpoint' = IF done = total THEN checkpoint ELSE [job |-> Head(run.jobs), code |-> code, done |-> done, total |-> total]
Checkpoint(code, done, total) ==
  checkpoint' = [job |-> Head(run.jobs), code |-> code, done |-> done, total |-> total]

\* _fetch_stock_list: the list ends with the first page that comes back empty.
FetchList ==
  /\ run.at = "list" /\ run.jobs # <<>> /\ run.codes = None
  /\ Stocks(Resumed(Head(run.jobs), List))
  /\ UNCHANGED <<world, disk, inside>>

FetchListCut ==
  /\ run.at = "list" /\ run.jobs # <<>> /\ run.codes = None /\ Fault
  /\ \E n \in 0..(Len(List) - 1) :
       IF n = 0 THEN run' = NextJob
       ELSE Stocks(Resumed(Head(run.jobs), SubSeq(List, 1, n)))
  /\ UNCHANGED <<format, fq, top, disk, inside>>

FetchListFails ==
  /\ run.at = "list" /\ run.jobs # <<>> /\ run.codes = None /\ Fault
  /\ Checkpoint(None, 0, 0)
  /\ run' = NextJob
  /\ UNCHANGED <<format, fq, top, file, synced, inside>>

TakeCodes ==
  /\ run.at = "list" /\ run.jobs # <<>> /\ run.codes # None
  /\ Stocks(run.codes)
  /\ UNCHANGED <<world, disk, inside>>

\* _print_summary writes the sync record.
Summary ==
  /\ run.at = "list" /\ run.jobs = <<>>
  /\ run' = Idle
  /\ synced' = IF memory = None THEN synced ELSE memory
  /\ UNCHANGED <<world, file, checkpoint, inside>>

SummaryTears ==
  /\ run.at = "list" /\ run.jobs = <<>> /\ memory # None /\ Fault
  /\ synced' = <<>> /\ Ends
  /\ UNCHANGED <<format, fq, top, file, checkpoint>>
-----------------------------------------------------------------------------
(* _download_one *)

This == <<Head(run.jobs), Head(run.togo)>>

Date(job, bar) == (bar - 1) \div PerDay[job] + 1

\* _get_existing_last_date: 0 without a record, or if the files are not continued.
ExistingLast == IF fq = 0 /\ file[This] # <<>> THEN Date(Head(run.jobs), Last(file[This])) ELSE 0

\* The bars at these places, in their order.
AtPlaces(bars, places) ==
  [n \in 1..Cardinality(places) |-> bars[CHOOSE i \in places : Cardinality({j \in places : j <= i}) = n]]

MutNewer(bars) == AtPlaces(bars, {i \in DOMAIN bars : Date(Head(run.jobs), bars[i]) >= ExistingLast})
Newer(bars) == AtPlaces(bars, {i \in DOMAIN bars : Date(Head(run.jobs), bars[i]) > ExistingLast})

\* The pages end: what is newer than the file is written.
Downloaded(bars) ==
  run' = [run EXCEPT !.at = IF Newer(bars) = <<>> THEN "save" ELSE "write", !.bars = Newer(bars), !.offset = 0]

\* A page: older pages are put behind newer ones.
Request ==
  /\ run.at = "pages"
  /\ LET page == Bars(run.offset, Page)
         bars == run.bars \o page
     IN IF Len(page) < Page THEN Downloaded(bars)
        ELSE run' = [run EXCEPT !.bars = bars, !.offset = @ + Page]
  /\ UNCHANGED <<world, disk, inside>>

\* The server whose turn it is has no data: the pages end as if there were no more.
RequestEmpty ==
  /\ run.at = "pages" /\ Fault
  /\ Downloaded(run.bars)
  /\ UNCHANGED <<format, fq, top, disk, inside>>

RequestFails ==
  /\ run.at = "pages" /\ Fault
  /\ run' = [run EXCEPT !.at = "save", !.bars = <<>>, !.offset = 0]
  /\ UNCHANGED <<format, fq, top, disk, inside>>

\* _write_tdx, _write_parquet: continued if the file has a last bar, else written anew.
MutWritten(bars) == bars
Written(bars) == IF ExistingLast = 0 THEN bars ELSE file[This] \o bars

Write ==
  /\ run.at = "write"
  /\ file' = [file EXCEPT ![This] = Written(run.bars)]
  /\ run' = [run EXCEPT !.at = IF fq = 0 THEN "sync" ELSE "save", !.bars = <<>>]
  /\ UNCHANGED <<world, checkpoint, synced, inside>>

\* A write that comes off in part: some of the records of a .day file are there; a
\* parquet file, which is written as a whole, cannot be read.  An error (a full disk) is
\* caught, and the next stock's turn comes.
WriteTears ==
  /\ run.at = "write" /\ Fault
  /\ \/ Ends
     \/ run' = [run EXCEPT !.at = "save", !.bars = <<>>] /\ UNCHANGED inside
  /\ \E n \in 0..(Len(run.bars) - 1) :
       file' = [file EXCEPT ![This] = IF format = "tdx" THEN Written(SubSeq(run.bars, 1, n)) ELSE <<>>]
  /\ UNCHANGED <<format, fq, top, checkpoint, synced>>

\* The old parquet table cannot be read or joined: the new bars replace it.
MergeFails ==
  /\ run.at = "write" /\ format = "parquet" /\ Fault
  /\ file' = [file EXCEPT ![This] = run.bars]
  /\ run' = [run EXCEPT !.at = IF fq = 0 THEN "sync" ELSE "save", !.bars = <<>>]
  /\ UNCHANGED <<format, fq, top, checkpoint, synced, inside>>

\* _update_sync
Recorded ==
  LET old == IF memory \in {None, <<>>} THEN synced ELSE memory
      code == Head(run.togo)
  IN IF code \in ToSet(old) THEN old ELSE Append(old, code)

Remember ==
  /\ memory' = Recorded
  /\ counter' = (counter + 1) % SyncEvery

UpdateSync ==
  /\ run.at = "sync" /\ Remember
  /\ synced' = IF counter' = 0 THEN memory' ELSE synced
  /\ run' = [run EXCEPT !.at = "save"]
  /\ UNCHANGED <<world, file, checkpoint>>

\* The record is torn: the process ends, or the call, or the error is caught as one of
\* this stock.
UpdateSyncTears ==
  /\ run.at = "sync" /\ counter = SyncEvery - 1 /\ Fault
  /\ \/ run' = Idle /\ memory' = None /\ counter' = 0
     \/ run' \in {Idle, [run EXCEPT !.at = "save"]} /\ Remember
  /\ synced' = <<>>
  /\ UNCHANGED <<format, fq, top, file, checkpoint>>
-----------------------------------------------------------------------------
(* The checkpoint *)

Save ==
  /\ run.at = "save"
  /\ LET done == run.done + 1
     IN /\ IF done % Every = 0 THEN Checkpoint(Head(run.togo), done, run.total) ELSE UNCHANGED checkpoint
        /\ run' = [run EXCEPT !.at = IF Len(run.togo) = 1 THEN "finish" ELSE "pages",
                              !.togo = Tail(@), !.done = done]
  /\ UNCHANGED <<world, file, synced, inside>>

Finish ==
  /\ run.at = "finish"
  /\ Checkpoint(None, run.total, run.total)
  /\ run' = NextJob
  /\ UNCHANGED <<world, file, synced, inside>>

SaveTears ==
  /\ \/ run.at = "save" /\ (run.done + 1) % Every = 0
     \/ run.at = "finish"
  /\ Fault /\ checkpoint' = None /\ Ends
  /\ UNCHANGED <<format, fq, top, file, synced>>
-----------------------------------------------------------------------------
Step ==
  \/ FetchList \/ TakeCodes \/ Summary \/ Request \/ Write \/ UpdateSync \/ Save \/ Finish

Next ==
  \/ \E jobs \in Lists, codes \in Given \cup {None} : Run(jobs, codes) \/ Update(jobs, codes)
  \/ Step
  \/ FetchListCut \/ FetchListFails \/ SummaryTears \/ RequestEmpty \/ RequestFails
  \/ WriteTears \/ MergeFails \/ UpdateSyncTears \/ SaveTears
  \/ NewBar \/ Killed \/ Expire \/ NewDownloader

Spec == Init /\ [][Next]_vars

\* The process goes on with its call.
FairSpec == Spec /\ WF_vars(Step)
-----------------------------------------------------------------------------
(* Properties *)

\* The last bar of the day with which a file that is continued ends; 0 for one that is
\* written anew.
End(f) ==
  IF fq = 0 /\ file[f] # <<>> THEN Date(f[1], Last(file[f])) * PerDay[f[1]] ELSE 0

\* From the oldest bar on, ascending, each bar once, and nothing left out but the rest of
\* days with which writes ended: an update goes on with the first bar of the next day.
InOrder(job, bars) ==
  \A i \in DOMAIN bars :
    IF i = 1 THEN bars[i] = 1
    ELSE bars[i] \in {bars[i - 1] + 1, Date(job, bars[i - 1]) * PerDay[job] + 1}

\* A .day file in order stays in order, days or minutes, one page of history or many,
\* wherever runs and updates are cut off and whatever is resumed, skipped, written in part
\* or added to the market between two requests, as long as what is new fits into a page.
\* (Older pages are put behind newer ones: a file that falls behind by more than a page, or
\* whose first download is longer than one, gets them in the wrong order, and then twice.)
FilesInOrder ==
  [][\A f \in DOMAIN file :
       format = "tdx" /\ InOrder(f[1], file[f]) /\ top <= End(f) + Page
         => InOrder(f[1], file'[f])]_vars

\* What a .day file of unadjusted prices has is never lost (the comment in _download_one
\* says that an update used to leave nothing but the increment), whatever is torn.
HistoryKept ==
  [][format = "tdx" /\ fq = 0 => \A f \in DOMAIN file : IsPrefix(file[f], file'[f])]_vars

\* When the market is downloaded again and again and nothing goes wrong any more, every
\* file of days or longer has the newest bar in the end: neither a checkpoint nor what
\* crashes left in the files keeps a stock from being downloaded for good.  (In a file of
\* minutes the rest of the day with which a write ended is never downloaded.)
CatchesUp ==
  \A jobs \in Lists :
    []<><<Run(jobs, None)>>_vars
    => <>[](\A f \in {job \in ToSet(jobs) : PerDay[job] = 1} \X Codes : top \in ToSet(file[f]))

\* No bar is in a file twice, however long its history (comment of _write_parquet: new
\* records are younger than the last old one, in theory there is no overlap).
NoBarTwice == \A f \in DOMAIN file : IsInjective(file[f])

\* update() without codes keeps up to date what was downloaded (CLI.md: it updates the
\* stocks downloaded so far).
UpdatesReachAll ==
  \A jobs \in Lists :
    /\ <>[][(\E j \in Lists, codes \in Given \cup {None} : Run(j, codes) \/ Update(j, codes)) => Update(jobs, None)]_vars
    /\ []<><<Update(jobs, None)>>_vars
    => <>[](fq = 0 => \A f \in ToSet(jobs) \X Codes : file[f] # <<>> => top \in ToSet(file[f]))

\* A run that goes on behind a checkpoint skips only stocks that were processed (comment
\* in run: skip the stocks processed last time); here, that have a file.
SkippedWereTried ==
  [][FetchList => \A c \in Codes \ ToSet(run'.togo) : file[<<Head(run.jobs), c>>] # <<>>]_vars
-----------------------------------------------------------------------------
(* What the properties rest on *)

\* The numbers from a bar on, one after the other.
Numbered(bars, last) == \A i \in DOMAIN bars : bars[i] = last + i

\* The bars behind this one stand together in their order.
Together(bars, last) ==
  \E a \in 0..Len(bars) : \E b \in a..Len(bars) :
    \A i \in DOMAIN bars :
      IF a < i /\ i <= b THEN bars[i] = last + (i - a) ELSE bars[i] <= last

\* The file of the stock in progress is a .day file, and what is new fits into a page.
Fits == format = "tdx" /\ top <= End(This) + Page

\* Of what is downloaded, the new bars stand together (they come with the first page);
\* what is about to be written continues the file.
DownloadInOrder ==
  /\ run.at = "pages" => \/ run.offset = 0 /\ run.bars = <<>>
                         \/ run.offset >= Page /\ (Fits => Together(run.bars, End(This)))
  /\ run.at = "write" => run.offset = 0 /\ (Fits => Numbered(run.bars, End(This)))
  /\ run.at \notin {"pages", "write"} => run.offset = 0 /\ run.bars = <<>>

\* The inductive invariant.
OrderInv == TypeOK /\ DownloadInOrder
=============================================================================
