---------------------------------- MODULE Files --------------------------------
(* The local files: daily and minute bars, financial reports and block files           *)
(* (reader/), and the queries over the records of a block file (block/query.rs).       *)
(* A file is a sequence of bytes; names and codes are numbers, floats are raw bits.    *)
EXTENDS Responses

CONSTANTS
  HeaderSize, \* HEADER_SIZE of a block file
  NameSize,   \* bytes of a block's name
  CodeSize,   \* CODE_SIZE
  BlockArea,  \* BLOCK_STOCK_AREA
  MaxKeyword, \* MAX_SEARCH_LEN
  MaxResults  \* MAX_RESULTS

Refused == [ok |-> FALSE, records |-> <<>>]
Read(records) == [ok |-> TRUE, records |-> records]

-----------------------------------------------------------------------------
(* Bars: records of 32 bytes; a file that is no multiple of it is refused *)

RecordSize == 32

BarRecords(data, layout) == Values(Records(data, Len(data) \div RecordSize, 0, RecordSize, layout))

ParseDailyBar(data) ==
  LET rows == BarRecords(data, Times(8, 4))
  IN IF Len(data) % RecordSize # 0 THEN Refused
     ELSE Read([i \in DOMAIN rows |->
            [date |-> DecodeDate(rows[i][1]), prices |-> SubSeq(rows[i], 2, 5),
             amount |-> rows[i][6], volume |-> rows[i][7]]])

\* The prices of the two minute formats are hundredths, or floats taken as they are.
MinuteBars(data, prices) ==
  LET rows == BarRecords(data, <<2, 2>> \o Times(7, 4))
  IN IF Len(data) % RecordSize # 0 THEN Refused
     ELSE Read([i \in DOMAIN rows |->
            [date |-> Packed(rows[i][1]), minutes |-> rows[i][2], unit |-> prices,
             prices |-> SubSeq(rows[i], 3, 6), amount |-> rows[i][7], volume |-> rows[i][8]]])

ParseMinBar(data) == MinuteBars(data, "hundredths")
ParseLcMinBar(data) == MinuteBars(data, "floats")

-----------------------------------------------------------------------------
(* Financial reports: an index of codes and offsets, floats behind the offsets *)

\* The index may be cut off; a record that is not wholly in the file is left out.
ParseFinancial(data) ==
  LET fields == ReadInt(data, 12, 4) \div 4
      item(i) == 20 + (i - 1) * 11
      offset(i) == ReadInt(data, item(i) + 7, 4)
      listed == SelectSeq(Upto(ReadInt(data, 6, 2)), LAMBDA i : item(i) + 11 <= Len(data))
      there == SelectSeq(listed, LAMBDA i : offset(i) + fields * 4 <= Len(data))
  IN IF Len(data) < 20 THEN Refused
     ELSE Read([i \in DOMAIN there |->
            [code |-> ReadInt(data, item(there[i]), 6), report_date |-> ReadInt(data, 2, 4),
             fields |-> [k \in 1..fields |-> ReadInt(data, offset(there[i]) + (k - 1) * 4, 4)]]])

\* extract_indicators: names maps an indicator to its place, 0 if there is no such field.
ExtractIndicators(fields, names) ==
  [name \in DOMAIN names |-> IF names[name] <= Len(fields) THEN fields[names[name]] ELSE 0]

\* get_finance_indicators: of the first report of the code.
GetFinanceIndicators(data, code, names) ==
  LET reports == ParseFinancial(data).records
      at == {i \in DOMAIN reports : reports[i].code = code}
  IN IF at = {} THEN Refused
     ELSE Read(ExtractIndicators(reports[CHOOSE i \in at : \A j \in at : i <= j].fields, names))

-----------------------------------------------------------------------------
(* Block files: every block has an area of the same size *)

BlockPos(i) == HeaderSize + 2 + (i - 1) * (NameSize + 4 + BlockArea)
CodesPos(i) == BlockPos(i) + NameSize + 4
StockCount(data, i) == ReadInt(data, BlockPos(i) + NameSize, 2)
IsStocks(data, i) == ReadInt(data, BlockPos(i) + NameSize + 2, 2) = 2

\* Header and codes of a block are in the file; those of other kinds are skipped.
Intact(data, i) ==
  /\ CodesPos(i) <= Len(data)
  /\ IsStocks(data, i) => CodesPos(i) + StockCount(data, i) * CodeSize <= Len(data)

Stocks(data, i) ==
  [k \in 1..StockCount(data, i) |-> ReadInt(data, CodesPos(i) + (k - 1) * CodeSize, CodeSize)]

ParseBlockGroup(data) ==
  LET blocks == Upto(ReadInt(data, HeaderSize, 2))
      picked == SelectSeq(blocks, LAMBDA i : IsStocks(data, i))
  IN IF Len(data) < HeaderSize + 2 \/ \E i \in DOMAIN blocks : ~Intact(data, i) THEN Refused
     ELSE Read([j \in DOMAIN picked |->
            [blockname |-> ReadInt(data, BlockPos(picked[j]), NameSize),
             stock_count |-> StockCount(data, picked[j]), code_list |-> Stocks(data, picked[j])]])

\* A record per code.
ParseBlock(data) ==
  LET groups == ParseBlockGroup(data).records
  IN IF ~ParseBlockGroup(data).ok THEN Refused
     ELSE Read(FlattenSeq([j \in DOMAIN groups |-> [k \in DOMAIN groups[j].code_list |->
            [blockname |-> groups[j].blockname, code_index |-> k - 1, code |-> groups[j].code_list[k]]]]))

-----------------------------------------------------------------------------
(* Queries *)

CodesOf(name, records) ==
  LET of == SelectSeq(records, LAMBDA r : r.blockname = name)
  IN [i \in DOMAIN of |-> of[i].code]

\* Names in the order they first occur, with the number of their records.
ListBlocks(records) ==
  LET firsts == SelectSeq(Upto(Len(records)),
                          LAMBDA i : \A j \in 1..(i - 1) : records[j].blockname # records[i].blockname)
  IN [i \in DOMAIN firsts |->
        [name |-> records[firsts[i]].blockname, stock_count |-> Len(CodesOf(records[firsts[i]].blockname, records))]]

\* keyword is its number of bytes and the names that contain it.
SearchBlocks(keyword, records) ==
  LET found == SelectSeq(ListBlocks(records), LAMBDA b : b.name \in keyword.matches)
  IN IF keyword.bytes \notin 1..MaxKeyword THEN Refused
     ELSE Read(SubSeq(found, 1, IF Len(found) < MaxResults THEN Len(found) ELSE MaxResults))

GetBlockConstituents(name, records) ==
  IF CodesOf(name, records) = <<>> THEN Refused ELSE Read(CodesOf(name, records))

\* names: index_code_to_name.
GetIndexConstituents(code, names, records) ==
  IF code \in DOMAIN names THEN GetBlockConstituents(names[code], records) ELSE Refused

-----------------------------------------------------------------------------
(* What is in the files *)

\* A block is [name, type, codes].
EncBlocks(blocks) ==
  LET area(b) == FlattenSeq([k \in DOMAIN b.codes |-> EncInt(CodeSize, b.codes[k])])
  IN Zeros(HeaderSize) \o EncInt(2, Len(blocks)) \o
     FlattenSeq([i \in DOMAIN blocks |->
       EncInt(NameSize, blocks[i].name) \o EncInt(2, Len(blocks[i].codes)) \o EncInt(2, blocks[i].type)
       \o area(blocks[i]) \o Zeros(BlockArea - Len(area(blocks[i])))])

EncDaily(days) ==
  FlattenSeq([i \in DOMAIN days |->
    EncFields(Times(8, 4), <<EncDatetime(9, [date |-> days[i].date])>> \o days[i].prices \o <<days[i].amount, days[i].volume, 0>>)])

\* prices as they are stored: hundredths or floats.
EncMinutes(bars) ==
  FlattenSeq([i \in DOMAIN bars |->
    EncFields(<<2, 2>> \o Times(7, 4),
              <<EncDatetime(0, [date |-> bars[i].date, minutes |-> 0]), bars[i].minutes>> \o bars[i].prices
              \o <<bars[i].amount, bars[i].volume, 0>>)])

EncFinancial(date, reports) ==
  LET n == Len(reports)
      fields == IF n = 0 THEN 0 ELSE Len(reports[1].fields)
  IN EncInt(2, 1) \o EncInt(4, date) \o EncInt(2, n) \o Zeros(4) \o EncInt(4, 4 * fields) \o Zeros(4)
     \o FlattenSeq([i \in 1..n |-> EncInt(6, reports[i].code) \o Zeros(1) \o EncInt(4, 20 + 11 * n + (i - 1) * 4 * fields)])
     \o FlattenSeq([i \in 1..n |-> FlattenSeq([k \in 1..fields |-> EncInt(4, reports[i].fields[k])])])

-----------------------------------------------------------------------------
(* Properties *)

StockBlocks(blocks) == SelectSeq(blocks, LAMBDA b : b.type = 2)

\* A block file gives the codes of all its stock blocks; one whose end was cut off gives
\* the same or is refused.  The names and counts that the queries list add up to its records,
\* a search finds what matches up to its limit, and an index gives the codes of its block.
BlocksRead(got, blocks, cut, keyword, names) ==
  LET picked == StockBlocks(blocks)
      listed == ListBlocks(got.records)
      found == SearchBlocks(keyword, got.records)
      matching == {i \in DOMAIN listed : listed[i].name \in keyword.matches}
      codesOf(name) == FlattenSeq([j \in DOMAIN picked |-> IF picked[j].name = name THEN picked[j].codes ELSE <<>>])
  IN got.ok \/ cut = 0 =>
       /\ got.ok
       /\ [i \in DOMAIN got.records |-> got.records[i].code] = FlattenSeq([j \in DOMAIN picked |-> picked[j].codes])
       /\ Total(LAMBDA i : listed[i].stock_count, Len(listed)) = Len(got.records)
       /\ \A i \in DOMAIN listed :
            Len(GetBlockConstituents(listed[i].name, got.records).records) = listed[i].stock_count
       /\ found.ok => /\ ToSet(found.records) \subseteq {listed[i] : i \in matching}
                      /\ Len(found.records) = Cardinality(matching) \/ Len(found.records) = MaxResults
       /\ \A code \in DOMAIN names :
            LET of == GetIndexConstituents(code, names, got.records)
            IN of.records = codesOf(names[code]) /\ (of.ok <=> codesOf(names[code]) # <<>>)

BlocksWholeOrRefused(blocks, cut, keyword, names) ==
  BlocksRead(ParseBlock(Without0(cut, EncBlocks(blocks))), blocks, cut, keyword, names)

\* A file of bars, daily or of minutes in either format, gives its bars; one whose end was
\* cut off gives those that are whole or is refused.
BarsWholeOrRefused(parsed, bars, cut) ==
  parsed.ok \/ cut = 0 => parsed.ok /\ parsed.records = SubSeq(bars, 1, Len(bars) - cut \div RecordSize)

DailyWholeOrRefused(days, cut) == BarsWholeOrRefused(ParseDailyBar(Without0(cut, EncDaily(days))), days, cut)
MinutesWholeOrRefused(bars, cut) ==
  LET file == Without0(cut, EncMinutes(bars))
      in(unit) == [i \in DOMAIN bars |-> [bars[i] EXCEPT !.unit = unit]]
  IN /\ BarsWholeOrRefused(ParseMinBar(file), in("hundredths"), cut)
     /\ BarsWholeOrRefused(ParseLcMinBar(file), in("floats"), cut)

\* A report file whose end was cut off gives some of the reports, each whole; so are the
\* indicators of a code, those of its first report that is there.
ReportsWhole(date, reports, cut, names) ==
  LET file == Without0(cut, EncFinancial(date, reports))
      got == ParseFinancial(file)
      whole == {[code |-> reports[i].code, report_date |-> date, fields |-> reports[i].fields] : i \in DOMAIN reports}
  IN /\ ToSet(got.records) \subseteq whole
     /\ cut = 0 => Len(got.records) = Len(reports)
     /\ \A i \in DOMAIN reports :
          LET found == GetFinanceIndicators(file, reports[i].code, names)
          IN /\ cut = 0 => found.ok
             /\ found.ok => \E r \in whole :
                  r.code = reports[i].code /\ \A name \in DOMAIN names :
                    found.records[name] = IF names[name] \in DOMAIN r.fields THEN r.fields[names[name]] ELSE 0
=============================================================================
