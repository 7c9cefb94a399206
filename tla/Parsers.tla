-------------------------------- MODULE Parsers --------------------------------
(* The parsers of protocol/parsers.rs over the reading of fields in Wire, and what the *)
(* servers write for each of them.                                                     *)
EXTENDS Wire

-----------------------------------------------------------------------------
(* K-lines: open is relative to the close before, the other prices to open *)

MutBaseBefore(rows, i) == Total(LAMBDA j : rows[j][2], i - 1)
BaseBefore(rows, i) == Total(LAMBDA j : rows[j][2] + rows[j][3], i - 1)

BarOf(category, rows, i) ==
  LET r == rows[i]
      open == BaseBefore(rows, i) + r[2]
  IN [at |-> GetDatetime(category, r[1]), open |-> open, close |-> open + r[3],
      high |-> open + r[4], low |-> open + r[5], vol |-> r[6], amount |-> r[7]]

BarLayout == <<4, V, V, V, V, 4, 4>>
IndexBarLayout == BarLayout \o <<2, 2>>
BarDateOk(category, r) == ValidDate(GetDatetime(category, r.values[1]).date)

ParseSecurityBars(body, category) ==
  LET rows == Values(While(Records(body, ReadInt(body, 0, 2), 2, 16, BarLayout), LAMBDA r : BarDateOk(category, r)))
  IN Parsed(body, 2, [i \in DOMAIN rows |-> BarOf(category, rows, i)])

ParseIndexBars(body, category) ==
  LET rows == Values(While(Records(body, ReadInt(body, 0, 2), 2, 24, IndexBarLayout),
                           LAMBDA r : BarDateOk(category, r)))
  IN Parsed(body, 2, [i \in DOMAIN rows |->
       [bar |-> BarOf(category, rows, i), up |-> rows[i][8], down |-> rows[i][9]]])

-----------------------------------------------------------------------------
(* Minutes: each price relative to the one before; newest first *)

\* The average price is the amount over the volume so far.
MinuteOf(rows, i) ==
  LET price(j) == Total(LAMBDA k : rows[k][1], j)
      vol == Total(LAMBDA j : rows[j][3], i)
  IN [time |-> MinuteTimeFromIndex(i - 1), price |-> price(i), vol |-> rows[i][3],
      average |-> IF vol > 0 THEN <<Total(LAMBDA j : price(j) * rows[j][3], i), vol>>
                  ELSE <<price(i), 1>>]

MinuteLayout == <<V, V, V>>

Minutes(rows) == Reverse([i \in DOMAIN rows |-> MinuteOf(rows, i)])

ParseMinuteTimeData(body) ==
  Parsed(body, 14, Minutes(Values(Records(body, ReadInt(body, 0, 2), 13, 3, MinuteLayout))))

\* No count: to the end of the body.
ParseHistoryMinuteTimeData(body) ==
  Parsed(body, 0, Minutes(Values(Records(body, Len(body), 6, 1, MinuteLayout))))

-----------------------------------------------------------------------------
(* Transactions *)

\* fields after the time: price, vol, and the unsigned rest: num, buyorsell and reserved, of
\* a former day buyorsell and reserved.
TickOf(rows, i) ==
  [minutes |-> rows[i][1], price |-> Total(LAMBDA j : rows[j][2], i), vol |-> rows[i][3],
   rest |-> [j \in 1..(Len(rows[i]) - 3) |-> AsU32(rows[i][j + 3])]]

TickLayout == <<2, V, V, V, V, V>>
FormerTickLayout == <<2, V, V, V, V>>

ParseTransactionData(body) ==
  LET rows == Values(Records(body, ReadInt(body, 0, 2), 2, 6, TickLayout))
  IN Parsed(body, 2, [i \in DOMAIN rows |-> TickOf(rows, i)])

ParseHistoryTransactionData(body) ==
  LET rows == Values(Records(body, ReadInt(body, 0, 2), 6, 6, FormerTickLayout))
  IN Parsed(body, 6, [i \in DOMAIN rows |-> TickOf(rows, i)])

-----------------------------------------------------------------------------
(* Quotes *)

QuoteLayout == <<1, 6, 2>> \o Times(9, V) \o <<4>> \o Times(24, V) \o <<2>> \o Times(4, V) \o <<2, 2>>

\* Prices are relative to the first one; of the five levels, each has bid, ask and their
\* volumes.  What is not understood is kept unsigned, the last of it read as signed.
QuoteOf(r) ==
  LET level(i) == 17 + 4 * i
  IN [market |-> r[1], code |-> r[2], active1 |-> r[3], price |-> r[4],
      last_close |-> r[4] + r[5], open |-> r[4] + r[6], high |-> r[4] + r[7], low |-> r[4] + r[8],
      servertime |-> FormatServertime(r[9]), vol |-> r[11], cur_vol |-> r[12], amount |-> r[13],
      s_vol |-> r[14], b_vol |-> r[15],
      bids |-> [i \in 1..5 |-> <<r[4] + r[level(i) - 3], r[level(i) - 1]>>],
      asks |-> [i \in 1..5 |-> <<r[4] + r[level(i) - 2], r[level(i)]>>],
      reversed |-> [i \in 1..10 |->
        AsU32((<<r[9], r[10], r[16], r[17]>> \o SubSeq(r, 38, 42) \o <<AsI16(r[43])>>)[i])],
      active2 |-> r[44]]

\* The last two bytes but two are checked; a record that lacks them is dropped.
ParseSecurityQuotes(body) ==
  LET rows == Values(While(Records(body, ReadInt(body, 2, 2), 4, 56, QuoteLayout), LAMBDA r : r.pos - 2 <= Len(body)))
  IN Parsed(body, 4, [i \in DOMAIN rows |-> QuoteOf(rows[i])])

\* Of each requested (market, code) the first record is kept.
FilterQuotesByRequest(requested, records) ==
  LET key(i) == <<records[i].market, records[i].code>>
      kept(i) == key(i) \in requested /\ \A j \in 1..(i - 1) : key(j) # key(i)
  IN FlattenSeq([i \in DOMAIN records |-> IF kept(i) THEN <<records[i]>> ELSE <<>>])

-----------------------------------------------------------------------------
(* Fixed records *)

ListLayout == <<6, 2, 8, 4, 1, 4, 4>>

ParseSecurityList(body) ==
  LET rows == Values(Records(body, ReadInt(body, 0, 2), 2, 29, ListLayout))
  IN Parsed(body, 2, [i \in DOMAIN rows |->
       [code |-> rows[i][1], volunit |-> rows[i][2], name |-> rows[i][3],
        decimal_point |-> rows[i][5], pre_close |-> rows[i][6]]])

ParseSecurityCount(body) == Parsed(body, 2, ReadInt(body, 0, 2))

\* Which of the last four numbers an event has, by its category.
XdxrFields(category, d) ==
  CASE category = 1          -> [fenhong |-> d[1], peigujia |-> d[2], songzhuangu |-> d[3], peigu |-> d[4]]
    [] category \in {11, 12} -> [suogu |-> d[3]]
    [] category \in {13, 14} -> [xingquanjia |-> d[1], fenshu |-> d[3]]
    [] OTHER                 -> [panqianliutong |-> d[1], qianzongguben |-> d[2],
                                 panhouliutong |-> d[3], houzongguben |-> d[4]]

XdxrLayout == <<8, 4, 1, 4, 4, 4, 4>>

ParseXdxrInfo(body) ==
  LET rows == Values(Records(body, ReadInt(body, 9, 2), 11, 29, XdxrLayout))
  IN Parsed(body, 11, [i \in DOMAIN rows |->
       [date |-> GetDatetime(9, rows[i][2]).date, category |-> rows[i][3],
        fields |-> XdxrFields(rows[i][3], SubSeq(rows[i], 4, 7))]])

\* liutongguben, province, industry, updated_date, ipo_date and 29 of 30 floats.
FinanceLayout == <<4, 2, 2, 4, 4>> \o Times(30, 4)
ParseFinanceInfo(body) == Parsed(body, 145, SubSeq(Fields(body, 9, FinanceLayout).values, 1, 34))

ParseBlockInfoMeta(body) ==
  Parsed(body, 38, [size |-> ReadInt(body, 0, 4), hash |-> SubSeq(body, 6, 37)])

ParseBlockInfo(body) == IF Len(body) > 4 THEN SubSeq(body, 5, Len(body)) ELSE <<>>

=============================================================================
