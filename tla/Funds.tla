---------------------------------- MODULE Funds --------------------------------
(* The fund client's list of funds (fund/client.rs), gathered page by page from the    *)
(* list of securities of a market.                                                     *)
EXTENDS Codes, FiniteSets

CONSTANT Page \* securities of a page

\* Codes as strings: digit by digit.
After(a, b) == \E i \in 1..6 : a[i] > b[i] /\ \A j \in 1..(i - 1) : a[j] = b[j]

LastFund(market) == IF market = SH THEN <<5, 1, 9, 9, 9, 9>> ELSE <<1, 6, 9, 9, 9, 9>>

Upto(list, n) == SubSeq(list, 1, IF n < Len(list) THEN n ELSE Len(list))
PageOf(list, k) == LET upto == Upto(list, (k + 1) * Page) IN SubSeq(upto, k * Page + 1, Len(upto))

FundsOf(market, codes) ==
  FlattenSeq([i \in DOMAIN codes |->
    IF IsFund(market, codes[i]) THEN <<[code |-> codes[i], fund_type |-> ClassifyFund(market, codes[i])]>> ELSE <<>>])

\* get_fund_list: the pages up to total, ended by an empty one, and by one whose last code
\* lies beyond the funds once there are any.
MutFundList(market, list, total) ==
  LET page(k) == PageOf(list, k)
      last(k) == page(k)[Len(page(k))]
      ends(k) == page(k) = <<>> \/ (~IsFund(market, last(k)) /\ After(last(k), LastFund(market)))
      read == {k \in 0..(total \div Page) : k * Page < total /\ \A j \in 0..(k - 1) : ~ends(j)}
  IN FlattenSeq([i \in 1..Cardinality(read) |-> FundsOf(market, page(i - 1))])

FundList(market, list, total) ==
  LET page(k) == PageOf(list, k)
      found(k) == FundsOf(market, Upto(list, (k + 1) * Page)) # <<>>
      last(k) == page(k)[Len(page(k))]
      ends(k) == page(k) = <<>> \/ (~IsFund(market, last(k)) /\ After(last(k), LastFund(market)) /\ found(k))
      read == {k \in 0..(total \div Page) : k * Page < total /\ \A j \in 0..(k - 1) : ~ends(j)}
  IN FlattenSeq([i \in 1..Cardinality(read) |-> FundsOf(market, page(i - 1))])

-----------------------------------------------------------------------------
(* Properties *)

\* Every fund of the market is listed once, in the order of the server and with its class,
\* if the funds stand together in the server's list, wherever that is, and the count is no
\* less than the list is long.
FundListWhole(market, list, total) ==
  LET at == {i \in DOMAIN list : IsFund(market, list[i])}
      together == \A i, j \in at : \A k \in i..j : k \in at
  IN together /\ total >= Len(list) => FundList(market, list, total) = FundsOf(market, list)

\* So it is wherever they stand.
FundListAlwaysWhole(market, list) == FundList(market, list, Len(list)) = FundsOf(market, list)
=============================================================================
