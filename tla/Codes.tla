---------------------------------- MODULE Codes --------------------------------
(* Security codes: how they are checked, encoded and classified (net/utils.rs,         *)
(* error_codes.rs, protocol/types.rs, fund/constants.rs, fund/utils.rs).               *)
(*                                                                                     *)
(* A code is a sequence of bytes: digits 0 to 9, Letter, or Other, not of ASCII.       *)
EXTENDS Integers, Sequences, SequencesExt

Letter == 10
Other  == 11
Nul    == 12
SZ == 0
SH == 1

Starts(code, prefixes) == \E p \in prefixes : IsPrefix(p, code)

-----------------------------------------------------------------------------
(* Checks and encodings *)

\* code_bytes: cut off or filled up to six bytes.
CodeBytes(code) == [i \in 1..6 |-> IF i <= Len(code) THEN code[i] ELSE Nul]

Strict(code) == Len(code) = 6 /\ \A i \in DOMAIN code : code[i] \in 0..Letter

ClassifyCode(code) ==
  IF Len(code) # 6 \/ Other \in ToSet(code) THEN "unknown"
  ELSE CASE Starts(code, {<<8, 8>>})                                             -> "block"
         [] Starts(code, {<<0, 0>>, <<3, 0>>, <<6, 0>>, <<6, 8>>})               -> "stock"
         [] Starts(code, {<<1, 0>>, <<1, 1>>, <<1, 2>>, <<1, 3>>, <<1, 4>>})     -> "bond"
         [] Starts(code, {<<5, n>> : n \in {0, 1, 2, 5, 6, 8}})                  -> "fund"
         [] OTHER                                                                -> "unknown"

IsBlockCode(code) == ClassifyCode(code) = "block"

\* auto_market (F10 and profiles): the market, or a refusal.
NoMarket == 2
AutoMarket(code) ==
  IF Len(code) # 6 THEN NoMarket
  ELSE CASE code[1] = 6 -> SH [] code[1] \in {0, 3} -> SZ [] OTHER -> NoMarket

-----------------------------------------------------------------------------
(* Kinds of securities and their prices *)

\* get_security_type: 0 index, 1 A share, 2 B share, 3 listed fund, 4 bond, 5 open fund.
SecurityType(market, code) ==
  CASE market = SH ->
         CASE Starts(code, {<<6, 0>>, <<6, 8>>})         -> 1
           [] Starts(code, {<<9, 0>>})                   -> 2
           [] Starts(code, {<<5, 1, 9>>})                -> 5
           [] Starts(code, {<<5, 0>>, <<5, 1>>, <<5, 8>>}) /\ ~Starts(code, {<<5, 1, 9>>}) -> 3
           [] Starts(code, {<<1, 1>>, <<1, 3>>})         -> 4
           [] Starts(code, {<<0, 0, 0>>})                -> 0
           [] OTHER                                      -> 1
    [] market = SZ ->
         CASE Starts(code, {<<3, 9>>})                   -> 0
           [] Starts(code, {<<0, 0>>, <<3, 0>>})         -> 1
           [] Starts(code, {<<2, 0>>})                   -> 2
           [] Starts(code, {<<1, 5>>, <<1, 6>>})         -> 3
           [] Starts(code, {<<1, 0>>, <<1, 2>>, <<1, 3>>}) -> 4
           [] OTHER                                      -> 1
    [] OTHER -> 1

\* get_security_coefficient: decimals of a price.
Decimals(market, code) == <<2, 2, 3, 3, 4, 5>>[SecurityType(market, code) + 1]

IsFund(market, code) ==
  \/ market = SH /\ Starts(code, {<<5, 0>>, <<5, 1>>})
  \/ market = SZ /\ Starts(code, {<<1, 5>>, <<1, 6>>})

ClassifyFund(market, code) ==
  CASE Starts(code, {<<5, 0, 8>>})                                            -> "reits"
    [] Starts(code, {<<5, 1, n>> : n \in {0, 2, 3, 5, 6, 7, 8}} \cup {<<5, 0, 6>>}) -> "etf"
    [] Starts(code, {<<5, 1, 1>>})                                            -> "bond"
    [] Starts(code, {<<5, 0, 1>>, <<5, 0, 2>>})                               -> "lof"
    [] Starts(code, {<<5, 1, 9>>})                                            -> "openend"
    [] market = SZ /\ Starts(code, {<<1, 5, 9>>})                             -> "etf"
    [] market = SZ /\ Starts(code, {<<1, 6, 0>>, <<1, 6, 1>>})                -> "lof"
    [] market = SZ /\ Starts(code, {<<1, 6, n>> : n \in 2..4})                -> "structured"
    [] OTHER                                                                  -> "other"

AutoMarketCode(code) == IF code # <<>> /\ code[1] \in {5, 6, 9} THEN SH ELSE SZ

-----------------------------------------------------------------------------
(* Properties *)

\* What the fund clients accept as a fund is priced as one, with the decimals of its
\* class, is found in the market its code is looked up in, and is no block.
FundsArePriced(market, code) ==
  IsFund(market, code) =>
    /\ SecurityType(market, code) = IF ClassifyFund(market, code) = "openend" THEN 5 ELSE 3
    /\ AutoMarketCode(code) = market
    /\ ClassifyCode(code) \notin {"block", "stock"}

\* Every code that classify_code calls a fund is priced as one.
AllFundsArePriced(market, code) ==
  market = AutoMarketCode(code) /\ ClassifyCode(code) = "fund" => SecurityType(market, code) \in {3, 5}
=============================================================================
