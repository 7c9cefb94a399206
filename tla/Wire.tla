---------------------------------- MODULE Wire ---------------------------------
(* The bodies of server responses and what the parsers read from them                  *)
(* (protocol/parsers.rs, helpers.rs, constants.rs).                                    *)
(*                                                                                     *)
(* A body is a sequence of bytes; positions count from 0.  A layout lists the fields   *)
(* of a record: n bytes, or V for a variable-length integer.  Names and codes are      *)
(* numbers, prices are in units of the coefficient, floats are their raw bits.         *)
EXTENDS Integers, Sequences, SequencesExt

CONSTANT MaxValidYear

V == 0
Times(n, field) == [i \in 1..n |-> field]
Upto(n) == [i \in 1..n |-> i]
Total(f(_), n) == FoldLeft(LAMBDA acc, i : acc + f(i), 0, Upto(n))

-----------------------------------------------------------------------------
(* Integers *)

\* read_u16, read_u32: little-endian, 0 outside the body.
ReadInt(body, pos, n) ==
  IF pos + n > Len(body) THEN 0
  ELSE FoldLeft(LAMBDA acc, i : acc * 256 + body[pos + n + 1 - i], 0, Upto(n))

\* The integer of the bytes from pos to last: sign and six bits, then seven bits each.
PriceAt(body, pos, last) ==
  LET more == FoldLeft(LAMBDA acc, i : acc * 128 + (body[last + 2 - i] % 128), 0, Upto(last - pos))
      sign == IF (body[pos + 1] \div 64) % 2 = 1 THEN -1 ELSE 1
  IN [value |-> sign * ((body[pos + 1] % 64) + 64 * more), next |-> last + 1]

\* Ends at the first byte without continuation bit, at most ten bytes on.
GetPrice(body, pos) ==
  LET ends == {p \in pos..(pos + 9) : p < Len(body) /\ body[p + 1] < 128}
  IN IF ends = {} THEN [value |-> 0, next |-> Len(body)] ELSE PriceAt(body, pos, Min(ends))

\* A volume of raw bytes log, high, mid, low, in units of 2^(2 * log - 150).
GetVolume(log, high, mid, low) ==
  IF <<log, high, mid, low>> = <<0, 0, 0, 0>> THEN 0
  ELSE LET step == IF high >= 128 THEN 2 ELSE 1
           top == IF high > 128 THEN 2^23 + (high % 128) * 2^17 ELSE high * 2^16
       IN 2^23 + top + step * mid * 2^8 + step * low

\* `as u32` and `as u64` of an i64 of less than 32 bits, and of an i16, in words of 16 bits,
\* the lowest first: the two's complement, which leaves no number negative.
AsU32(v) == <<v % 65536, (v \div 65536) % 65536>>
AsU64(v) == AsU32(v) \o AsU32((v \div 65536) \div 65536)
AsI16(v) == IF v < 32768 THEN v ELSE v - 65536

\* Dates are packed into 16 bits or written in decimal.
Packed(day) == [year |-> day \div 2048 + 2004, month |-> (day % 2048) \div 100, day |-> (day % 2048) % 100]
Decimal(day) == [year |-> day \div 10000, month |-> (day % 10000) \div 100, day |-> day % 100]

DecodeDate(num) == IF num > 100000 THEN Decimal(num) ELSE Packed(num)

OfMinutes(category) == category < 4 \/ category \in {7, 8}

GetDatetime(category, raw) ==
  IF OfMinutes(category) THEN [date |-> Packed(raw % 65536), minutes |-> raw \div 65536]
  ELSE [date |-> Decimal(raw), minutes |-> 0]

ValidDate(d) == d.year \in 1980..MaxValidYear /\ d.month \in 1..12 /\ d.day \in 1..31

\* hour, minute and 1/10000 of a minute, else the number itself; seconds in 1/10000.
FormatServertime(ts) ==
  LET rest == ts % 1000000
  IN IF ts \notin 1000000..99999999 THEN AsU64(ts)
     ELSE IF rest \div 10000 < 60
            THEN <<ts \div 1000000, rest \div 10000, (rest % 10000) * 60>>
            ELSE <<ts \div 1000000, (rest * 60) \div 1000000, ((rest * 60 % 1000000) * 60) \div 100>>

MinuteTimeFromIndex(i) == IF i < 120 THEN 9 * 60 + 31 + i ELSE 13 * 60 + 1 + i - 120

-----------------------------------------------------------------------------
(* Records *)

Fields(body, pos, layout) ==
  FoldLeft(LAMBDA st, field :
             IF field = V
               THEN [pos |-> GetPrice(body, st.pos).next, values |-> Append(st.values, GetPrice(body, st.pos).value)]
               ELSE [pos |-> st.pos + field, values |-> Append(st.values, ReadInt(body, st.pos, field))],
           [pos |-> pos, values |-> <<>>], layout)

Added(st, r) == [pos |-> r.pos, out |-> Append(st.out, r)]

\* The fields of up to count records from pos on, each with the position behind it: until
\* fewer than guard bytes are left.
Records(body, count, pos, guard, layout) ==
  FoldLeft(LAMBDA st, i :
             IF st.pos + guard > Len(body) THEN st ELSE Added(st, Fields(body, st.pos, layout)),
           [pos |-> pos, out |-> <<>>], Upto(count)).out

\* A parser ends with the first record it does not accept.
While(records, Accepted(_)) ==
  LET first == SelectInSeq(records, LAMBDA r : ~Accepted(r))
  IN IF first = 0 THEN records ELSE SubSeq(records, 1, first - 1)

Values(records) == [i \in DOMAIN records |-> records[i].values]

\* A body shorter than least is refused (RESPONSE_LENGTH_MISMATCH).
Parsed(body, least, result) ==
  IF Len(body) < least THEN [ok |-> FALSE, records |-> <<>>] ELSE [ok |-> TRUE, records |-> result]

=============================================================================
