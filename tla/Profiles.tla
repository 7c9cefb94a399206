-------------------------------- MODULE Profiles -------------------------------
(* Company texts: their categories and contents as the F10 client (net/f10_client.rs)  *)
(* and the profile client (profile/client.rs, profile/parser.rs) fetch them, and the   *)
(* fields read out of a text (profile/parser_f10.rs).  Texts and file names are        *)
(* sequences of bytes; codes are as in Codes.                                          *)
EXTENDS Codes, Responses

CONSTANTS
  NameBytes, \* CATEGORY_NAME_SIZE
  FileBytes, \* CATEGORY_FILENAME_SIZE
  MaxGap     \* tokens tolerated between a field's name and the bar behind it

None == [ok |-> FALSE, value |-> <<>>]
Some(value) == [ok |-> TRUE, value |-> value]

-----------------------------------------------------------------------------
(* The responses *)

EntrySize == NameBytes + FileBytes + 8
ContentHeaderSize == 12

Trim(bytes) == SubSeq(bytes, 1, CHOOSE n \in 0..Len(bytes) :
  (n = 0 \/ bytes[n] # 0) /\ \A i \in (n + 1)..Len(bytes) : bytes[i] = 0)

\* parse_company_info_category: the bytes of the file's name are kept as they are.
ParseCategories(data) ==
  LET count == ReadInt(data, 0, 2)
      entry(i) == 2 + (i - 1) * EntrySize
  IN IF Len(data) < 2 \/ Len(data) < 2 + count * EntrySize THEN None
     ELSE Some([i \in 1..count |->
            [name   |-> Trim(SubSeq(data, entry(i) + 1, entry(i) + NameBytes)),
             file   |-> Trim(SubSeq(data, entry(i) + NameBytes + 1, entry(i) + NameBytes + FileBytes)),
             start  |-> ReadInt(data, entry(i) + NameBytes + FileBytes, 4),
             length |-> ReadInt(data, entry(i) + NameBytes + FileBytes + 4, 4)]])

\* parse_company_info_content: trailing zeros are cut off.
ParseContent(data) ==
  LET length == ReadInt(data, 10, 2)
  IN IF Len(data) < ContentHeaderSize \/ Len(data) < ContentHeaderSize + length THEN None
     ELSE Some(Trim(SubSeq(data, ContentHeaderSize + 1, ContentHeaderSize + length)))

Padded(bytes, n) == [i \in 1..n |-> IF i <= Len(bytes) THEN bytes[i] ELSE 0]

-----------------------------------------------------------------------------
(* External: a company's categories [name, file, start, length] and its texts by file *)

EncCategories(categories) ==
  EncInt(2, Len(categories)) \o FlattenSeq([i \in DOMAIN categories |->
    LET c == categories[i]
    IN Padded(c.name, NameBytes) \o Padded(c.file, FileBytes) \o EncInt(4, c.start) \o EncInt(4, c.length)])

EncContent(text) == Zeros(10) \o EncInt(2, Len(text)) \o text

\* At most `most` bytes of the part asked for; no answer for the files of failing.
Reply(server, request) ==
  IF request.cmd = "category" THEN Some(EncCategories(server.categories))
  ELSE IF request.file \in server.failing \/ request.file \notin DOMAIN server.texts THEN None
  ELSE LET n == IF request.length < server.most THEN request.length ELSE server.most
       IN Some(EncContent(SubSeq(server.texts[request.file], request.start + 1, request.start + n)))

-----------------------------------------------------------------------------
(* The calls *)

Known(market, code) == market \in {SZ, SH} /\ Len(code) = 6

CategoryRequest(market, code) == [cmd |-> "category", market |-> market, code |-> code]
ContentRequest(market, code, c) ==
  [cmd |-> "content", market |-> market, code |-> code, file |-> Padded(c.file, FileBytes),
   start |-> c.start, length |-> c.length]

Answered(body, Parser(_)) == IF body.ok THEN Parser(body.value) ELSE None

F10Categories(server, market, code) ==
  IF Known(market, code) THEN Answered(Reply(server, CategoryRequest(market, code)), ParseCategories) ELSE None
ProfileCategories(server, market, code) == F10Categories(server, market, code)

\* A content is stored under the name of its category.
F10ContentOf(server, market, code, c) ==
  LET text == Answered(Reply(server, ContentRequest(market, code, c)), ParseContent)
  IN IF Known(market, code) /\ text.ok THEN Some([category |-> c.name, content |-> text.value]) ELSE None
ProfileContentOf(server, market, code, c) == F10ContentOf(server, market, code, c)

\* get_content_by_name: of the first category of that name.
ByName(categories, name, ContentOf(_)) ==
  LET at == {i \in DOMAIN categories.value : categories.value[i].name = name}
  IN IF categories.ok /\ at # {} THEN ContentOf(categories.value[CHOOSE i \in at : \A j \in at : i <= j]) ELSE None

F10ByName(server, market, code, name) ==
  ByName(F10Categories(server, market, code), name, LAMBDA c : F10ContentOf(server, market, code, c))
ProfileByName(server, market, code, name) ==
  ByName(ProfileCategories(server, market, code), name, LAMBDA c : ProfileContentOf(server, market, code, c))

\* get_all_contents, get_all_data: a category whose content fails is left out.
Succeeded(contents) ==
  LET got == SelectSeq(contents, LAMBDA c : c.ok) IN Some([i \in DOMAIN got |-> got[i].value])

F10All(server, market, code) ==
  LET categories == F10Categories(server, market, code)
  IN IF categories.ok
       THEN Succeeded([i \in DOMAIN categories.value |-> F10ContentOf(server, market, code, categories.value[i])])
       ELSE None
ProfileAll(server, market, code) ==
  LET categories == ProfileCategories(server, market, code)
  IN IF categories.ok
       THEN Succeeded([i \in DOMAIN categories.value |-> ProfileContentOf(server, market, code, categories.value[i])])
       ELSE None

-----------------------------------------------------------------------------
(* The fields of a text (F10TextParser): a sequence of words, bars, ends of line and  *)
(* headings <<number, title>>                                                         *)

Bar   == "|"
Eol   == "end of line"
Dash  == "---"
Blank == " "

Heading(number, title) == [number |-> number, title |-> title]
Word(w) == [word |-> w]
IsHeading(token) == "number" \in DOMAIN token

MinOf(S) == CHOOSE x \in S : \A y \in S : x <= y

\* split_sections: from each heading to the next; the last of one title counts.
Sections(text) ==
  LET heads == {i \in DOMAIN text : IsHeading(text[i])}
      end(i) == MinOf({j \in heads : j > i} \cup {Len(text) + 1}) - 1
      last(h) == CHOOSE i \in heads : text[i] = h /\ \A j \in heads : text[j] = h => j <= i
  IN [h \in {text[i] : i \in heads} |-> SubSeq(text, last(h) + 1, end(last(h)))]

Stripped(text) == SelectSeq(text, LAMBDA t : t # Word(Blank))

\* extract_table_field: what stands between the first two bars behind the first mention.
ExtractTableField(text, field) ==
  LET at == {i \in DOMAIN text : text[i] = Word(field)}
      bars == {i \in DOMAIN text : text[i] = Word(Bar) /\ i > MinOf(at) /\ i - MinOf(at) - 1 <= MaxGap}
      end == MinOf({i \in DOMAIN text : text[i] \in {Word(Bar), Word(Eol)} /\ i > MinOf(bars)} \cup {Len(text) + 1})
      value == Stripped(SubSeq(text, MinOf(bars) + 1, end - 1))
  IN IF at = {} \/ bars = {} \/ value \in {<<>>, <<Word(Dash)>>} THEN None ELSE Some(value)

\* parse_basic_info, parse_listing_info: fields maps what is shown to the names looked for;
\* the first that has a value counts.
Extracted(text, fields) ==
  LET has(d) == {k \in DOMAIN fields[d] : ExtractTableField(text, fields[d][k]).ok}
  IN [d \in {x \in DOMAIN fields : has(x) # {}} |-> ExtractTableField(text, fields[d][MinOf(has(d))]).value]

\* The results parse can have: the sections are visited in any order, and the first whose
\* number is 1 (2) that is met gives the basic (listing) information.
Parsings(text, basic, listing) ==
  LET sections == Sections(text)
      of(number) == {h \in DOMAIN sections : h.number = number}
      infos(number, fields) == IF of(number) = {} THEN {<<>>} ELSE {Extracted(sections[h], fields) : h \in of(number)}
  IN [basic_info : infos(1, basic), listing_info : infos(2, listing), sections : {sections}]

-----------------------------------------------------------------------------
(* Properties *)

ProfileClients == {"f10", "profile"}

Contents(client, server, code) ==
  IF client = "f10" THEN F10All(server, AutoMarket(code), code) ELSE ProfileAll(server, AutoMarket(code), code)
Named(client, server, code, name) ==
  IF client = "f10" THEN F10ByName(server, AutoMarket(code), code, name)
  ELSE ProfileByName(server, AutoMarket(code), code, name)

\* What stands in a category's part of its file.
TextOf(c, texts) == SubSeq(texts[Padded(c.file, FileBytes)], c.start + 1, c.start + c.length)

\* Every category whose content is not refused is returned under its name, in order, with
\* the part of the file that is its own; asked for by name, the first of that name.
ContentsWhole(client, code, categories, texts, failing, most) ==
  LET server == [categories |-> categories, texts |-> texts, failing |-> failing, most |-> most]
      there == SelectSeq(categories, LAMBDA c : Padded(c.file, FileBytes) \notin failing)
      got == Contents(client, server, code)
      firstOf(name) == CHOOSE i \in DOMAIN categories :
        categories[i].name = name /\ \A j \in 1..(i - 1) : categories[j].name # name
  IN IF AutoMarket(code) = NoMarket THEN ~got.ok
     ELSE /\ got.ok
          /\ got.value = [i \in DOMAIN there |-> [category |-> there[i].name, content |-> TextOf(there[i], texts)]]
          /\ \A i \in DOMAIN categories :
               LET c == categories[firstOf(categories[i].name)]
                   one == Named(client, server, code, c.name)
               IN IF Padded(c.file, FileBytes) \in failing THEN ~one.ok
                  ELSE one.ok /\ one.value = [category |-> c.name, content |-> TextOf(c, texts)]

\* A text of tables: the values of rows [field, value], where value may be empty or a dash.
RowText(rows, gap) ==
  FlattenSeq([i \in DOMAIN rows |->
    <<Word(Bar), Word(rows[i].field)>> \o Times(gap, Word(Blank)) \o <<Word(Bar)>> \o rows[i].value \o <<Word(Bar), Word(Eol)>>])

\* Of such a text under one heading 1 and one heading 2, every field that has a value gets
\* it: the value of the first row of the field, of the first of its names that has one.
FieldsRead(rows1, rows2, gap, basic, listing) ==
  LET text == <<Heading(1, "basic")>> \o RowText(rows1, gap) \o <<Heading(2, "listing")>> \o RowText(rows2, gap)
      valueIn(rows, name) ==
        LET at == {i \in DOMAIN rows : rows[i].field = name}
        IN IF at = {} THEN <<>> ELSE rows[MinOf(at)].value
      has(rows, names) == {k \in DOMAIN names : valueIn(rows, names[k]) \notin {<<>>, <<Word(Dash)>>}}
      expected(rows, fields) ==
        [d \in {x \in DOMAIN fields : has(rows, fields[x]) # {}} |-> valueIn(rows, fields[d][MinOf(has(rows, fields[d]))])]
  IN gap <= MaxGap => \A p \in Parsings(text, basic, listing) :
       p.basic_info = expected(rows1, basic) /\ p.listing_info = expected(rows2, listing)

\* A text has one parsing, whatever its headings.
OneParsing(text, basic, listing) ==
  \A p, q \in Parsings(text, basic, listing) : p = q
=============================================================================
