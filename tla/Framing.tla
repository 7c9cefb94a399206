-------------------------------- MODULE Framing --------------------------------
(* How responses are read off a connection (net/utils.rs, net/connection.rs,           *)
(* net/packet.rs and the send_and_recv of every client): a header that declares the    *)
(* size of the body and of its content, then the body, deflated if the two differ.     *)
(*                                                                                     *)
(* A stream is the sequence of bytes a server writes before it closes or falls silent. *)
(* A byte is <<part, value>>: part 0 of plain content, a positive part of a deflated   *)
(* one, of which every byte names the content, a negative part of a header.            *)
EXTENDS Integers, Sequences, SequencesExt

CONSTANTS
  HeaderLen, \* RSP_HEADER_LEN
  Margin,    \* bytes of content tolerated above the declared size
  AbsLimit,  \* DECOMPRESS_ABS_LIMIT
  Chunk      \* bytes of a block file asked for at once

Refused == [ok |-> FALSE, content |-> <<>>]
Got(content) == [ok |-> TRUE, content |-> content]

-----------------------------------------------------------------------------
(* External: what a server writes, and zlib *)

Plain(content) == [i \in DOMAIN content |-> <<0, content[i]>>]
Deflated(content, size) == [i \in 1..size |-> <<i, content>>]
Header(zip, unzip) == [i \in 1..HeaderLen |-> <<-i, <<zip, unzip>>>>]

Frame(body, unzip) == Header(Len(body), unzip) \o body

\* Bytes that are no deflated content are refused.
Inflate(body) ==
  IF body # <<>> /\ \A i \in DOMAIN body : body[i] = <<i, body[1][2]>> THEN Got(Plain(body[1][2])) ELSE Refused

-----------------------------------------------------------------------------
(* The reading; every reader also gives what it leaves in the stream *)

Left(seq, n) == SubSeq(seq, n + 1, Len(seq))

\* recv: exactly n bytes, or an error once the stream ends.
Recv(stream, n) ==
  IF Len(stream) < n THEN [ok |-> FALSE, bytes |-> <<>>, rest |-> <<>>]
  ELSE [ok |-> TRUE, bytes |-> SubSeq(stream, 1, n), rest |-> Left(stream, n)]

\* ResponseHeader::parse.
MutParseHeader(bytes) == [zip |-> bytes[1][2][2], unzip |-> bytes[1][2][1]]
ParseHeader(bytes) == [zip |-> bytes[1][2][1], unzip |-> bytes[1][2][2]]

\* decompress_zlib_checked: a content above the limit is refused, one of another size than
\* declared only logged.
DecompressChecked(body, unzip) ==
  LET limit == IF unzip > 0 /\ unzip + Margin < AbsLimit THEN unzip + Margin ELSE AbsLimit
      out == Inflate(body)
  IN IF out.ok /\ Len(out.content) > limit THEN Refused ELSE out

Decompress(body) == DecompressChecked(body, 0)

\* Header and body of the next response: read_response_raw.
ReadResponse(stream) ==
  LET head == Recv(stream, HeaderLen)
      header == ParseHeader(head.bytes)
      body == Recv(head.rest, header.zip)
  IN IF head.ok /\ body.ok THEN [ok |-> TRUE, header |-> header, body |-> body.bytes, rest |-> body.rest]
     ELSE [ok |-> FALSE, header |-> [zip |-> 0, unzip |-> 0], body |-> <<>>, rest |-> <<>>]

\* The content of a response, inflated with the declared size as a limit (checked) or
\* without it: an empty body is an error.
Content(r, checked) ==
  IF ~r.ok \/ r.body = <<>> THEN Refused
  ELSE IF r.header.zip = r.header.unzip THEN Got(r.body)
  ELSE IF checked THEN DecompressChecked(r.body, r.header.unzip) ELSE Decompress(r.body)

ReadContent(stream, checked) ==
  LET r == ReadResponse(stream)
      got == Content(r, checked)
  IN [ok |-> got.ok, content |-> got.content, rest |-> r.rest]

\* perform_handshake: three responses, each of which has to inflate if it is deflated.
Answered(r) == r.ok /\ (r.header.zip # r.header.unzip => Decompress(r.body).ok)

Handshake(stream) ==
  LET r1 == ReadResponse(stream)
      r2 == ReadResponse(r1.rest)
      r3 == ReadResponse(r2.rest)
  IN [ok |-> Answered(r1) /\ Answered(r2) /\ Answered(r3), rest |-> r3.rest]

-----------------------------------------------------------------------------
(* The clients *)

SyncRead(stream) == ReadContent(stream, TRUE)
AsyncRead(stream) == ReadContent(stream, FALSE)

\* A connection of its own for every call.
Unset == [ok |-> FALSE, content |-> <<>>, rest |-> <<>>]
OneCall(stream, checked) ==
  LET set == Handshake(stream) IN IF set.ok THEN ReadContent(set.rest, checked) ELSE Unset

DirectRead(stream) == OneCall(stream, FALSE)
F10Read(stream) == OneCall(stream, TRUE)
FinanceRead(stream) == OneCall(stream, TRUE)

-----------------------------------------------------------------------------
(* Block files *)

\* get_and_parse_block_info before the parsing: chunk by chunk, offset advanced by what
\* was asked for; a server may give no more than `given` bytes of a part.
GetBlockData(file, given) ==
  LET n == (Len(file) + Chunk - 1) \div Chunk
      size(i) == IF i < n THEN Chunk ELSE Len(file) - (n - 1) * Chunk
      part(i) == SubSeq(file, (i - 1) * Chunk + 1, (i - 1) * Chunk + size(i))
  IN FlattenSeq([i \in 1..n |-> SubSeq(part(i), 1, IF given < size(i) THEN given ELSE size(i))])

-----------------------------------------------------------------------------
(* Properties *)

\* A handshake's answers: two plain ones, one deflated.
Welcome == Frame(Plain(<<1>>), 1) \o Frame(Deflated(<<1, 2, 3>>, 2), 3) \o Frame(<<>>, 0)

Readers == {"sync", "async", "direct", "f10", "finance"}

\* What a client's call reads of the server's bytes, on a new connection.
Reading(client, bytes) ==
  CASE client \in {"sync", "async"} ->
         LET set == Handshake(Welcome \o bytes)
         IN IF ~set.ok THEN Unset
            ELSE IF client = "sync" THEN SyncRead(set.rest) ELSE AsyncRead(set.rest)
    [] client = "direct" -> DirectRead(Welcome \o bytes)
    [] client = "f10" -> F10Read(Welcome \o bytes)
    [] OTHER -> FinanceRead(Welcome \o bytes)

Cut(n, seq) == SubSeq(seq, 1, Len(seq) - n)

\* A response, deflated to size bytes or plain (size 0), is read to its content; its size
\* may be declared as 0 (the list of securities).  Nothing of it is left for the next call,
\* even if it cannot be inflated, and nothing is returned of a response cut off.
FramesRead(client, content, size, declared, corrupt, cut, next) ==
  LET body == IF size = 0 THEN Plain(content)
              ELSE IF corrupt THEN Reverse(Deflated(content, size)) ELSE Deflated(content, size)
      following == Frame(Plain(next), Len(next))
      asExpected(whole) ==
        /\ whole.ok <=> IF size = 0 THEN content # <<>> ELSE ~(corrupt /\ size > 1) /\ Len(content) <= AbsLimit
        /\ whole.ok => whole.content = Plain(content)
        /\ whole.rest = following
  IN (size = 0 /\ declared = Len(content)) \/ (size > 0 /\ declared \in {0, Len(content)} \ {size}) =>
       /\ asExpected(Reading(client, Frame(body, declared) \o following))
       /\ cut > 0 => ~Reading(client, Cut(cut, Frame(body, declared))).ok

\* So is one deflated to exactly the size of its content.
FramesAlwaysRead(client, content, size) ==
  Reading(client, Frame(Deflated(content, size), Len(content))).content = Plain(content)

\* A block file is put together as it is on the server, if every part is as long as asked.
FilesPutTogether(file) == GetBlockData(file, Chunk) = file

\* It is so, or too short to be it, if a server gives less.
ShortPartsNoticed(file, given) ==
  LET got == GetBlockData(file, given) IN IsPrefix(got, file)
=============================================================================
