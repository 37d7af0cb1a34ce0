------------------------------ MODULE VtfsWire ------------------------------
(***************************************************************************)
(* One HTTP request of the module (module/http.c) and its answer: what the *)
(* bytes, the type and the size of a file become between the module and    *)
(* the server's VtfsController, when values are cut at the end of a fixed  *)
(* buffer and the answer is whatever one recv returned.                    *)
(*                                                                         *)
(* A text is a sequence of tokens <<kind, number>>: one character of       *)
(* base64, a digit, or a word that only matters as a whole.  A number is   *)
(* a token per digit, so that it can be cut in the middle.                 *)
(***************************************************************************)
EXTENDS Integers, Sequences, FiniteSets, FiniteSetsExt, SequencesExt

CONSTANTS
  Bytes,         \* the bytes of files
  UrlSize,       \* size of the buffer for one encoded value, encoded_value
  ResponseSize,  \* VTFS_HTTP_BUFFER_SIZE, of the answer
  Radix,         \* 10, the base numbers are written in
  MaxLen         \* bound: bytes in a file

ASSUME WireAssumption ==
  /\ Bytes \subseteq 0 .. 255
  /\ {UrlSize, ResponseSize} \subseteq Nat \ 0 .. 3
  /\ Radix \in Nat \ {0, 1} /\ MaxLen \in Nat /\ MaxLen < Radix * Radix

VARIABLE call   \* the request under way, or the last one
vars == <<call>>

Files == [dir: {FALSE}, data: SeqOf(Bytes, MaxLen)]
Directory == [dir |-> TRUE, data |-> <<>>]

Word(w) == <<w, 0>>
Pad == Word("=")
Quote == Word("quote")
Sextet(n) == <<"sextet", n>>

NoText == <<>>
Failed == [ok |-> FALSE]
Value(bytes) == [ok |-> TRUE, data |-> bytes]
Stat(isdir, size) == [ok |-> TRUE, dir |-> isdir, size |-> size]

\* about is what the server has, for read and stat, or what is to be written.
Idle == [op |-> "none", step |-> "idle", about |-> Directory, text |-> NoText,
         stored |-> FALSE, result |-> Failed]

Init == call = Idle

-----------------------------------------------------------------------------
(***************************************************************************)
(* Base64.                                                                 *)
(***************************************************************************)
ByteAt(bytes, i) == IF i <= Len(bytes) THEN bytes[i] ELSE 0

\* Mutant: a text without padding, whatever is left over.
EncodedUnpadded(bytes) ==
  [j \in 1 .. 4 * ((Len(bytes) + 2) \div 3) |->
     LET i == 3 * ((j - 1) \div 4) + 1
         a == ByteAt(bytes, i)  b == ByteAt(bytes, i + 1)  c == ByteAt(bytes, i + 2)
     IN  CASE j % 4 = 1 -> Sextet(a \div 4)
           [] j % 4 = 2 -> Sextet((a % 4) * 16 + b \div 16)
           [] j % 4 = 3 -> Sextet((b % 16) * 4 + c \div 64)
           [] OTHER     -> Sextet(c % 64)]

\* Three bytes are four characters, the last ones "=" where bytes are missing.
\* Java's encoder, for what is read, gives the same text.
bytes_to_base64(bytes) ==
  [j \in 1 .. 4 * ((Len(bytes) + 2) \div 3) |->
     LET i == 3 * ((j - 1) \div 4) + 1
         a == ByteAt(bytes, i)  b == ByteAt(bytes, i + 1)  c == ByteAt(bytes, i + 2)
     IN  CASE j % 4 = 1 -> Sextet(a \div 4)
           [] j % 4 = 2 -> Sextet((a % 4) * 16 + b \div 16)
           [] j % 4 = 3 -> IF i < Len(bytes) THEN Sextet((b % 16) * 4 + c \div 64) ELSE Pad
           [] OTHER     -> IF i + 1 < Len(bytes) THEN Sextet(c % 64) ELSE Pad]

\* Mutant: a character is not cut off at eight bits.
DecodedWide(text, n) ==
  [i \in 1 .. n |->
     LET j == 4 * ((i - 1) \div 3)
         S(k) == IF j + k <= Len(text) THEN text[j + k][2] ELSE 0
     IN  CASE i % 3 = 1 -> S(1) * 4 + S(2) \div 16
           [] i % 3 = 2 -> S(2) * 16 + S(3) \div 4
           [] OTHER     -> S(3) * 64 + S(4)]

\* Byte i of a text whose characters a, b, c, d it lies in ("=" counts as 0).
Decoded(text, n) ==
  [i \in 1 .. n |->
     LET j == 4 * ((i - 1) \div 3)
         S(k) == IF j + k <= Len(text) THEN text[j + k][2] ELSE 0
     IN  CASE i % 3 = 1 -> (S(1) * 4 + S(2) \div 16) % 256
           [] i % 3 = 2 -> (S(2) * 16 + S(3) \div 4) % 256
           [] OTHER     -> (S(3) * 64 + S(4)) % 256]

Pads(text) == Cardinality({i \in DOMAIN text : text[i] = Pad})

\* base64_decode: whole units of four.
base64_decode(text) ==
  IF Len(text) % 4 # 0 THEN Failed
  ELSE Value(Decoded(text, 3 * (Len(text) \div 4) - Pads(text)))

\* java.util.Base64.getDecoder: padding may be missing at the end, not half of
\* it, and one character alone is no byte.
JavaDecode(text) ==
  LET chars == Len(text) - Pads(text) IN
  IF chars % 4 = 1 \/ (Pads(text) > 0 /\ Len(text) % 4 # 0) THEN Failed
  ELSE Value(Decoded(text, 3 * (chars \div 4) + Max({chars % 4, 1}) - 1))

-----------------------------------------------------------------------------
(***************************************************************************)
(* The request.                                                            *)
(***************************************************************************)

\* "+", "/" and "=" take three characters in a query.
Wide(token) == token \in {Sextet(62), Sextet(63), Pad}
Width(text) == Len(text) + 2 * Cardinality({i \in DOMAIN text : Wide(text[i])})

\* Mutant: the loop goes on while one character fits.
RoomForOne(text) == Width(text) < UrlSize - 1

\* The condition of the loop: there is room for the next character.
HasRoom(text) == Width(text) < UrlSize - 3

\* url_encode: characters are copied while there is room, the rest is left out.
url_encode(text) ==
  SubSeq(text, 1, Max({0} \cup {i \in DOMAIN text : HasRoom(SubSeq(text, 1, i - 1))}))

Step(step, text) == call' = [call EXCEPT !.step = step, !.text = text]
Return(result) == call' = [call EXCEPT !.step = "done", !.result = result]
At(step) == call.step = step

\* vtfs_http_call up to socket_send.  The path and the numbers fit.
Ask ==
  \E op \in {"read", "write", "stat"}, f \in Files \cup {Directory} :
    /\ At("idle") /\ (op = "stat" \/ ~f.dir)
    /\ call' = [Idle EXCEPT !.op = op, !.step = "sent", !.about = f,
                  !.text = IF op = "write" THEN url_encode(bytes_to_base64(f.data))
                                           ELSE NoText]

\* The caller has used the result; a write is told nothing.
Leave == At("done") /\ call' = Idle

\* No connection, or a send or receive that fails: nothing is known.
Unreachable == At("sent") /\ Return(Failed)

-----------------------------------------------------------------------------
(***************************************************************************)
(* The server.                                                             *)
(***************************************************************************)
Digits(n) == IF n < Radix THEN << <<"digit", n>> >>
                          ELSE << <<"digit", n \div Radix>>, <<"digit", n % Radix>> >>

ErrorBody == <<Word("{"), Word("error"), Word("}")>>
DataBody(bytes) ==
  <<Word("{"), Word("result"), Word("{"), Word("data"), Quote>>
    \o bytes_to_base64(bytes) \o <<Quote, Word("}"), Word("}")>>
StatBody(f) ==
  <<Word("{"), Word("result"), Word("{"), Word("type"), Quote,
    Word(IF f.dir THEN "dir" ELSE "file"), Quote, Word("size")>>
    \o Digits(Len(f.data)) \o <<Word(","), Word("mtime"), Word("}"), Word("}")>>

\* The answer: in one piece, or in two chunks and an empty one.
Answers(status, body) ==
  LET head == <<Word("HTTP/1."), Word("space"), <<"status", status>> >>
      piece(s) == << <<"chunk", Len(s)>> >> \o s
  IN  {head \o <<Word("blank")>> \o body} \cup
      {head \o <<Word("chunked"), Word("blank")>> \o piece(SubSeq(body, 1, n))
            \o piece(SubSeq(body, n + 1, Len(body))) \o piece(<<>>) :
         n \in 1 .. Len(body) - 1}

Respond(status, body, stored) ==
  \E answer \in Answers(status, body) :
    call' = [call EXCEPT !.step = "answered", !.text = answer, !.stored = stored]

\* The controller; stored tells whether the bytes of a write went to the file.
Serve ==
  /\ At("sent")
  /\ \/ Respond(400, ErrorBody, FALSE)   \* no such file, or no token
     \/ call.op = "read" /\ Respond(200, DataBody(call.about.data), FALSE)
     \/ call.op = "stat" /\ Respond(200, StatBody(call.about), FALSE)
     \/ /\ call.op = "write" /\ JavaDecode(call.text).ok
        /\ call' = [call EXCEPT !.step = "done", !.stored = TRUE,
                                !.result = JavaDecode(call.text)]

-----------------------------------------------------------------------------
(***************************************************************************)
(* The answer.                                                             *)
(***************************************************************************)

\* One recv: the first bytes of the answer, at least those of a segment.
Receive ==
  /\ At("answered")
  /\ \E n \in 0 .. Min({Len(call.text), ResponseSize - 1}) :
       Step("received", SubSeq(call.text, 1, n))

Find(text, w) == SelectInSeq(text, LAMBDA t : t = Word(w))
Has(text, w) == Find(text, w) # 0
After(text, i) == SubSeq(text, i + 1, Len(text))
AfterWord(text, w) == After(text, Find(text, w))

\* The memory behind the received bytes is zero and reads as a chunk of none.
Unchunked(text) ==
  LET rest[i \in 1 .. Len(text) + 1] ==
        IF i > Len(text) \/ text[i][2] = 0 THEN <<>>
        ELSE LET n == text[i][2] IN
             SubSeq(text, i + 1, Min({i + n, Len(text)}))
               \o rest[Min({i + n, Len(text)}) + 1]
  IN  rest[1]

\* parse_http_response: without "HTTP/1." and a space the body is not written.
StatusOf(text) ==
  LET i == SelectInSeq(text, LAMBDA t : t[1] = "status")
  IN  IF i = 0 THEN 500 ELSE text[i][2]
BodyWritten(text) == Has(text, "space")
BodyOf(text) ==
  IF ~Has(text, "blank") THEN NoText
  ELSE IF Has(text, "chunked") THEN Unchunked(AfterWord(text, "blank"))
  ELSE AfterWord(text, "blank")

\* Mutant: a value that is cut ends where the text does.
QuotedOrCut(text) ==
  LET inside == After(text, SelectInSeq(text, LAMBDA t : t = Quote))
      i == SelectInSeq(inside, LAMBDA t : t = Quote)
  IN  IF i = 0 THEN Value(inside) ELSE Value(SubSeq(inside, 1, i - 1))

\* extract_json_field: the text between the next two quotes.
Quoted(text) ==
  LET inside == AfterWord(text, "quote")  i == Find(inside, "quote")
  IN  IF ~Has(text, "quote") \/ i = 0 THEN Failed ELSE Value(SubSeq(inside, 1, i - 1))

\* extract_json_number, kstrtoll: the digits that follow.
Number(text) ==
  LET end == SelectInSeq(text, LAMBDA t : t[1] # "digit")
      n == IF end = 0 THEN Len(text) ELSE end - 1
  IN  IF n = 0 THEN Failed
      ELSE Value(FoldLeft(LAMBDA v, t : v * Radix + t[2], 0, SubSeq(text, 1, n)))

\* http_read: a status that is not 2xx or 3xx, or any part missing, is an error.
ReadResult(status, body) ==
  LET result == AfterWord(body, "result")  value == Quoted(AfterWord(result, "data")) IN
  IF status >= 400 \/ Has(body, "error") \/ ~Has(body, "result") \/ ~Has(result, "data")
     \/ ~value.ok
  THEN Failed
  ELSE base64_decode(value.data)

\* Mutant: the closing brace is not looked for.
NeverMatched(text) == text

\* What stands before the brace that matches one just passed, or nothing.
Matched(text) ==
  LET Open(i) == Cardinality({k \in 1 .. i : text[k] = Word("{")})
      Closed(i) == Cardinality({k \in 1 .. i : text[k] = Word("}")})
      ends == {i \in DOMAIN text : Closed(i) > Open(i)}
  IN  IF ends = {} THEN NoText ELSE SubSeq(text, 1, Min(ends))

\* http_stat: the status is not looked at.
StatResult(body) ==
  LET object == Matched(AfterWord(AfterWord(body, "result"), "{"))
      type == Quoted(AfterWord(object, "type"))
      size == Number(AfterWord(object, "size"))
  IN  IF Has(body, "error") \/ ~Has(body, "result") \/ ~Has(object, "type")
         \/ ~Has(object, "size") \/ ~type.ok \/ ~size.ok
         \/ type.data \notin {<<Word("dir")>>, <<Word("file")>>}
      THEN Failed
      ELSE Stat(type.data = <<Word("dir")>>, size.data)

\* Memory that was not written: what an earlier call left on the stack.
Leftovers == {NoText, ErrorBody} \cup {StatBody(f) : f \in {Directory} \cup Files}

Parse ==
  LET status == StatusOf(call.text) IN
  /\ At("received")
  /\ \E body \in IF BodyWritten(call.text) THEN {BodyOf(call.text)} ELSE Leftovers :
       CASE call.op = "read" -> Return(ReadResult(status, body))
         [] call.op = "stat" -> Return(StatResult(body))
         [] OTHER            -> Return(Failed)

Next == Ask \/ Leave \/ Unreachable \/ Serve \/ Receive \/ Parse

Spec == Init /\ [][Next]_vars

-----------------------------------------------------------------------------
TypeOK ==
  /\ call.op \in {"none", "read", "write", "stat"}
  /\ call.step \in {"idle", "sent", "answered", "received", "done"}
  /\ call.about \in Files \cup {Directory} /\ call.stored \in BOOLEAN
  /\ call.op # "stat" /\ call.result.ok => call.result.data \in Seq(0 .. 255)
  /\ call.op = "stat" /\ call.result.ok => call.result.size \in Nat

\* http_read returns an error or the bytes the server sent, all of them: an
\* answer of which only a part has come never passes for a shorter one,
\* wherever it is cut and however it is chunked.
ReadAllOrNothing ==
  At("done") /\ call.op = "read" /\ call.result.ok =>
    call.result.data = call.about.data

\* http_stat returns an error or the type and the size the server has, also
\* when the answer is cut inside the number; unless not even the status line
\* has come: then it reads memory nobody has written.
StatTrue ==
  At("done") /\ call.op = "stat" /\ call.result.ok /\ BodyWritten(call.text) =>
    call.result = Stat(call.about.dir, Len(call.about.data))

\* What reaches the file of a write whose text did not fit the buffer is its
\* beginning, not other bytes; one that fits arrives whole.
SentIsPrefix ==
  call.stored =>
    /\ IsPrefix(call.result.data, call.about.data)
    /\ Width(bytes_to_base64(call.about.data)) <= UrlSize - 3 =>
         call.result.data = call.about.data

\* An encoded value and its terminator fit the buffer, whatever the character
\* at its end needs.
EncodedFits == At("sent") => Width(call.text) + 1 <= UrlSize

=============================================================================
