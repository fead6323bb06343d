-------------------------------- MODULE Wire ---------------------------------
(***************************************************************************)
(* The wire format, written in one language and read in another.  Header   *)
(* lines, a blank line, the body and a newline; the body is Content-Length *)
(* bytes or, without that header, a paragraph of its own.                  *)
(*                                                                         *)
(* A header line "Name: value", its line break included, is one symbol, a  *)
(* record; a byte of a body is NL, CR or X, any byte that is no line break *)
(* and no colon.  Go, Ruby and PHP use a byte stream.  JavaScript uses a   *)
(* WebSocket, whose frames hold one message each.                          *)
(***************************************************************************)
EXTENDS Integers, Sequences, FiniteSets, FiniteSetsExt

CONSTANTS
  Threads,    \* the threads that share a writer, each with one message
  Names,      \* of headers
  Messages    \* what they may write: the headers they give, in order, and a body; how it
              \* is given: as "content", for which the library sets Content-Length, or "raw"

VARIABLES
  from, to,   \* the language of the writer and that of the reader
  message,    \* thread -> the message it writes
  chunks,     \* thread -> what it has yet to give to the stream
  state,      \* thread -> "idle", "writing", "written" or "failed"
  lock,       \* the threads inside the writer's mutex
  order,      \* the threads, in the order they entered it
  wire,       \* the bytes, or the frames, that were written
  at,         \* how many of them the reader has taken
  open,       \* the stream accepts writes
  reader,     \* where Read is: in the "headers", at a "paragraph" or a "length" of
              \* body; or how it ended: "eof" or "error"
  headers, body,  \* what it has of the message so far
  received    \* the messages it has returned

writer == <<chunks, state, lock, order>>
reading == <<at, reader, headers, body, received>>
vars == <<from, to, message, writer, wire, open, reading>>

Streamed == {"go", "ruby", "php"}
Languages == Streamed \cup {"js"}

NL == [byte |-> "\n"]
CR == [byte |-> "\r"]
X == [byte |-> "x"]

LengthName == "Content-Length"
Empty == -1     \* the value "" of a header; any other one is a number
Absent == -2    \* of a header that the message has not got

Header == [name : Names, value : Nat \cup {Empty}]

ASSUME MessagesAssumption ==
  /\ LengthName \in Names
  /\ Messages \subseteq [headers : Seq(Header), body : Seq({NL, CR, X}), how : {"content", "raw"}]

\* The k-th number in S, and what s has at the positions in S, in order.
Nth(S, k) == CHOOSE i \in S : Cardinality({j \in S : j <= i}) = k
Keep(s, S) == [k \in 1 .. Cardinality(S) |-> s[Nth(S, k)]]

-----------------------------------------------------------------------------
(* Headers *)

\* Content-Length may be spelled in lower case; other names are canonical.
Canonical(name) == IF name = "content-length" THEN LengthName ELSE name

\* The headers that a message is built with: only JavaScript keeps the spelling.
Built(lang, hs) ==
  IF lang = "js" THEN hs
  ELSE [i \in DOMAIN hs |-> [hs[i] EXCEPT !.name = Canonical(@)]]

Positions(hs, name) == {i \in DOMAIN hs : hs[i].name = name}

\* Go and PHP keep every header and look the first one up; a Ruby hash and a
\* JavaScript object keep the last one.
FirstValue(hs, name) == hs[Min(Positions(hs, name))].value
LastValue(hs, name) == hs[Max(Positions(hs, name))].value

Lookup(lang, hs, name) ==
  IF Positions(hs, name) = {} THEN Absent
  ELSE IF lang \in {"go", "php"} THEN FirstValue(hs, name)
  ELSE LastValue(hs, name)

\* Without the headers that repeat a name; the first is given value.
SetInPlace(hs, name, value) ==
  Keep([i \in DOMAIN hs |-> IF hs[i].name = name THEN [name |-> name, value |-> value] ELSE hs[i]],
       {i \in DOMAIN hs : hs[i].name = name => i = Min(Positions(hs, name))})

\* A Ruby hash and a JavaScript object hold one header of a name: where the first was, what
\* the last was.
Collapse(lang, hs) ==
  IF lang \in {"go", "php"} THEN hs
  ELSE Keep([i \in DOMAIN hs |-> [hs[i] EXCEPT !.value = LastValue(hs, hs[i].name)]],
            {i \in DOMAIN hs : i = Min(Positions(hs, hs[i].name))})

\* All headers but those of a name.
Without(hs, name) == Keep(hs, {i \in DOMAIN hs : hs[i].name # name})

\* The header is added to those of its name.
AddHeader(lang, hs, name, value) == Append(hs, [name |-> name, value |-> value])

\* Go deletes and appends; the others replace.  A key that JavaScript spells otherwise stays.
SetHeader(lang, hs, name, value) ==
  IF lang = "go" \/ Positions(hs, name) = {}
  THEN Append(Without(hs, name), [name |-> name, value |-> value])
  ELSE SetInPlace(hs, name, value)

\* The length of the body that content is encoded to replaces any that was given.
EncodeTo(lang, hs, b) == SetHeader(lang, hs, LengthName, Len(b))

\* The headers of the message that is built.
Assembled(lang, m) ==
  LET hs == Collapse(lang, Built(lang, m.headers))
  IN  IF m.how = "raw" THEN hs ELSE EncodeTo(lang, hs, m.body)

-----------------------------------------------------------------------------
(* Writing *)

\* Go writes a line in four pieces, of which the first three end no line: no reader tells
\* them from a line that has not been written yet.
HeaderLines(lang, m) ==
  LET hs == Assembled(lang, m)
  IN  [i \in DOMAIN hs |-> <<hs[i]>>]

\* The writes that WriteMessage, _write and write make.
StreamChunks(lang, m) == HeaderLines(lang, m) \o <<<<NL>>, m.body, <<NL>>>>

\* createBlobFromMessage: the parts of one Blob.
Blob(lang, m) == Assembled(lang, m) \o <<NL>> \o m.body \o <<NL>>

ChunksOf(m) == IF "js" \in {from, to} THEN <<Blob(from, m)>> ELSE StreamChunks(from, m)

Init ==
  /\ from \in Languages /\ to \in Languages /\ {from, to} # {"js"}
  /\ message \in [Threads -> Messages]
  /\ chunks = [t \in Threads |-> ChunksOf(message[t])]
  /\ state = [t \in Threads |-> "idle"]
  /\ lock = {} /\ order = <<>>
  /\ wire = <<>> /\ at = 0 /\ open = TRUE
  /\ reader = "headers" /\ headers = <<>> /\ body = <<>> /\ received = <<>>

EnterMutex(t) ==
  /\ state[t] = "idle"
  /\ state' = [state EXCEPT ![t] = "writing"]
  /\ lock' = lock \cup {t}
  /\ order' = Append(order, t)
  /\ UNCHANGED <<from, to, message, chunks, wire, open, reading>>

\* w.mutex.Lock(), @mutex.synchronize; PHP and JavaScript have one thread.
Enter(t) == lock = {} /\ EnterMutex(t)

\* One write to the stream; the mutex is left after the last one.
WriteChunk(t) ==
  /\ state[t] = "writing" /\ open
  /\ wire' = IF to = "js" THEN Append(wire, Head(chunks[t])) ELSE wire \o Head(chunks[t])
  /\ chunks' = [chunks EXCEPT ![t] = Tail(@)]
  /\ LET last == Len(chunks[t]) = 1
     IN  /\ state' = [state EXCEPT ![t] = IF last THEN "written" ELSE @]
         /\ lock' = IF last THEN lock \ {t} ELSE lock
  /\ UNCHANGED <<from, to, message, order, open, reading>>

FailLeaving(t, held) ==
  /\ state[t] = "writing" /\ ~open
  /\ state' = [state EXCEPT ![t] = "failed"]
  /\ lock' = held
  /\ UNCHANGED <<from, to, message, chunks, order, wire, open, reading>>

\* The error returns before the mutex is unlocked.
FailLocked(t) == FailLeaving(t, lock)

\* A write to a closed stream ends the method, and the mutex is left.
WriteFails(t) == FailLeaving(t, lock \ {t})

\* The peer, the process or its descriptor goes away between two writes.
CloseStream ==
  /\ open
  /\ open' = FALSE
  /\ UNCHANGED <<from, to, message, writer, wire, reading>>

-----------------------------------------------------------------------------
(* Reading from a stream *)

IsHeader(symbol) == symbol \notin {NL, CR, X}
EndsLine(symbol) == symbol = NL \/ IsHeader(symbol)

\* Where lines end in what is left of the stream, and what is left of it up to e.
LineEnds == {e \in at + 1 .. Len(wire) : EndsLine(wire[e])}
Line(e) == SubSeq(wire, at + 1, e)

IsBlank(line) == line \in {<<NL>>, <<CR, NL>>}

\* ParseHeader wants a colon.  What stands before the name becomes part of it, unless it
\* is a carriage return that is trimmed.
HasColon(line) == IsHeader(line[Len(line)])
ParseHeader(line) ==
  [line[Len(line)] EXCEPT !.name =
     IF \E j \in DOMAIN line : line[j] = X THEN "garbled" ELSE Canonical(@)]

\* What a reader finds in a message that it has read.
Meaning(lang, hs, b) ==
  [lookup |-> [name \in {hs[i].name : i \in DOMAIN hs} |-> Lookup(lang, hs, name)],
   body |-> b]

\* The message ends at the position end of the stream.
Return(b, end) ==
  /\ received' = Append(received, Meaning(to, headers, b))
  /\ at' = end
  /\ reader' = "headers" /\ headers' = <<>> /\ body' = <<>>

Fail(outcome) ==
  /\ reader' = outcome
  /\ UNCHANGED <<at, headers, body, received>>

\* A missing and an empty Content-Length are the same.
HasLength(hs) == Lookup(to, hs, LengthName) \notin {Absent, Empty}

\* One turn of readParagraph's loop, for readHeader.
ReadHeaderLine ==
  /\ reader = "headers" /\ to # "js" /\ LineEnds # {}
  /\ \E e \in {Min(LineEnds)} :
       \/ /\ IsBlank(Line(e))
          /\ reader' = IF HasLength(headers) THEN "length" ELSE "paragraph"
          /\ at' = e
          /\ UNCHANGED <<headers, body, received>>
       \/ /\ ~IsBlank(Line(e)) /\ HasColon(Line(e))
          /\ headers' = Append(headers, ParseHeader(Line(e)))
          /\ at' = e
          /\ UNCHANGED <<reader, body, received>>
       \/ /\ ~IsBlank(Line(e)) /\ ~HasColon(Line(e))
          /\ Fail("error")
  /\ UNCHANGED <<from, to, message, writer, wire, open>>

\* One turn of it for a body.
ReadBodyLine ==
  /\ reader = "paragraph" /\ LineEnds # {}
  /\ \E e \in {Min(LineEnds)} :
       \/ /\ IsBlank(Line(e))
          /\ Return(body, e)
       \/ /\ ~IsBlank(Line(e))
          /\ body' = body \o Line(e)
          /\ at' = e
          /\ UNCHANGED <<reader, headers, received>>
  /\ UNCHANGED <<from, to, message, writer, wire, open>>

\* The position of the newline that follows n bytes; it may be a CR and an LF.
Separator(s, n) == IF n + 1 \in DOMAIN s /\ s[n + 1] = CR THEN n + 2 ELSE n + 1

Length == Lookup(to, headers, LengthName)

\* Content-Length bytes and a newline.
ReadLength ==
  /\ reader = "length"
  /\ \E sep \in {Separator(wire, at + Length)} :
       /\ sep \in DOMAIN wire
       /\ IF wire[sep] = NL THEN Return(SubSeq(wire, at + 1, at + Length), sep) ELSE Fail("error")
  /\ UNCHANGED <<from, to, message, writer, wire, open>>

\* The stream ends inside a message, or between two.
ReadEOF ==
  /\ ~open
  /\ \/ reader \in {"headers", "paragraph"} /\ to # "js" /\ LineEnds = {}
     \/ reader = "length" /\ Separator(wire, at + Length) \notin DOMAIN wire
     \/ reader = "headers" /\ to = "js" /\ at = Len(wire)
  /\ Fail("eof")
  /\ UNCHANGED <<from, to, message, writer, wire, open>>

-----------------------------------------------------------------------------
(* Reading from a frame *)

\* endsWithDoubleLineBreak of the first e bytes, the last four of them without CRs.
DoubleBreakAt(s, e) ==
  /\ s[e] = NL
  /\ \E d \in DOMAIN s : /\ d \in e - 3 .. e - 1
                        /\ EndsLine(s[d]) /\ \A i \in d + 1 .. e - 1 : s[i] = CR

\* extractHeadersFromBlob: up to the first double line break, or else to the last break.
HeaderSize(s) ==
  LET lineEnds == {e \in DOMAIN s : EndsLine(s[e])}
      doubles == {e \in lineEnds : DoubleBreakAt(s, e)}
  IN  IF doubles # {} THEN Min(doubles) ELSE Max({0} \cup lineEnds)

\* The text between the line breaks at its ends has a colon in every line.
ColonInEachLine(s) ==
  LET inside == {i \in DOMAIN s : s[i] \notin {NL, CR}}
  IN  /\ inside # {} /\ IsHeader(s[Max(inside)])
      /\ \A i \in Min(inside) .. Max(inside) : s[i] # NL

\* A frame that cannot be parsed.
Lost == [lookup |-> <<>>, body |-> <<Absent>>]

\* parseMessageFromBlob, of a frame whose headers have this size.
ParseBlob(s, size) ==
  LET text == SubSeq(s, 1, size)
      hs == Built("go", Keep(text, {i \in DOMAIN text : IsHeader(text[i])}))
      length == Lookup("js", hs, LengthName)
      rest == SubSeq(s, size + 1, Len(s))
      sep == Separator(rest, length)
  IN  IF ~ColonInEachLine(text) THEN Lost
      ELSE IF length = Absent THEN Meaning("js", hs, rest)
      ELSE IF length = Empty \/ sep \notin DOMAIN rest THEN Lost
      ELSE IF rest[sep] # NL THEN Lost
      ELSE Meaning("js", hs, SubSeq(rest, 1, length))

\* The listener of "message"; an exception loses this frame and no other.
ReadFrame ==
  /\ to = "js" /\ reader = "headers" /\ at < Len(wire)
  /\ \E s \in {wire[at + 1]} : \E size \in {HeaderSize(s)} :
       received' = Append(received, ParseBlob(s, size))
  /\ at' = at + 1
  /\ UNCHANGED <<from, to, message, writer, wire, open, reader, headers, body>>

-----------------------------------------------------------------------------
\* Threads run, and the reader is read from until it fails.
Progress ==
  \/ \E t \in Threads : Enter(t) \/ WriteChunk(t) \/ WriteFails(t)
  \/ ReadHeaderLine
  \/ ReadBodyLine
  \/ ReadLength
  \/ ReadFrame
  \/ ReadEOF

Next == Progress \/ CloseStream

Spec == Init /\ [][Next]_vars /\ WF_vars(Progress)

-----------------------------------------------------------------------------
Given(m) == Built("go", m.headers)
LengthOf(m) == IF m.how = "content" THEN Len(m.body) ELSE Lookup("go", Given(m), LengthName)
Once(hs) == \A i, j \in DOMAIN hs : hs[i].name = hs[j].name => i = j
Others(hs) == Without(hs, LengthName)

\* The messages the format is for (README.md:18).  Names do not repeat, and Content-Length
\* is right or, if it is missing, the body is empty or a paragraph.  What Content-Length
\* is given with content does not matter.
Framed(m) ==
  /\ Once(Others(Given(m)))
  /\ \/ m.how = "content"
     \/ /\ m.how = "raw" /\ Once(Given(m))
        /\ LengthOf(m) = Len(m.body)
     \/ /\ m.how = "raw" /\ LengthOf(m) = Absent
        /\ m.body = <<>> \/ m.body[Len(m.body)] = NL
        /\ \A i \in DOMAIN m.body : m.body[i] = NL => i > 1 /\ m.body[i - 1] = X

\* What a reader should find in it: the headers, whatever the case of their names
\* (README.md:50), and the body.
Expected(m) ==
  LET length == IF LengthOf(m) = Absent THEN <<>>
                ELSE <<[name |-> LengthName, value |-> LengthOf(m)]>>
  IN  Meaning(to, Others(Given(m)) \o length, m.body)

\* JavaScript sets Content-Length next to a content-length that it was given, and writes
\* both: readers that ignore case may take the wrong one (createMessage.ts:38).
SpelledTwice(m) ==
  /\ from = "js" /\ m.how = "content"
  /\ \E i \in DOMAIN m.headers : m.headers[i].name = "content-length"

\* The format lets every reader find the one length of the message, or its end.
Unambiguous(m) == Framed(m) /\ ~SpelledTwice(m)

\* What the reader finds.  It is what it should find, except that JavaScript takes a body
\* without Content-Length to the end of the frame, the newline that ends the message
\* included, and cannot parse a frame without headers (parseMessageFromBlob.ts:39,48).
ReadAs(m) ==
  IF to # "js" \/ LengthOf(m) # Absent THEN Expected(m)
  ELSE IF m.headers = <<>> THEN Lost
  ELSE [Expected(m) EXCEPT !.body = Append(@, NL)]

\* Whatever two languages write and read, and wherever the stream breaks off: as long as
\* the messages are framed, and have one spelling of Content-Length, the reader returns
\* one message for one, in the order in which the writer's mutex was taken, each whole and
\* as it was built; but JavaScript's reader returns a framed message that has no
\* Content-Length with a newline too many, or not at all (reader.go:24,
\* stream_reader.rb:18, StreamReader.php:17, parseMessageFromBlob.ts:34 against
\* writer.go:29, stream_writer.rb:14, StreamWriter.php:15, createBlobFromMessage.ts:4 and
\* content_type.go:10, message.rb:8, Message.php:12, createMessage.ts:17).
FramedReadBack ==
  \A n \in DOMAIN received :
    (\A i \in 1 .. n : Unambiguous(message[order[i]])) =>
      /\ received[n] = ReadAs(message[order[n]])
      /\ state[order[n]] = "written"

\* A write that fails leaves the mutex, so that every other Write returns as well,
\* with its own error (writer.go:22-27, stream_writer.rb:15).
WritersReturn == <>(\A t \in Threads : state[t] \in {"written", "failed"})

\* If every message is framed, with one spelling of Content-Length, and the stream stays
\* open, no reader is left waiting for bytes that will not come: it comes to the end of
\* each message (reader.go:38-66, stream_reader.rb:22, StreamReader.php:20).
FramedGetThrough ==
  (\A t \in Threads : Unambiguous(message[t])) =>
    <>(~open \/ Len(received) = Cardinality(Threads))
=============================================================================
