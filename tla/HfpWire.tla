------------------------------ MODULE HfpWire ------------------------------
(***************************************************************************)
(* The pure part of the HFP transport: the SSE parser of client.ts.        *)
(*                                                                         *)
(* An event stream is a sequence of bytes cut into chunks anywhere.  Of    *)
(* the bytes the parser tells "n" (newline), "c" (carriage return), ":"    *)
(* (opens a line that is not data), "r" (content of a result event), "x"   *)
(* (content that JSON or the schema of an event refuses) and "e" (any      *)
(* other); a data line is content bytes.                                   *)
(***************************************************************************)
EXTENDS Naturals, Sequences, FiniteSetsExt

CONSTANTS
  MaxEvent,   \* MAX_SSE_EVENT_BYTES
  MaxTotal    \* MAX_SSE_TOTAL_BYTES

\* The bytes, as the parser tells them apart.
Marks == {"n", "c", ":", "r", "x", "e"}
\* A line that begins so carries no data.
Mute == {":", "c"}

-----------------------------------------------------------------------------
(* The parser between two chunks: the unterminated line, the data lines of *)
(* the record in progress, the events yielded.                             *)
ParserStart == [line |-> <<>>, data |-> <<>>, events |-> <<>>, total |-> 0, state |-> "reading"]

\* A line without the carriage return it may end in.
Stripped(raw) ==
  IF raw # <<>> /\ raw[Len(raw)] = "c" THEN SubSeq(raw, 1, Len(raw) - 1) ELSE raw

\* The parse of a record throws.
Malformed(record) == \E i \in DOMAIN record : record[i] = "x"

Flushed(p) ==
  IF p.data = <<>> THEN p
  ELSE IF Malformed(p.data) THEN [p EXCEPT !.state = "malformed"]
  ELSE [p EXCEPT !.data = <<>>, !.events = Append(@, p.data),
                 !.state = IF p.data[1] = "r" THEN "done" ELSE @]

EndLine(p) ==
  LET line == Stripped(p.line)
      next == [p EXCEPT !.line = <<>>]
  IN  IF line = <<>> THEN Flushed(next)
      ELSE IF line[1] \in Mute THEN next
      ELSE [next EXCEPT !.data = @ \o line]

ParseByte(b, p) ==
  IF p.state # "reading" THEN p
  ELSE IF b = "n" THEN EndLine(p)
  ELSE [p EXCEPT !.line = Append(@, b)]

ParseBytes(p, chunk) ==
  LET after[n \in 0 .. Len(chunk)] ==
        IF n = 0 THEN p ELSE ParseByte(chunk[n], after[n - 1])
  IN  after[Len(chunk)]

ParseChunk_PerChunk(p, chunk) ==
  ParseBytes([p EXCEPT !.total = @ + Len(chunk), !.line = <<>>], chunk)

(* The record cap is looked at between chunks only.                        *)
ParseChunk(p, chunk) ==
  IF p.total + Len(chunk) > MaxTotal
  THEN [p EXCEPT !.total = @ + Len(chunk), !.state = "too_large"]
  ELSE LET q == ParseBytes([p EXCEPT !.total = @ + Len(chunk)], chunk)
       IN IF q.state = "reading" /\ Len(q.data) + Len(q.line) > MaxEvent
          THEN [q EXCEPT !.state = "too_large"] ELSE q

-----------------------------------------------------------------------------
(* What a parser of the whole text yields, by the places of the text: a    *)
(* record is the content of the data lines before a blank line and after   *)
(* the blank line before that, and the first result is the last record;    *)
(* the first that is malformed is where it stops, and is not a record.     *)

\* The values at the places in S, in order.
Along(N, S, value) ==
  LET upTo[n \in 0 .. N] ==
        IF n = 0 THEN <<>>
        ELSE IF n \in S THEN Append(upTo[n - 1], value[n]) ELSE upTo[n - 1]
  IN  upTo[N]

\* Where the line begins that goes on at place i.
Opens(text, i) == Max({k \in 0 .. (i - 1) : k = 0 \/ text[k] = "n"}) + 1

\* A carriage return that belongs to a line's end.
Return(text, i) == text[i] = "c" /\ i < Len(text) /\ text[i + 1] = "n"

Blanks(text) ==
  {i \in DOMAIN text : /\ text[i] = "n"
                       /\ \A k \in Opens(text, i) .. (i - 1) : k = i - 1 /\ text[k] = "c"}
Data(text) ==
  {i \in DOMAIN text : /\ text[i] # "n" /\ ~Return(text, i)
                       /\ text[Opens(text, i)] \notin Mute}
DataOf(text, b) ==
  {i \in Data(text) : i < b /\ ~\E k \in Blanks(text) : i < k /\ k < b}

Record(text, b) == Along(Len(text), DataOf(text, b), text)
Full(text) == {b \in Blanks(text) : DataOf(text, b) # {}}
Spoilt(text) == {b \in Full(text) : Malformed(Record(text, b))}
Stops(text) == Spoilt(text) \cup {b \in Full(text) : Record(text, b)[1] = "r"}
Yielded(text) == {b \in Full(text) \ Spoilt(text) : \A c \in Stops(text) : b <= c}

RecordsOf(text) ==
  Along(Len(text), Yielded(text), [b \in Yielded(text) |-> Record(text, b)])

\* How the parser stands after the text, but for the caps.
FateOf(text) ==
  IF Stops(text) = {} THEN "reading"
  ELSE IF \E b \in Spoilt(text) : \A c \in Stops(text) : b <= c THEN "malformed"
  ELSE "done"
=============================================================================
