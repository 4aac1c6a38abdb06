----------------------------- MODULE HttpRange -----------------------------
(***************************************************************************)
(* What a Range header is taken to ask for (services/http_range), and what *)
(* the streaming endpoint and the local storage make of it.                *)
(*                                                                         *)
(* A header is what is left of it once it is split: "closed" bytes=a-b,    *)
(* "open" bytes=a-, "suffix" bytes=-b, "unusable" for another unit,        *)
(* several ranges, no dash or no number, and "missing".  Python's int      *)
(* reads a number with a minus sign after the first dash, so that the last *)
(* position may be negative.                                               *)
(***************************************************************************)
EXTENDS Integers

Header ==
  [kind : {"missing", "unusable", "suffix", "open", "closed"}, first : Nat, last : Int]

ByteRange == [start : Nat, end : Nat, total : Nat]

\* None.
NoRange == [start |-> 0, end |-> -1, total |-> 0]

\* The bytes, by position, that a header asks for of a body of this size.
Asked(h, total) ==
  {i \in 0..(total - 1) : \/ h.kind = "suffix" /\ i >= total - h.last
                          \/ h.kind = "open" /\ i >= h.first
                          \/ h.kind = "closed" /\ i >= h.first /\ i <= h.last}

Bytes(r) == r.start..r.end

RangeLength(r) == r.end - r.start + 1

-----------------------------------------------------------------------------
Lesser(a, b) == IF a <= b THEN a ELSE b

\* The end of the function: what is out of the body is no range, and what goes
\* past it is cut.
Clamped(start, end, total) ==
  IF start < 0 \/ end < start \/ start >= total THEN NoRange
  ELSE [start |-> start, end |-> Lesser(end, total - 1), total |-> total]

parse_bytes_range(h, total) ==
  IF total <= 0 \/ h.kind \in {"missing", "unusable"} THEN NoRange
  ELSE IF h.kind = "suffix"
       THEN IF h.last <= 0 THEN NoRange
            ELSE Clamped(IF total - h.last < 0 THEN 0 ELSE total - h.last, total - 1, total)
       ELSE Clamped(h.first, IF h.kind = "open" THEN total - 1 ELSE h.last, total)

\* get_range reads the file again, and refuses or cuts a range on its own.
get_range(start, end, size) ==
  IF start < 0 \/ start >= size THEN {} ELSE start..Lesser(end, size - 1)

\* music_content_stream, once it has an object of this size: the status, the
\* bytes of the body and the length that is announced.
Answer(h, total) ==
  LET br == parse_bytes_range(h, total)
  IN  IF h.kind # "missing" /\ br = NoRange THEN [status |-> 416, body |-> {}, length |-> 0]
      ELSE IF br = NoRange THEN [status |-> 200, body |-> 0..(total - 1), length |-> total]
      ELSE [status |-> 206, body |-> get_range(br.start, br.end, total),
            length |-> RangeLength(br)]

-----------------------------------------------------------------------------
\* A range is found exactly when the header asks for some byte of the body,
\* and it is what the header asks for (parse_bytes_range, 28-60).
ParsedAsAsked(h, total) ==
  LET r == parse_bytes_range(h, total)
  IN  /\ (r = NoRange) = (Asked(h, total) = {})
      /\ r # NoRange => r \in ByteRange /\ Bytes(r) = Asked(h, total) /\ r.total = total

\* The endpoint sends the bytes that were asked for and announces as many as
\* it sends; 416 means that none of the body was asked for (music.py, 188-229).
AnsweredAsAsked(h, total) ==
  LET a == Answer(h, total)
  IN  /\ a.status = 416 => Asked(h, total) = {}
      /\ a.status = 206 => a.body = Asked(h, total) /\ a.length > 0
                           /\ \E k \in 0..(total - 1) : a.body = k..(k + a.length - 1)
      /\ a.status = 200 => a.body = 0..(total - 1) /\ a.length = total
=============================================================================
