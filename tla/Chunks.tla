------------------------------- MODULE Chunks -------------------------------
(***************************************************************************)
(* The reading of a stored transcript in bounded pieces:                   *)
(* get_chunk_from_transcript and the signed cursor that says where the     *)
(* next piece begins.  Nothing here has a state.                           *)
(*                                                                         *)
(* A transcript is its length in characters and the serialized sizes of    *)
(* its segments; an item, a character or a segment, stands by its          *)
(* position.  A missing text or a missing list is an empty one.            *)
(***************************************************************************)
EXTENDS Naturals, Sequences, FiniteSetsExt

CONSTANTS
  Limit,        \* the largest max_chars a request may ask for (50 000)
  NoCursor

Formats == {"text", "segments"}
Transcript == [chars: Nat, sizes: Seq(Nat \ {0})]
Items(t, format) == IF format = "text" THEN t.chars ELSE Len(t.sizes)

\* The first n positions: the whole of a transcript, when n is its length.
Upto(n) == [i \in 1..n |-> i]

-----------------------------------------------------------------------------
(***************************************************************************)
(* Cursors.  The signature covers the whole payload: one that was made up  *)
(* or altered is not `signed`.                                             *)
(***************************************************************************)
Cursor == [id: STRING, format: Formats, index: Nat, signed: BOOLEAN]

ASSUME ChunksAssumption == Limit \in Nat \ {0} /\ NoCursor \notin Cursor

Encode(id, format, index) ==
  [id |-> id, format |-> format, index |-> index, signed |-> TRUE]

Decodes(cursor) == cursor.signed

\* Mutant of Belongs: the cursor of a text is good for segments.
BelongsToEither(cursor, id, format) ==
  cursor = NoCursor \/ (Decodes(cursor) /\ cursor.id = id)

Belongs(cursor, id, format) ==
  \/ cursor = NoCursor
  \/ Decodes(cursor) /\ cursor.id = id /\ cursor.format = format

Start(cursor) == IF cursor = NoCursor THEN 0 ELSE cursor.index

-----------------------------------------------------------------------------
(***************************************************************************)
(* Where a piece that starts after `index` items ends.                     *)
(***************************************************************************)
Total(sizes, from, to) ==
  LET sum[i \in from..to] == IF i = from THEN 0 ELSE sum[i - 1] + sizes[i]
  IN  sum[to]

\* A slice past the end is empty.
TextEnd(t, index, room) == Max({index, Min({t.chars, index + room})})

\* As many segments as fit, and none that does not.
SegmentsEnd(t, index, room) ==
  Max({index} \union {to \in index..Len(t.sizes) : Total(t.sizes, index, to) <= room})

\* The next segment alone is too large: an empty piece would repeat forever.
Oversized(t, index, room) ==
  index < Len(t.sizes) /\ t.sizes[index + 1] > room

End(t, format, index, room) ==
  IF format = "text" THEN TextEnd(t, index, room) ELSE SegmentsEnd(t, index, room)

\* Mutant of Refuses: a segment that does not fit makes an empty piece.
RefusesNone(t, id, ask) ==
  \/ ask.format \notin Formats
  \/ ask.room \notin 1..Limit
  \/ ~Belongs(ask.cursor, id, ask.format)

\* What ends in RESULT_NOT_FOUND although the transcript is there.
Refuses(t, id, ask) ==
  \/ ask.format \notin Formats
  \/ ask.room \notin 1..Limit
  \/ ~Belongs(ask.cursor, id, ask.format)
  \/ ask.format = "segments" /\ Oversized(t, Start(ask.cursor), ask.room)

Piece(t, id, ask) ==
  LET from == Start(ask.cursor)
      to == End(t, ask.format, from, ask.room)
      done == to >= Items(t, ask.format)
  IN  [items |-> [i \in 1..(to - from) |-> from + i], done |-> done,
       next |-> IF done THEN NoCursor ELSE Encode(id, ask.format, to)]
=============================================================================
