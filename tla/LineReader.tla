----------------------------- MODULE LineReader -----------------------------
(***************************************************************************)
(* The reader of pattern files of match_line_reader.c: a buffer that is    *)
(* filled by fread(), grows when a line does not fit, and gives its lines  *)
(* to lafe_include() or lafe_exclude() (Matching).  Positions are offsets. *)
(* It is only ever asked for lines, never for zero-terminated names; a     *)
(* zero byte in the file ends a line all the same.                         *)
(***************************************************************************)
EXTENDS Integers, Sequences

CONSTANTS
  NL, ZERO,      \* a carriage return or line feed; a zero byte
  Closed,        \* the file once its end was met
  BuffLength     \* what buff_length begins with

VARIABLES
  f,             \* what fread() has not returned yet, or Closed
  buff,          \* the buffer up to buff_end
  buff_length,
  line_start, line_end

readerVars == <<f, buff, buff_length, line_start, line_end>>

ReaderInit ==
  /\ f = Closed /\ buff = << >> /\ buff_length = BuffLength
  /\ line_start = 0 /\ line_end = 0

\* lafe_line_reader(): fopen() succeeded.
OpenFile(contents) ==
  /\ f' = contents /\ buff' = << >> /\ buff_length' = BuffLength
  /\ line_start' = 0 /\ line_end' = 0

\* lafe_line_reader_free().
Free ==
  /\ f' = Closed /\ buff' = << >> /\ buff_length' = BuffLength
  /\ line_start' = 0 /\ line_end' = 0

\* find_eol() from an offset: that of the first separator, or the end.
EolFrom(text, offset) ==
  CHOOSE e \in offset..Len(text) :
    /\ \A k \in offset..(e - 1) : text[k + 1] \notin {NL, ZERO}
    /\ e = Len(text) \/ text[e + 1] \in {NL, ZERO}

line == SubSeq(buff, line_start + 1, line_end)

\* A whole line is in the buffer; an empty one is skipped, another returned.
NextLine ==
  /\ line_end < Len(buff)
  /\ line_start' = line_end + 1 /\ line_end' = EolFrom(buff, line_end + 1)
  /\ UNCHANGED <<f, buff, buff_length>>

\* At the end of the file, what has no terminator is a line too.
LastLine ==
  /\ line_end >= Len(buff) /\ f = Closed /\ line_start < Len(buff)
  /\ line_start' = Len(buff)
  /\ UNCHANGED <<f, buff, buff_length, line_end>>

NoMoreText ==
  /\ line_end >= Len(buff) /\ f = Closed /\ line_start = Len(buff)
  /\ Free

\* Mutant: the buffer is not made larger.
LengthKept == buff_length

\* A part of a line moves to the front; one that fills the buffer makes it grow.
LengthNeeded == IF line_start > 0 THEN buff_length ELSE 2 * buff_length

\* Mutant: it is not moved.
KeptNone == << >>
Kept == SubSeq(buff, line_start + 1, Len(buff))

\* find_eol() goes on behind what was scanned, which is all that is kept.
Refill ==
  LET wanted == LengthNeeded - Len(Kept)
      got == IF wanted < Len(f) THEN wanted ELSE Len(f)
      text == Kept \o SubSeq(f, 1, got)
  IN /\ line_end >= Len(buff) /\ f # Closed
     /\ buff_length' = LengthNeeded /\ buff' = text
     /\ line_start' = 0 /\ line_end' = EolFrom(text, Len(Kept))
     /\ f' = IF got < wanted THEN Closed ELSE SubSeq(f, got + 1, Len(f))

\* fread() fails: what was read with it is not looked at.
RefillFails ==
  /\ line_end >= Len(buff) /\ f # Closed
  /\ Free
=============================================================================
