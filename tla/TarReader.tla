----------------------------- MODULE TarReader -----------------------------
(***************************************************************************)
(* What a reader of the stream makes of it: the definition of the format   *)
(* that the writer's output is judged by.  Blocks are records; a reader    *)
(* tells them apart by position only, a header being where one is due.     *)
(***************************************************************************)
EXTENDS TarFormat, Sequences

Zero == [t |-> "zero"]

\* A block made of the end of one and the beginning of another.
Mixed == [t |-> "mixed"]

\* A header announces n blocks of body; "L" and "K" announce n blocks of a long
\* name, of the member or of what it links to, and "x" n blocks of records.
Header(name, type, link, n) ==
  [t |-> "header", name |-> name, type |-> type, link |-> link, n |-> n]
Extension(t, n) == [t |-> t, n |-> n]

\* The i-th block of a long name, of a set of records, or of a body.
Text(of, i) == [t |-> "text", of |-> of, i |-> i]
Data(of, i) == [t |-> "data", of |-> of, i |-> i]

None == "none"
Garbled == "garbled"

\* What a reader knows after some of the blocks: the members, the long names
\* pending for the next one, what is due next, and of an object that is due, which
\* the header at hand announced to have n blocks, how many were read and whose.
Start ==
  [members |-> <<>>, name |-> None, link |-> None, due |-> "header",
   header |-> None, n |-> 0, read |-> 0, of |-> None]

GarbledMember ==
  [name |-> Garbled, type |-> Garbled, link |-> Garbled, body |-> Garbled]

\* A hard link has no body, whatever size its header carries.
BodyLength(h) == IF h.type = "1" THEN 0 ELSE h.n

\* The next member is complete.
Emit(r, h, body) ==
  [Start EXCEPT !.members =
     Append(r.members,
            [name |-> IF r.name = None THEN h.name ELSE r.name,
             type |-> h.type,
             link |-> IF r.link = None THEN h.link ELSE r.link,
             body |-> body])]

\* An object is due, whose n blocks follow its header.
Await(r, due, h, n) ==
  [members |-> r.members, name |-> r.name, link |-> r.link,
   due |-> due, header |-> h, n |-> n, read |-> 0, of |-> None]

ReadHeader(r, b) ==
  CASE b.t = "zero" -> r
    [] b.t \in {"L", "K", "x"} -> Await(r, b.t, b, b.n)
    [] b.t = "header" -> IF BodyLength(b) = 0 THEN Emit(r, b, None)
                         ELSE Await(r, "data", b, b.n)
    [] OTHER -> [r EXCEPT !.members = Append(@, GarbledMember),
                          !.due = "nothing"]

\* The object at hand is complete: a long name is pending, or a member is there.
Pending(r, name, link) ==
  [Start EXCEPT !.members = r.members, !.name = name, !.link = link]

Deliver(r) ==
  CASE r.due = "L" -> Pending(r, r.of, r.link)
    [] r.due = "K" -> Pending(r, r.name, r.of)
    [] r.due = "x" -> Pending(r, r.of[1], r.of[2])
    [] r.due = "data" -> Emit(r, r.header, r.of)

\* An object is spoilt by a block that is not the next one of the same.
Spoilt(due) == IF due = "x" THEN <<Garbled, Garbled>> ELSE Garbled

ReadPayload(r, b) ==
  LET next == /\ b.t = (IF r.due = "data" THEN "data" ELSE "text")
              /\ b.i = r.read + 1
              /\ r.read # 0 => b.of = r.of
      more == [r EXCEPT !.read = @ + 1,
                        !.of = IF next THEN b.of ELSE Spoilt(r.due)]
  IN  IF more.read = r.n THEN Deliver(more) ELSE more

ReadBlock(r, b) ==
  CASE r.due = "header"  -> ReadHeader(r, b)
    [] r.due = "nothing" -> r
    [] OTHER             -> ReadPayload(r, b)

\* What the reader knows after each block of a stream, and after all of them.
Reading(s) ==
  LET after[i \in 0..Len(s)] ==
        IF i = 0 THEN Start ELSE ReadBlock(after[i - 1], s[i])
  IN  after[Len(s)]

\* An object that the end of the stream cuts off belongs to a member of no use.
Members(s) ==
  LET r == Reading(s) IN
  IF r.due \in {"header", "nothing"} THEN r.members
  ELSE Append(r.members, GarbledMember)
=============================================================================
