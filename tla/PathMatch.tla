----------------------------- MODULE PathMatch -----------------------------
(***************************************************************************)
(* The pattern matcher of match_path.c over sequences of characters, with  *)
(* positions for its pointers.  A class that is negated also accepts the   *)
(* end of the name; what the matcher finds behind it is the argument       *)
(* `beyond'.  What it does at one place depends on what it does further on *)
(* in the pattern, so that it is a recursive function of the place.        *)
(***************************************************************************)
EXTENDS Integers, SequencesExt

CONSTANT Alphabet    \* the characters, in the order of their codes

NUL == "end"
CharAt(text, i) == IF i <= Len(text) THEN text[i] ELSE NUL
Code(c) == IF c = NUL THEN 0 ELSE CHOOSE k \in DOMAIN Alphabet : Alphabet[k] = c

NO_ANCHOR_START == "start"
NO_ANCHOR_END   == "end of pattern"

-----------------------------------------------------------------------------
\* Is c in the class whose items begin at first?  rangeStart is what a `-'
\* refers to.  No class ends with a backslash that escapes nothing.
pm_items(list, first, c) ==
  LET within[at \in (1..(Len(list) + 1)) \X (ToSet(list) \cup {NUL})] ==
        LET i == at[1]
            rangeStart == at[2]
            Escaped(k) == IF k < Len(list) /\ list[k] = "\\" THEN k + 1 ELSE k
            e == Escaped(i + 1)
        IN
        CASE i > Len(list) -> FALSE
          [] i < Len(list) /\ list[i] = "-" /\ rangeStart # NUL ->
               \/ Code(rangeStart) <= Code(c) /\ Code(c) <= Code(list[e])
               \/ within[<<e + 1, NUL>>]
          [] OTHER ->
               LET d == list[Escaped(i)] IN
               d = c \/ within[<<Escaped(i) + 1, IF list[i] = "-" THEN NUL ELSE d>>]
  IN within[<<first, NUL>>]

pm_list(list, c) ==
  IF list # << >> /\ list[1] \in {"!", "^"} THEN ~pm_items(list, 2, c)
                                            ELSE pm_items(list, 1, c)

\* The `]' that ends the class whose text begins at first, or 0.
ClassEnd(p, first) ==
  LET end[i \in first..(Len(p) + 1)] ==
        CASE i > Len(p) -> 0
          [] i <= Len(p) /\ p[i] = "]" -> i
          [] i < Len(p) /\ p[i] = "\\" -> end[i + 2]
          [] OTHER -> end[i + 1]
  IN end[first]

\* The first place from i on that is not among the places given.
After(places, text, i) ==
  CHOOSE k \in i..(Len(text) + 1) : k \notin places /\ i..(k - 1) \subseteq places

Past(c, text, i) == After({k \in DOMAIN text : text[k] = c}, text, i)

pm_slashskip(text, i) ==
  After({k \in DOMAIN text : \/ text[k] = "/"
                             \/ text[k] = "." /\ CharAt(text, k + 1) \in {"/", NUL}},
        text, i)

-----------------------------------------------------------------------------
\* In what follows, loop says of a place further on in the pattern, a place in
\* the name and the flags whether the loop of pm() succeeds from there.
pm(loop, p, i, s, j, flags) ==
  LET Skipped(text, k) == IF CharAt(text, k) = "." /\ CharAt(text, k + 1) = "/"
                            THEN pm_slashskip(text, k + 1) ELSE k
  IN loop[<<Skipped(p, i), Skipped(s, j), flags>>]

\* A `^' anchors what follows it.
Anchored(p, flags, i) ==
  IF CharAt(p, i) = "^" THEN flags \ {NO_ANCHOR_START} ELSE flags

\* Where an unanchored pattern is tried: at the start of each element.
ElementStarts(s, j) ==
  {IF CharAt(s, j) = "/" THEN j + 1 ELSE j}
    \cup {k + 1 : k \in {k \in j..Len(s) : s[k] = "/"}}

pathmatch(loop, p, i, s, j, flags) ==
  LET first == IF CharAt(p, i) = "^" THEN i + 1 ELSE i
      anchors == Anchored(p, flags, i)
  IN
  IF CharAt(p, i) = NUL THEN CharAt(s, j) = NUL
  ELSE IF CharAt(p, first) = "/" /\ CharAt(s, j) # "/" THEN FALSE
  ELSE IF CharAt(p, first) \in {"*", "/"}
    THEN pm(loop, p, Past("/", p, first), s, Past("/", s, j), anchors)
  ELSE IF NO_ANCHOR_START \in anchors
    THEN \E k \in ElementStarts(s, j) : pm(loop, p, first, s, k, anchors)
  ELSE pm(loop, p, first, s, j, anchors)

\* One turn of the loop of pm().
pm_turn(loop, p, i, s, j, flags, beyond) ==
  LET c == CharAt(p, i)
      d == CharAt(s, j)
      Next(i2) == loop[<<i2, j + 1, flags>>]
      NoAnchorEnd == NO_ANCHOR_END \in flags
  IN
  IF c = "*" /\ CharAt(p, Past("*", p, i)) = NUL THEN TRUE
  ELSE IF j > Len(s) + 1 THEN beyond
  ELSE
    CASE c = NUL ->
           \/ d = "/" /\ (NoAnchorEnd \/ CharAt(s, pm_slashskip(s, j)) = NUL)
           \/ d = NUL
      [] c = "?" -> d # NUL /\ Next(i + 1)
      [] c = "*" ->
           \E k \in j..Len(s) : pathmatch(loop, p, Past("*", p, i), s, k, flags)
      [] c = "[" /\ ClassEnd(p, i + 1) # 0 ->
           LET end == ClassEnd(p, i + 1) IN
           pm_list(SubSeq(p, i + 1, end - 1), d) /\ Next(end + 1)
      [] c = "\\" /\ CharAt(p, i + 1) # NUL -> CharAt(p, i + 1) = d /\ Next(i + 2)
      [] c = "/" ->
           LET i2 == pm_slashskip(p, i) IN
           /\ d \in {"/", NUL}
           /\ \/ CharAt(p, i2) = NUL /\ NoAnchorEnd
              \/ loop[<<i2, pm_slashskip(s, j), flags>>]
      [] c = "$" /\ CharAt(p, i + 1) = NUL /\ NoAnchorEnd ->
           CharAt(s, pm_slashskip(s, j)) = NUL
      [] OTHER -> c = d /\ Next(i + 1)

Places(p, s) ==
  (1..(Len(p) + 1)) \X (1..(Len(s) + 2)) \X SUBSET {NO_ANCHOR_START, NO_ANCHOR_END}

pm_loop(p, s, beyond) ==
  LET loop[at \in Places(p, s)] ==
        pm_turn(loop, p, at[1], s, at[2], at[3], beyond)
  IN loop

lafe_pathmatch(p, s, flags, beyond) ==
  pathmatch(pm_loop(p, s, beyond), p, 1, s, 1, flags)
=============================================================================
