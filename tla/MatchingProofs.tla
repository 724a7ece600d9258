--------------------------- MODULE MatchingProofs ---------------------------
(***************************************************************************)
(* What pattern files give, what is decided of names, and how inclusions   *)
(* are counted, for all files, patterns and names.                         *)
(***************************************************************************)
EXTENDS Matching, SequenceTheorems, FiniteSetTheorems, WellFoundedInduction,
        TLAPS

\* A set of numbers has a least one.
LEMMA LeastNumber ==
  ASSUME NEW S \in SUBSET Nat, S # {}
  PROVE  \E x \in S : \A y \in S : x <= y
PROOF
<1>1. PICK x \in S : \A y \in S : ~(<<y, x>> \in OpToRel(<, Nat))
  BY NatLessThanWellFounded, WFMin
<1>2. \A y \in S : ~(y < x)
  BY <1>1 DEF OpToRel
<1>3. QED
  BY <1>2

-----------------------------------------------------------------------------
\* The lines that have ended at each of the first n places of a text.
LinesTo(text, n, g) ==
  g = [i \in 0..n |-> IF i = 0 THEN << >> ELSE WithLineTo(i, g[i - 1], text)]

LEMMA LinesToSteps ==
  ASSUME NEW text, NEW n \in Nat, NEW g
  PROVE  LinesTo(text, n, g) <=>
           /\ g = [i \in 0..n |-> g[i]] /\ g[0] = << >>
           /\ \A i \in 1..n : g[i] = WithLineTo(i, g[i - 1], text)
PROOF
<1>1. ASSUME LinesTo(text, n, g)
      PROVE  /\ g = [i \in 0..n |-> g[i]] /\ g[0] = << >>
             /\ \A i \in 1..n : g[i] = WithLineTo(i, g[i - 1], text)
  <2>1. DOMAIN g = 0..n
    BY <1>1 DEF LinesTo
  <2>2. \A i \in 0..n : g[i] = IF i = 0 THEN << >> ELSE WithLineTo(i, g[i - 1], text)
    BY <1>1 DEF LinesTo
  <2>3. g = [i \in 0..n |-> g[i]]
    BY <1>1, <2>1 DEF LinesTo
  <2>4. QED
    BY <2>2, <2>3
<1>2. ASSUME g = [i \in 0..n |-> g[i]], g[0] = << >>,
             \A i \in 1..n : g[i] = WithLineTo(i, g[i - 1], text)
      PROVE  LinesTo(text, n, g)
  <2>1. \A i \in 0..n : g[i] = IF i = 0 THEN << >> ELSE WithLineTo(i, g[i - 1], text)
    <3> TAKE i \in 0..n
    <3>1. CASE i = 0
      BY <3>1, <1>2
    <3>2. CASE i \in 1..n
      BY <3>2, <1>2
    <3>3. QED
      BY <3>1, <3>2
  <2>2. [i \in 0..n |-> g[i]]
          = [i \in 0..n |-> IF i = 0 THEN << >> ELSE WithLineTo(i, g[i - 1], text)]
    BY <2>1
  <2>3. QED
    BY <1>2, <2>2 DEF LinesTo
<1>3. QED
  BY <1>1, <1>2

LEMMA LinesToExist ==
  ASSUME NEW text, NEW n \in Nat
  PROVE  \E g : LinesTo(text, n, g)
PROOF
<1> DEFINE Bad == {m \in Nat : ~\E g : LinesTo(text, m, g)}
<1>1. SUFFICES ASSUME Bad # {} PROVE FALSE
  OBVIOUS
<1>2. PICK m \in Bad : \A y \in Bad : m <= y
  BY <1>1, LeastNumber
<1>3. CASE m = 0
  <2> DEFINE h == [i \in 0..0 |-> << >>]
  <2>1. h = [i \in 0..0 |-> IF i = 0 THEN << >> ELSE WithLineTo(i, h[i - 1], text)]
    OBVIOUS
  <2>2. QED
    BY <1>2, <1>3, <2>1 DEF LinesTo
<1>4. CASE m # 0
  <2>1. m - 1 \in Nat /\ m - 1 \notin Bad
    BY <1>2, <1>4
  <2>2. PICK g : LinesTo(text, m - 1, g)
    BY <2>1
  <2>known. g[0] = << >> /\ \A i \in 1..(m - 1) : g[i] = WithLineTo(i, g[i - 1], text)
    BY <2>1, <2>2, LinesToSteps
  <2> DEFINE h == [i \in 0..m |-> IF i < m THEN g[i] ELSE WithLineTo(m, g[m - 1], text)]
  <2>3. h = [i \in 0..m |-> h[i]]
    OBVIOUS
  <2>4. h[0] = << >>
    BY <2>known, <1>2, <1>4
  <2>5. \A i \in 1..m : h[i] = WithLineTo(i, h[i - 1], text)
    <3> TAKE i \in 1..m
    <3>1. CASE i < m
      <4>1. i \in 1..(m - 1) /\ i \in 0..m /\ i - 1 \in 0..m /\ i - 1 < m
        BY <3>1, <1>2
      <4>2. g[i] = WithLineTo(i, g[i - 1], text)
        BY <4>1, <2>known
      <4>3. h[i] = g[i] /\ h[i - 1] = g[i - 1]
        BY <4>1, <3>1
      <4>4. QED
        BY <4>2, <4>3
    <3>2. CASE i = m
      BY <3>2, <1>2, <1>4
    <3>3. QED
      BY <3>1, <3>2, <1>2
  <2>6. LinesTo(text, m, h)
    <3> HIDE DEF h
    <3> QED BY <2>3, <2>4, <2>5, <1>2, LinesToSteps
  <2>7. QED
    BY <1>2, <2>6
<1>5. QED
  BY <1>3, <1>4

\* The lines of a text are those that have ended at its end.
LinesOf(text, g) ==
  /\ g[0] = << >> /\ g[Len(text)] = RefLines(text)
  /\ \A i \in 1..Len(text) : g[i] = WithLineTo(i, g[i - 1], text)

LEMMA RefLinesKnown ==
  ASSUME NEW text, Len(text) \in Nat
  PROVE  \E g : LinesOf(text, g)
PROOF
<1>1. PICK g : LinesTo(text, Len(text), g)
  BY LinesToExist
<1>2. \E h : h = [i \in 0..Len(text) |->
                    IF i = 0 THEN << >> ELSE WithLineTo(i, h[i - 1], text)]
  BY <1>1 DEF LinesTo
<1>3. \E h : LinesTo(text, Len(text), h) /\ RefLines(text) = h[Len(text)]
  BY <1>2 DEF RefLines, LinesTo
<1>4. QED
  BY <1>3, LinesToSteps DEF LinesOf

LEMMA NoLines == RefLines(<< >>) = << >>
PROOF
<1>1. Len(<< >>) = 0
  BY EmptySeq
<1>2. QED
  BY <1>1, RefLinesKnown DEF LinesOf

-----------------------------------------------------------------------------
\* Where the texts between separators are.
LEMMA LastSeparator ==
  ASSUME NEW S \in SUBSET Int, NEW a \in S, \A x \in S : x <= a
  PROVE  Max(S) = a
PROOF
<1>1. \A y \in S : a >= y
  OBVIOUS
<1>2. \A x \in S : (\A y \in S : x >= y) => x = a
  OBVIOUS
<1>3. QED
  BY <1>1, <1>2 DEF Max

LEMMA TextBetween ==
  ASSUME NEW text, Len(text) \in Nat, NEW g, LinesOf(text, g),
         NEW a \in 0..Len(text), NEW b \in a..Len(text),
         a = 0 \/ IsSeparator(text, a), b = Len(text) \/ IsSeparator(text, b + 1),
         \A i \in (a + 1)..b : ~IsSeparator(text, i)
  PROVE  g[b] = IF a < b THEN Append(g[a], SubSeq(text, a + 1, b)) ELSE g[a]
PROOF
<1>1. CASE a = b
  BY <1>1
<1>2. CASE a < b
  <2> DEFINE Bad == {i \in a..(b - 1) : g[i] # g[a]}
  <2>1. Bad = {}
    <3>1. SUFFICES ASSUME Bad # {} PROVE FALSE
      OBVIOUS
    <3>2. PICK i \in Bad : \A y \in Bad : i <= y
      <4>1. Bad \in SUBSET Nat
        OBVIOUS
      <4>2. QED
        BY <3>1, <4>1, LeastNumber
    <3>3. i \in (a + 1)..(b - 1) /\ i - 1 \in a..(b - 1) /\ i - 1 \notin Bad
      BY <3>2
    <3>4. ~LineEnds(text, i)
      <4>1. i + 1 \in (a + 1)..b /\ i # Len(text)
        BY <3>3
      <4>2. QED
        BY <4>1 DEF LineEnds
    <3>5. g[i] = g[i - 1]
      <4>1. i \in 1..Len(text)
        BY <3>3
      <4>2. QED
        BY <3>4, <4>1 DEF LinesOf, WithLineTo
    <3>6. QED
      BY <3>2, <3>3, <3>5
  <2>2. g[b - 1] = g[a]
    <3>1. b - 1 \in a..(b - 1)
      BY <1>2
    <3>2. QED
      BY <2>1, <3>1
  <2>3. LineEnds(text, b)
    BY <1>2 DEF LineEnds
  <2>4. TextUpTo(text, b) = SubSeq(text, a + 1, b)
    <3> DEFINE S == {0} \cup {k \in 1..b : IsSeparator(text, k)}
    <3>1. S \in SUBSET Int /\ a \in S
      BY <1>2
    <3>2. \A x \in S : x <= a
      <4>1. SUFFICES ASSUME NEW x \in 1..b, IsSeparator(text, x), ~(x <= a) PROVE FALSE
        OBVIOUS
      <4>2. x \in (a + 1)..b
        BY <4>1
      <4>3. QED
        BY <4>1, <4>2
    <3>3. Max(S) = a
      BY <3>1, <3>2, LastSeparator
    <3>4. QED
      BY <3>3 DEF TextUpTo
  <2>5. b \in 1..Len(text)
    BY <1>2
  <2>6. g[b] = WithLineTo(b, g[b - 1], text)
    BY <2>5 DEF LinesOf
  <2>7. QED
    BY <1>2, <2>2, <2>3, <2>4, <2>6 DEF WithLineTo
<1>3. QED
  BY <1>1, <1>2

\* Nothing ends at a separator.
LEMMA PastSeparator ==
  ASSUME NEW text, Len(text) \in Nat, NEW g, LinesOf(text, g),
         NEW i \in 1..Len(text), IsSeparator(text, i)
  PROVE  g[i] = g[i - 1]
BY DEF LinesOf, WithLineTo, LineEnds

\* find_eol() finds the first separator, or the end.
LEMMA EolFound ==
  ASSUME NEW text, Len(text) \in Nat, NEW offset \in 0..Len(text)
  PROVE  LET e == EolFrom(text, offset) IN
         /\ e \in offset..Len(text)
         /\ \A k \in (offset + 1)..e : ~IsSeparator(text, k)
         /\ e = Len(text) \/ IsSeparator(text, e + 1)
PROOF
<1> DEFINE Ends == {e \in offset..Len(text) : e = Len(text) \/ text[e + 1] \in {NL, ZERO}}
<1>1. PICK e \in Ends : \A y \in Ends : e <= y
  <2>1. Ends \in SUBSET Nat /\ Len(text) \in Ends
    OBVIOUS
  <2>2. QED
    BY <2>1, LeastNumber
<1>2. \A k \in offset..(e - 1) : text[k + 1] \notin {NL, ZERO}
  <2> TAKE k \in offset..(e - 1)
  <2>1. k \notin Ends
    BY <1>1
  <2>2. k \in offset..Len(text)
    BY <1>1
  <2>3. QED
    BY <2>1, <2>2
<1>3. e \in offset..Len(text) /\ (e = Len(text) \/ text[e + 1] \in {NL, ZERO})
  BY <1>1
<1> DEFINE Eol(x) == /\ \A k \in offset..(x - 1) : text[k + 1] \notin {NL, ZERO}
                     /\ x = Len(text) \/ text[x + 1] \in {NL, ZERO}
           E == EolFrom(text, offset)
<1>4. \E x \in offset..Len(text) : Eol(x)
  BY <1>2, <1>3
<1>5. E \in offset..Len(text) /\ Eol(E)
  BY <1>4 DEF EolFrom
<1>6. \A k \in (offset + 1)..E : ~IsSeparator(text, k)
  <2> TAKE k \in (offset + 1)..E
  <2>1. k - 1 \in offset..(E - 1) /\ (k - 1) + 1 = k
    BY <1>5
  <2>2. QED
    BY <1>5, <2>1 DEF IsSeparator
<1>7. QED
  BY <1>5, <1>6 DEF IsSeparator

-----------------------------------------------------------------------------
\* What is still to be read, and how much of the file is before the buffer.
Left == IF f = Closed THEN << >> ELSE f
Passed == Len(file) - Len(Left) - Len(buff)

\* The buffer has what follows, and begins with a line, of which line_end is the
\* end or the part that was looked at.
BufferInv ==
  /\ reading \in {"exclusions", "inclusions"} /\ file \in Files
  /\ f = Closed \/ f \in Seq(Characters)
  /\ buff \in Seq(Characters) /\ buff_length \in Nat /\ Len(buff) <= buff_length
  /\ Passed \in Nat
  /\ \A k \in 1..Len(buff) : buff[k] = file[Passed + k]
  /\ \A k \in 1..Len(Left) : Left[k] = file[Passed + Len(buff) + k]
  /\ line_start \in 0..Len(buff) /\ line_end \in line_start..Len(buff)
  /\ \A k \in (line_start + 1)..line_end : ~IsSeparator(buff, k)
  /\ line_end = Len(buff) \/ IsSeparator(buff, line_end + 1)
  /\ \/ f = Closed /\ line_start = Len(buff)
     \/ Passed + line_start = 0
     \/ IsSeparator(file, Passed + line_start)

\* What was given are the lines up to line_start.
LinesInv ==
  IF Idle THEN lines = RefLines(file)
  ELSE BufferInv /\ \E g : LinesOf(file, g) /\ lines = g[Passed + line_start]

LEMMA FileFacts ==
  ASSUME NEW text \in Files
  PROVE  /\ text \in Seq(Characters) /\ Len(text) \in Nat /\ text # Closed
         /\ \E g : LinesOf(text, g)
PROOF
<1>1. text \in Seq(Characters) /\ text # Closed
  BY MatchingAssumption
<1>2. Len(text) \in Nat
  BY <1>1, LenProperties
<1>3. QED
  BY <1>1, <1>2, RefLinesKnown

\* A text of the buffer is one of the file.
LEMMA BufferedText ==
  ASSUME BufferInv, NEW m \in 0..Len(buff), NEW n \in m..Len(buff)
  PROVE  /\ SubSeq(buff, m + 1, n) = SubSeq(file, Passed + m + 1, Passed + n)
         /\ SubSeq(buff, m + 1, n) = << >> <=> m = n
PROOF
<1>1. /\ file \in Seq(Characters) /\ buff \in Seq(Characters) /\ Len(file) \in Nat
      /\ Len(buff) \in Nat /\ Passed \in Nat /\ Left \in Seq(Characters)
      /\ Len(Left) \in Nat /\ Passed + Len(buff) + Len(Left) = Len(file)
  <2>1. file \in Seq(Characters) /\ Len(file) \in Nat
    BY FileFacts DEF BufferInv
  <2>2. Left \in Seq(Characters)
    BY EmptySeq DEF BufferInv, Left
  <2>3. Len(Left) \in Nat /\ Len(buff) \in Nat
    BY <2>2, LenProperties DEF BufferInv
  <2>4. QED
    BY <2>1, <2>2, <2>3 DEF BufferInv, Passed
<1>2. /\ SubSeq(buff, m + 1, n) \in Seq(Characters)
      /\ Len(SubSeq(buff, m + 1, n)) = n - m
      /\ \A k \in 1..(n - m) : SubSeq(buff, m + 1, n)[k] = buff[m + k]
  BY <1>1, SubSeqProperties
<1>3. /\ SubSeq(file, Passed + m + 1, Passed + n) \in Seq(Characters)
      /\ Len(SubSeq(file, Passed + m + 1, Passed + n)) = n - m
      /\ \A k \in 1..(n - m) :
           SubSeq(file, Passed + m + 1, Passed + n)[k] = file[Passed + m + k]
  BY <1>1, SubSeqProperties
<1>4. \A k \in 1..(n - m) : buff[m + k] = file[Passed + m + k]
  <2> TAKE k \in 1..(n - m)
  <2>1. m + k \in 1..Len(buff)
    BY <1>1
  <2>2. QED
    BY <2>1, <1>1 DEF BufferInv
<1>5. SubSeq(buff, m + 1, n) = SubSeq(file, Passed + m + 1, Passed + n)
  <2> DEFINE x == SubSeq(buff, m + 1, n)
             y == SubSeq(file, Passed + m + 1, Passed + n)
  <2>1. \A k \in 1..(n - m) : x[k] = y[k]
    BY <1>2, <1>3, <1>4
  <2> HIDE DEF x, y
  <2>2. x \in Seq(Characters) /\ y \in Seq(Characters) /\ Len(x) = n - m /\ Len(y) = n - m
    BY <1>2, <1>3 DEF x, y
  <2>3. x = y
    BY <2>1, <2>2, SeqEqual
  <2>4. QED
    BY <2>3 DEF x, y
<1>6. SubSeq(buff, m + 1, n) = << >> <=> m = n
  <2> DEFINE x == SubSeq(buff, m + 1, n)
  <2>1. x \in Seq(Characters) /\ Len(x) = n - m
    BY <1>2
  <2> HIDE DEF x
  <2>2. x = << >> <=> Len(x) = 0
    BY <2>1, EmptySeq, ZenonT(30)
  <2>3. n - m = 0 <=> m = n
    BY <1>1
  <2>4. QED
    BY <2>1, <2>2, <2>3 DEF x
<1>7. QED
  BY <1>5, <1>6

\* The lengths and texts that the steps below go by.
LEMMA BufferTypes ==
  ASSUME BufferInv
  PROVE  /\ file \in Seq(Characters) /\ file # Closed /\ Len(file) \in Nat
         /\ Len(buff) \in Nat /\ Passed \in Nat
         /\ Left \in Seq(Characters) /\ Len(Left) \in Nat
         /\ Passed + Len(buff) + Len(Left) = Len(file)
         /\ line_start \in Nat /\ line_end \in Nat
         /\ line_start <= line_end /\ line_end <= Len(buff)
PROOF
<1>1. file \in Seq(Characters) /\ file # Closed /\ Len(file) \in Nat
  BY FileFacts DEF BufferInv
<1>2. Left \in Seq(Characters)
  BY EmptySeq DEF BufferInv, Left
<1>3. Len(Left) \in Nat /\ Len(buff) \in Nat
  BY <1>2, LenProperties DEF BufferInv
<1>4. QED
  BY <1>1, <1>2, <1>3 DEF BufferInv, Passed

\* What has ended at a place of a text are lines of it.
LEMMA LinesGrow ==
  ASSUME NEW text, Len(text) \in Nat, NEW g, LinesOf(text, g), NEW i \in 0..Len(text)
  PROVE  /\ ToSet(g[i]) \subseteq ToSet(RefLines(text))
         /\ \A t : t \in ToSet(Append(g[i], t))
PROOF
<1> DEFINE T == {TextUpTo(text, k) : k \in 1..Len(text)}
           Odd == {k \in 0..Len(text) : g[k] \notin Seq(T)}
<1>1. Odd = {}
  <2>1. SUFFICES ASSUME Odd # {} PROVE FALSE
    OBVIOUS
  <2>2. PICK k \in Odd : \A y \in Odd : k <= y
    <3>1. Odd \in SUBSET Nat
      OBVIOUS
    <3>2. QED
      BY <2>1, <3>1, LeastNumber
  <2>3. k # 0
    BY <2>2, EmptySeq DEF LinesOf
  <2>4. k \in 1..Len(text) /\ k - 1 \in 0..Len(text) /\ k - 1 \notin Odd
    BY <2>2, <2>3
  <2>5. TextUpTo(text, k) \in T /\ g[k - 1] \in Seq(T)
    BY <2>4
  <2>6. g[k] = WithLineTo(k, g[k - 1], text)
    BY <2>4 DEF LinesOf
  <2> HIDE DEF T
  <2>7. Append(g[k - 1], TextUpTo(text, k)) \in Seq(T)
    BY <2>5, AppendProperties
  <2>8. QED
    BY <2>2, <2>5, <2>6, <2>7 DEF WithLineTo
<1> DEFINE Lost == {k \in Nat : k <= Len(text) - i
                       /\ ~(ToSet(g[i]) \subseteq ToSet(g[i + k]))}
<1>2. Lost = {}
  <2>1. SUFFICES ASSUME Lost # {} PROVE FALSE
    OBVIOUS
  <2>2. PICK k \in Lost : \A y \in Lost : k <= y
    <3>1. Lost \in SUBSET Nat
      OBVIOUS
    <3>2. QED
      BY <2>1, <3>1, LeastNumber
  <2>3. k # 0
    BY <2>2
  <2>4. /\ k - 1 \in Nat /\ k - 1 <= Len(text) - i /\ k - 1 \notin Lost
        /\ i + k \in 1..Len(text) /\ i + (k - 1) = (i + k) - 1
        /\ (i + k) - 1 \in 0..Len(text)
    BY <2>2, <2>3
  <2>5. ToSet(g[i]) \subseteq ToSet(g[(i + k) - 1])
    BY <2>4
  <2>6. g[i + k] = WithLineTo(i + k, g[(i + k) - 1], text)
    BY <2>4 DEF LinesOf
  <2>7. g[(i + k) - 1] \in Seq(T)
    BY <1>1, <2>4
  <2>8. ToSet(g[(i + k) - 1]) \subseteq ToSet(g[i + k])
    <3> DEFINE old == g[(i + k) - 1]
    <3>1. TextUpTo(text, i + k) \in T
      BY <2>4
    <3>old. old \in Seq(T)
      BY <2>7
    <3> HIDE DEF T, old
    <3>2. /\ Len(old) \in Nat /\ DOMAIN old = 1..Len(old)
          /\ DOMAIN Append(old, TextUpTo(text, i + k)) = 1..(Len(old) + 1)
          /\ \A j \in 1..Len(old) : Append(old, TextUpTo(text, i + k))[j] = old[j]
      BY <3>1, <3>old, AppendProperties, LenProperties
    <3>3. ToSet(old) \subseteq ToSet(Append(old, TextUpTo(text, i + k)))
      BY <3>2 DEF ToSet
    <3>4. g[i + k] = Append(old, TextUpTo(text, i + k)) \/ g[i + k] = old
      BY <2>6 DEF WithLineTo, old
    <3>5. ToSet(old) \subseteq ToSet(g[i + k])
      BY <3>3, <3>4
    <3>6. QED
      BY <3>5 DEF old
  <2>9. QED
    BY <2>2, <2>5, <2>8
<1>3. Len(text) - i \in Nat /\ i + (Len(text) - i) = Len(text)
  OBVIOUS
<1>4. ToSet(g[i]) \subseteq ToSet(g[Len(text)])
  <2>1. \A k \in Nat : k <= Len(text) - i => ToSet(g[i]) \subseteq ToSet(g[i + k])
    BY <1>2
  <2>2. ToSet(g[i]) \subseteq ToSet(g[i + (Len(text) - i)])
    BY <1>3, <2>1
  <2>3. QED
    BY <1>3, <2>2
<1>5. ASSUME NEW t PROVE t \in ToSet(Append(g[i], t))
  <2> DEFINE U == T \cup {t}
  <2>1. g[i] \in Seq(T) /\ T \subseteq U /\ t \in U
    BY <1>1
  <2> HIDE DEF T, U
  <2>2. g[i] \in Seq(U)
    BY <2>1, SeqMonotonic
  <2>3. Append(g[i], t) \in Seq(U) /\ Len(g[i]) \in Nat
        /\ Len(Append(g[i], t)) = Len(g[i]) + 1 /\ Append(g[i], t)[Len(g[i]) + 1] = t
    BY <2>1, <2>2, AppendProperties, LenProperties
  <2>4. Len(g[i]) + 1 \in DOMAIN Append(g[i], t)
    BY <2>3, LenProperties
  <2>5. QED
    BY <2>3, <2>4 DEF ToSet
<1>6. QED
  BY <1>4, <1>5 DEF LinesOf

\* A line whose end is in the buffer, or that the end of the file ends, is one
\* of the file, and the next after those up to line_start.
LEMMA LineTaken ==
  ASSUME BufferInv, NEW g, LinesOf(file, g),
         ~(f = Closed /\ line_start = Len(buff)),
         line_end < Len(buff) \/ f = Closed
  PROVE  /\ line # << >> <=> line_start < line_end
         /\ g[Passed + line_end] = IF line # << >>
                                     THEN Append(g[Passed + line_start], line)
                                     ELSE g[Passed + line_start]
         /\ line # << >> => line \in ToSet(RefLines(file))
         /\ line_end < Len(buff) => /\ IsSeparator(file, Passed + line_end + 1)
                                    /\ g[Passed + line_end + 1] = g[Passed + line_end]
PROOF
<1> DEFINE a == Passed + line_start
           b == Passed + line_end
<1>types. /\ Len(file) \in Nat /\ Len(buff) \in Nat /\ Passed \in Nat /\ Len(Left) \in Nat
          /\ Passed + Len(buff) + Len(Left) = Len(file)
          /\ line_start \in Nat /\ line_end \in Nat
          /\ line_start <= line_end /\ line_end <= Len(buff)
  BY BufferTypes
<1>1. a \in 0..Len(file) /\ b \in a..Len(file)
  BY <1>types
<1>2. a = 0 \/ IsSeparator(file, a)
  BY DEF BufferInv
<1>same. \A k \in 1..Len(buff) : IsSeparator(buff, k) <=> IsSeparator(file, Passed + k)
  BY DEF BufferInv, IsSeparator
<1>3. ASSUME line_end < Len(buff)
      PROVE  /\ b + 1 \in 1..Len(file) /\ IsSeparator(file, b + 1)
             /\ g[b + 1] = g[b]
  <2>1. line_end + 1 \in 1..Len(buff) /\ IsSeparator(buff, line_end + 1)
    BY <1>3, <1>types DEF BufferInv
  <2>2. IsSeparator(file, Passed + (line_end + 1)) /\ Passed + (line_end + 1) = b + 1
    BY <2>1, <1>same, <1>types
  <2>3. b + 1 \in 1..Len(file) /\ (b + 1) - 1 = b
    BY <2>1, <1>types
  <2>4. g[b + 1] = g[(b + 1) - 1]
    BY <2>2, <2>3, <1>types, PastSeparator
  <2>5. QED
    BY <2>2, <2>3, <2>4
<1>4. b = Len(file) \/ IsSeparator(file, b + 1)
  <2>1. CASE line_end < Len(buff)
    BY <2>1, <1>3
  <2>2. CASE line_end = Len(buff) /\ f = Closed
    <3>1. Len(Left) = 0
      BY <2>2, EmptySeq DEF Left
    <3>2. QED
      BY <2>2, <3>1, <1>types
  <2>3. QED
    BY <2>1, <2>2, <1>types
<1>5. \A i \in (a + 1)..b : ~IsSeparator(file, i)
  <2> TAKE i \in (a + 1)..b
  <2>1. i - Passed \in (line_start + 1)..line_end /\ i - Passed \in 1..Len(buff)
        /\ Passed + (i - Passed) = i
    BY <1>types
  <2>2. ~IsSeparator(buff, i - Passed)
    BY <2>1 DEF BufferInv
  <2>3. QED
    BY <2>1, <2>2, <1>same
<1>6. line = SubSeq(file, a + 1, b) /\ (line = << >> <=> line_start = line_end)
  <2>1. line_start \in 0..Len(buff) /\ line_end \in line_start..Len(buff)
    BY <1>types
  <2>2. /\ line = SubSeq(file, Passed + line_start + 1, Passed + line_end)
        /\ line = << >> <=> line_start = line_end
    <3> HIDE DEF a, b
    <3> QED BY <2>1, BufferedText DEF line
  <2>3. QED
    BY <2>2
<1>7. g[b] = IF a < b THEN Append(g[a], SubSeq(file, a + 1, b)) ELSE g[a]
  <2> HIDE DEF a, b
  <2> QED BY <1>1, <1>2, <1>4, <1>5, <1>types, TextBetween
<1>8. line # << >> <=> line_start < line_end
  BY <1>6, <1>types
<1>9. g[b] = IF line # << >> THEN Append(g[a], line) ELSE g[a]
  <2>1. CASE line_start < line_end
    <3>1. a < b
      BY <2>1, <1>types
    <3>2. line = SubSeq(file, a + 1, b) /\ line # << >>
      BY <2>1, <1>6, <1>8
    <3> HIDE DEF a, b
    <3>3. QED
      BY <3>1, <3>2, <1>7
  <2>2. CASE ~(line_start < line_end)
    <3>1. line = << >> /\ a = b
      BY <2>2, <1>8, <1>types
    <3>2. QED
      BY <3>1
  <2>3. QED
    BY <2>1, <2>2
<1>10. ASSUME line # << >> PROVE line \in ToSet(RefLines(file))
  <2>1. g[b] = Append(g[a], line)
    BY <1>9, <1>10
  <2>2. line \in ToSet(Append(g[a], line))
    BY <1>1, <1>types, LinesGrow
  <2>3. ToSet(g[b]) \subseteq ToSet(RefLines(file))
    BY <1>1, <1>types, LinesGrow
  <2>4. QED
    BY <2>1, <2>2, <2>3
<1>11. QED
  BY <1>3, <1>8, <1>9, <1>10


-----------------------------------------------------------------------------
\* The steps of reading a file.
LEMMA Opened ==
  ASSUME NEW list \in {"exclusions", "inclusions"}, NEW contents \in Files,
         ReadFile(list, contents)
  PROVE  LinesInv'
PROOF
<1>1. /\ f' = contents /\ buff' = << >> /\ buff_length' = BuffLength
      /\ line_start' = 0 /\ line_end' = 0
      /\ reading' = list /\ file' = contents /\ lines' = << >>
  BY DEF ReadFile, OpenFile
<1>2. contents \in Seq(Characters) /\ Len(contents) \in Nat /\ contents # Closed
  BY FileFacts
<1>3. Len(buff') = 0 /\ buff' \in Seq(Characters)
  BY <1>1, EmptySeq
<1>4. Left' = contents /\ Passed' = 0
  BY <1>1, <1>2, <1>3 DEF Left, Passed
<1>5. BufferInv'
  <2>1. BuffLength \in Nat
    BY MatchingAssumption
  <2>2. \A k \in 1..Len(Left)' : Left'[k] = file'[Passed' + Len(buff') + k]
    BY <1>1, <1>2, <1>3, <1>4
  <2>3. QED
    BY <1>1, <1>2, <1>3, <1>4, <2>1, <2>2 DEF BufferInv
<1>6. PICK g : LinesOf(contents, g)
  BY FileFacts
<1>7. LinesOf(file', g) /\ lines' = g[Passed' + line_start']
  BY <1>1, <1>4, <1>6 DEF LinesOf
<1>8. ~Idle'
  BY <1>1 DEF Idle
<1>9. QED
  BY <1>5, <1>7, <1>8 DEF LinesInv

LEMMA LineRead ==
  ASSUME LinesInv, ReadLine
  PROVE  LinesInv'
PROOF
<1>1. /\ ~Idle /\ BufferInv /\ line_end < Len(buff)
      /\ line_start' = line_end + 1 /\ line_end' = EolFrom(buff, line_end + 1)
      /\ f' = f /\ buff' = buff /\ buff_length' = buff_length
      /\ reading' = reading /\ file' = file
      /\ lines' = IF line # << >> THEN Append(lines, line) ELSE lines
  BY DEF ReadLine, NextLine, TakeLine, Rest, LinesInv
<1>2. PICK g : LinesOf(file, g) /\ lines = g[Passed + line_start]
  BY <1>1 DEF LinesInv
<1>types. /\ Len(file) \in Nat /\ Len(buff) \in Nat /\ Passed \in Nat
          /\ line_start \in Nat /\ line_end \in Nat /\ line_start <= line_end
  BY <1>1, BufferTypes
<1>3. Left' = Left /\ Passed' = Passed
  BY <1>1 DEF Left, Passed
<1>4. /\ IsSeparator(file, Passed + line_end + 1)
      /\ g[Passed + line_end + 1] = IF line # << >> THEN Append(lines, line) ELSE lines
  <2>1. ~(f = Closed /\ line_start = Len(buff))
    BY <1>1, <1>types
  <2>2. QED
    BY <1>1, <1>2, <2>1, LineTaken
<1>5. /\ line_end' \in (line_end + 1)..Len(buff)
      /\ \A k \in (line_end + 2)..line_end' : ~IsSeparator(buff, k)
      /\ line_end' = Len(buff) \/ IsSeparator(buff, line_end' + 1)
  <2>1. line_end + 1 \in 0..Len(buff) /\ (line_end + 1) + 1 = line_end + 2
    BY <1>1, <1>types
  <2>2. QED
    BY <1>1, <1>types, <2>1, EolFound
<1>6. Passed' + line_start' = Passed + line_end + 1 /\ line_start' + 1 = line_end + 2
  BY <1>1, <1>3, <1>types
<1>7. BufferInv'
  <2>1. IsSeparator(file', Passed' + line_start')
    BY <1>1, <1>4, <1>6 DEF IsSeparator
  <2>2. /\ line_start' \in 0..Len(buff') /\ line_end' \in line_start'..Len(buff')
        /\ \A k \in (line_start' + 1)..line_end' : ~IsSeparator(buff', k)
        /\ line_end' = Len(buff') \/ IsSeparator(buff', line_end' + 1)
    BY <1>1, <1>5, <1>6, <1>types
  <2>3. QED
    BY <1>1, <1>3, <2>1, <2>2 DEF BufferInv, IsSeparator
<1>8. LinesOf(file', g) /\ lines' = g[Passed' + line_start']
  BY <1>1, <1>2, <1>4, <1>6 DEF LinesOf
<1>9. QED
  BY <1>1, <1>7, <1>8 DEF LinesInv, Idle

LEMMA LastLineRead ==
  ASSUME LinesInv, ReadLastLine
  PROVE  LinesInv'
PROOF
<1>1. /\ ~Idle /\ BufferInv /\ line_end >= Len(buff) /\ f = Closed
      /\ line_start < Len(buff) /\ line_start' = Len(buff) /\ line_end' = line_end
      /\ f' = f /\ buff' = buff /\ buff_length' = buff_length
      /\ reading' = reading /\ file' = file
      /\ lines' = Append(lines, SubSeq(buff, line_start + 1, Len(buff)))
  BY DEF ReadLastLine, LastLine, TakeLine, Rest, LinesInv
<1>2. PICK g : LinesOf(file, g) /\ lines = g[Passed + line_start]
  BY <1>1 DEF LinesInv
<1>types. /\ Len(file) \in Nat /\ Len(buff) \in Nat /\ Passed \in Nat
          /\ line_start \in Nat /\ line_end = Len(buff)
  BY <1>1, BufferTypes
<1>3. Left' = Left /\ Passed' = Passed
  BY <1>1 DEF Left, Passed
<1>4. g[Passed + line_end] = lines'
  <2>1. ~(f = Closed /\ line_start = Len(buff)) /\ line_start < line_end
    BY <1>1, <1>types
  <2>2. line # << >> /\ g[Passed + line_end] = Append(lines, line)
    BY <1>1, <1>2, <2>1, LineTaken
  <2>3. QED
    BY <1>1, <1>types, <2>2 DEF line
<1>5. BufferInv'
  <2>1. /\ line_start' \in 0..Len(buff') /\ line_end' \in line_start'..Len(buff')
        /\ \A k \in (line_start' + 1)..line_end' : ~IsSeparator(buff', k)
        /\ line_end' = Len(buff')
    BY <1>1, <1>types
  <2>2. QED
    BY <1>1, <1>3, <2>1 DEF BufferInv
<1>6. LinesOf(file', g) /\ lines' = g[Passed' + line_start']
  BY <1>1, <1>2, <1>3, <1>4, <1>types DEF LinesOf
<1>7. QED
  BY <1>1, <1>5, <1>6 DEF LinesInv, Idle

LEMMA EndMet ==
  ASSUME LinesInv, EndOfFile
  PROVE  LinesInv'
PROOF
<1>1. /\ ~Idle /\ BufferInv /\ f = Closed /\ line_start = Len(buff)
      /\ reading' = "none" /\ file' = file /\ lines' = lines
  BY DEF EndOfFile, NoMoreText, LinesInv
<1>2. PICK g : LinesOf(file, g) /\ lines = g[Passed + line_start]
  BY <1>1 DEF LinesInv
<1>3. Passed + line_start = Len(file)
  BY <1>1, BufferTypes, EmptySeq DEF Left
<1>4. lines = RefLines(file)
  BY <1>2, <1>3 DEF LinesOf
<1>5. QED
  BY <1>1, <1>4 DEF LinesInv, Idle

\* What is kept goes before what is read, and the buffer holds both.
LEMMA Refilled ==
  ASSUME LinesInv, ReadMore
  PROVE  LinesInv'
PROOF
<1> DEFINE wanted == LengthNeeded - Len(Kept)
           got == IF wanted < Len(f) THEN wanted ELSE Len(f)
           more == SubSeq(f, 1, got)
<1>1. /\ ~Idle /\ BufferInv /\ line_end >= Len(buff) /\ f # Closed
      /\ buff_length' = LengthNeeded /\ buff' = Kept \o more
      /\ line_start' = 0 /\ line_end' = EolFrom(buff', Len(Kept))
      /\ f' = IF got < wanted THEN Closed ELSE SubSeq(f, got + 1, Len(f))
      /\ reading' = reading /\ file' = file /\ lines' = lines
  BY DEF ReadMore, Refill, Rest, LinesInv
<1>2. PICK g : LinesOf(file, g) /\ lines = g[Passed + line_start]
  BY <1>1 DEF LinesInv
<1>types. /\ Len(file) \in Nat /\ Len(buff) \in Nat /\ Passed \in Nat
          /\ Passed + Len(buff) + Len(f) = Len(file) /\ Len(f) \in Nat
          /\ line_start \in Nat /\ line_end = Len(buff) /\ line_start <= Len(buff)
          /\ f \in Seq(Characters) /\ buff \in Seq(Characters)
          /\ buff_length \in Nat /\ Len(buff) <= buff_length
  BY <1>1, BufferTypes DEF Left, BufferInv
<1>3. /\ Kept \in Seq(Characters) /\ Len(Kept) = Len(buff) - line_start
      /\ \A k \in 1..(Len(buff) - line_start) : Kept[k] = buff[line_start + k]
  <2>1. \A i \in (line_start + 1)..Len(buff) : buff[i] \in Characters
    BY <1>types, ElementOfSeq
  <2>2. line_start + 1 \in Int /\ Len(buff) \in Int /\ line_start + 1 >= 1
        /\ Len(buff) - (line_start + 1) + 1 = Len(buff) - line_start
        /\ Len(buff) - line_start \in Nat
    BY <1>types
  <2>3. Kept = SubSeq(buff, line_start + 1, Len(buff))
    BY DEF Kept
  <2>4. QED
    BY <1>types, <2>1, <2>2, <2>3, SubSeqProperties, SMTT(30)
<1>4. /\ LengthNeeded \in Nat /\ wanted \in Nat
      /\ Len(Kept) + wanted = LengthNeeded
  BY <1>types, <1>3 DEF LengthNeeded
<1>5. got \in 0..Len(f) /\ got <= wanted /\ (got < wanted => got = Len(f))
  BY <1>types, <1>4
<1> HIDE DEF wanted, got
<1>6. /\ more \in Seq(Characters) /\ Len(more) = got
      /\ \A k \in 1..got : more[k] = f[k]
  <2>1. \A i \in 1..got : f[i] \in Characters
    BY <1>types, <1>5, ElementOfSeq
  <2>2. QED
    BY <1>5, <2>1, SubSeqProperties
<1> HIDE DEF more
<1>7. /\ buff' \in Seq(Characters) /\ Len(buff') = Len(Kept) + got
      /\ \A k \in 1..Len(buff') : buff'[k] = IF k <= Len(Kept) THEN Kept[k]
                                             ELSE more[k - Len(Kept)]
  <2>1. /\ Kept \o more \in Seq(Characters) /\ Len(Kept \o more) = Len(Kept) + Len(more)
        /\ \A k \in 1..(Len(Kept) + Len(more)) :
             (Kept \o more)[k] = IF k <= Len(Kept) THEN Kept[k] ELSE more[k - Len(Kept)]
    BY <1>3, <1>6, ConcatProperties
  <2>2. QED
    BY <1>1, <1>6, <2>1
<1>8. /\ Left' \in Seq(Characters) /\ Len(Left') = Len(f) - got
      /\ \A k \in 1..Len(Left') : Left'[k] = f[got + k]
      /\ f' = Closed \/ f' \in Seq(Characters)
  <2>1. CASE got < wanted
    <3>1. Left' = << >> /\ f' = Closed
      BY <1>1, <2>1 DEF Left
    <3>2. QED
      BY <2>1, <3>1, <1>5, <1>types, EmptySeq
  <2>2. CASE ~(got < wanted)
    <3>1. \A i \in (got + 1)..Len(f) : f[i] \in Characters
      BY <1>types, <1>5, ElementOfSeq
    <3>2. /\ f' \in Seq(Characters) /\ Len(f') = Len(f) - got
          /\ \A k \in 1..(Len(f) - got) : f'[k] = f[got + k]
      BY <1>1, <2>2, <3>1, <1>5, <1>types, SubSeqProperties
    <3>3. f' # Closed
      BY <3>2, MatchingAssumption
    <3>4. Left' = f'
      BY <3>3 DEF Left
    <3>5. QED
      BY <3>2, <3>4
  <2>3. QED
    BY <2>1, <2>2
<1>9. Passed' = Passed + line_start
  <2>1. Passed' = Len(file) - Len(Left') - Len(buff')
    BY <1>1 DEF Passed
  <2>2. Len(Left') = Len(f) - got /\ Len(buff') = (Len(buff) - line_start) + got
    BY <1>3, <1>7, <1>8
  <2>3. /\ Len(file) \in Nat /\ Len(buff) \in Nat /\ line_start \in Nat /\ got \in Nat
        /\ Passed \in Nat /\ Len(f) \in Nat /\ Passed = Len(file) - Len(buff) - Len(f)
    BY <1>5, <1>types
  <2>4. QED
    BY <2>1, <2>2, <2>3, SMTT(30)
<1>old. \A k \in 1..Len(buff) : buff[k] = file[Passed + k]
  BY <1>1 DEF BufferInv
<1>next. \A k \in 1..Len(f) : f[k] = file[Passed + Len(buff) + k]
  BY <1>1 DEF BufferInv, Left
<1>10. \A k \in 1..Len(buff') : buff'[k] = file[Passed' + k]
  <2> TAKE k \in 1..Len(buff')
  <2>1. CASE k <= Len(Kept)
    <3>1. /\ k \in 1..(Len(buff) - line_start) /\ line_start + k \in 1..Len(buff)
          /\ Passed + (line_start + k) = Passed' + k
      BY <2>1, <1>3, <1>7, <1>9, <1>types
    <3>2. buff'[k] = buff[line_start + k]
      BY <2>1, <3>1, <1>3, <1>7
    <3>3. QED
      BY <3>1, <3>2, <1>old
  <2>2. CASE ~(k <= Len(Kept))
    <3>1. /\ k - Len(Kept) \in 1..got /\ k - Len(Kept) \in 1..Len(f)
          /\ Passed + Len(buff) + (k - Len(Kept)) = Passed' + k
      BY <2>2, <1>3, <1>5, <1>7, <1>9, <1>types
    <3>2. buff'[k] = f[k - Len(Kept)]
      BY <2>2, <3>1, <1>6, <1>7
    <3>3. QED
      BY <3>1, <3>2, <1>next
  <2>3. QED
    BY <2>1, <2>2
<1>11. \A k \in 1..Len(Left') : Left'[k] = file[Passed' + Len(buff') + k]
  <2> TAKE k \in 1..Len(Left')
  <2>1. got + k \in 1..Len(f) /\ Passed + Len(buff) + (got + k) = Passed' + Len(buff') + k
    BY <1>3, <1>5, <1>7, <1>8, <1>9, <1>types
  <2>2. QED
    BY <2>1, <1>8, <1>next
<1>12. /\ line_end' \in Len(Kept)..Len(buff')
       /\ \A k \in (Len(Kept) + 1)..line_end' : ~IsSeparator(buff', k)
       /\ line_end' = Len(buff') \/ IsSeparator(buff', line_end' + 1)
  <2>1. Len(buff') \in Nat /\ Len(Kept) \in 0..Len(buff')
    BY <1>3, <1>5, <1>7, <1>types
  <2>2. QED
    BY <1>1, <2>1, EolFound
<1>13. \A k \in 1..line_end' : ~IsSeparator(buff', k)
  <2> TAKE k \in 1..line_end'
  <2>1. CASE k <= Len(Kept)
    <3>1. /\ k \in 1..Len(buff') /\ line_start + k \in (line_start + 1)..line_end
          /\ k \in 1..(Len(buff) - line_start)
      BY <2>1, <1>3, <1>5, <1>7, <1>12, <1>types
    <3>2. ~IsSeparator(buff, line_start + k)
      BY <3>1, <1>1 DEF BufferInv
    <3>3. buff'[k] = buff[line_start + k]
      BY <2>1, <3>1, <1>3, <1>7
    <3>4. QED
      BY <3>2, <3>3 DEF IsSeparator
  <2>2. CASE ~(k <= Len(Kept))
    <3>1. k \in (Len(Kept) + 1)..line_end'
      BY <2>2, <1>3, <1>12, <1>types
    <3>2. QED
      BY <3>1, <1>12
  <2>3. QED
    BY <2>1, <2>2
<1>14. Passed' + line_start' = 0 \/ IsSeparator(file', Passed' + line_start')
  <2>1. Passed + line_start = 0 \/ IsSeparator(file, Passed + line_start)
    BY <1>1 DEF BufferInv
  <2>2. Passed' + line_start' = Passed + line_start
    BY <1>1, <1>9, <1>types
  <2>3. QED
    BY <1>1, <2>1, <2>2 DEF IsSeparator
<1>15. BufferInv'
  <2>1. /\ Len(buff') <= buff_length' /\ buff_length' \in Nat /\ Passed' \in Nat
        /\ line_start' \in 0..Len(buff') /\ line_end' \in line_start'..Len(buff')
        /\ line_start' + 1 = 1
    <3>1. Len(buff') = Len(Kept) + got /\ Len(Kept) = Len(buff) - line_start
      BY <1>3, <1>7
    <3>2. line_start' = 0 /\ buff_length' = LengthNeeded
          /\ line_end' \in Len(Kept)..Len(buff')
      BY <1>1, <1>12
    <3>3. /\ Len(Kept) \in Nat /\ got \in Nat /\ LengthNeeded \in Nat
          /\ Len(Kept) + got <= LengthNeeded
      BY <3>1, <1>4, <1>5, <1>types
    <3>4. Passed' \in Nat
      BY <1>9, <1>types
    <3>5. QED
      BY <3>1, <3>2, <3>3, <3>4, SMTT(30)
  <2>2. reading' \in {"exclusions", "inclusions"} /\ file' \in Files
    BY <1>1 DEF BufferInv
  <2>3. \A k \in (line_start' + 1)..line_end' : ~IsSeparator(buff', k)
    BY <2>1, <1>13
  <2>4. QED
    BY <1>1, <1>7, <1>8, <1>10, <1>11, <1>12, <1>14, <2>1, <2>2, <2>3 DEF BufferInv, IsSeparator
<1>16. LinesOf(file', g) /\ lines' = g[Passed' + line_start']
  BY <1>1, <1>2, <1>9, <1>types DEF LinesOf
<1>17. QED
  BY <1>1, <1>15, <1>16 DEF LinesInv, Idle

\* A file that was read to its end gave its lines, each once and whole.
LEMMA LinesKept ==
  ASSUME LinesInv, [Next]_vars
  PROVE  LinesInv'
PROOF
<1>1. CASE \E list \in {"exclusions", "inclusions"}, contents \in Files :
             ReadFile(list, contents)
  BY <1>1, Opened
<1>2. CASE \E list \in {"exclusions", "inclusions"}, pattern \in Patterns \cup Companions :
             AddPattern(list, pattern)
  <2>1. Idle' /\ lines' = << >> /\ file' = << >>
    BY <1>2 DEF AddPattern, Forget, Idle
  <2>2. QED
    BY <2>1, NoLines DEF LinesInv
<1>3. CASE ReadLine
  BY <1>3, LineRead
<1>4. CASE ReadLastLine
  BY <1>4, LastLineRead
<1>5. CASE ReadMore
  BY <1>5, Refilled
<1>6. CASE EndOfFile
  BY <1>6, EndMet
<1>7. CASE ReadFails
  <2>1. Idle' /\ lines' = << >> /\ file' = << >>
    BY <1>7 DEF ReadFails, Forget, Idle
  <2>2. QED
    BY <2>1, NoLines DEF LinesInv
<1>8. CASE (\E name \in Names : Ask(name)) \/ Cleanup
  <2>1. Idle' /\ lines' = << >> /\ file' = << >>
    BY <1>8 DEF Ask, Cleanup, Forget, Idle
  <2>2. QED
    BY <2>1, NoLines DEF LinesInv
<1>9. CASE UNCHANGED vars
  <2>1. /\ f' = f /\ buff' = buff /\ buff_length' = buff_length
        /\ line_start' = line_start /\ line_end' = line_end
        /\ reading' = reading /\ file' = file /\ lines' = lines
    BY <1>9 DEF vars, readerVars
  <2>2. Passed' = Passed /\ Left' = Left /\ (Idle' <=> Idle)
    BY <2>1 DEF Passed, Left, Idle
  <2>3. (\E g : LinesOf(file, g) /\ lines = g[Passed + line_start])
          => (\E g : LinesOf(file', g) /\ lines' = g[Passed' + line_start'])
    BY <2>1, <2>2 DEF LinesOf
  <2>4. BufferInv => BufferInv'
    BY <2>1, <2>2 DEF BufferInv, IsSeparator
  <2>5. QED
    BY <2>1, <2>2, <2>3, <2>4 DEF LinesInv
<1>10. QED
  BY <1>1, <1>2, <1>3, <1>4, <1>5, <1>6, <1>7, <1>8, <1>9 DEF Next, ReaderStep

\* However a pattern file falls on the fillings of the buffer, reading it to its
\* end gives its lines, each once, whole and in their order (LinesRead).
THEOREM LinesReadHolds == Spec => []LinesRead
PROOF
<1>1. Init => LinesInv
  BY NoLines DEF Init, LinesInv, Idle
<1>2. LinesInv /\ [Next]_vars => LinesInv'
  BY LinesKept
<1>3. LinesInv => LinesRead
  BY DEF LinesInv, LinesRead
<1>4. QED
  BY <1>1, <1>2, <1>3, PTL DEF Spec

-----------------------------------------------------------------------------
\* What the lists keep.
Entries ==
  {entry \in [pattern : {Stripped(given) : given \in Given}, matches : BOOLEAN,
              given : Given, asked : SUBSET Names] :
     entry.pattern = Stripped(entry.given)}

Unmatched == {i \in DOMAIN inclusions : ~inclusions[i].matches}

ListsTyped ==
  /\ exclusions \in Seq(Entries) /\ inclusions \in Seq(Entries)
  /\ inclusions_unmatched_count = Cardinality(Unmatched)
  /\ overrun \in BOOLEAN

\* What the matcher says of a pattern as it was given, and of a name by the lists,
\* as long as neither counts on what is behind the end of the name.
Matched(given, name, anchored) ==
  lafe_pathmatch(Stripped(given), name,
                 IF anchored THEN {NO_ANCHOR_END} ELSE {NO_ANCHOR_START, NO_ANCHOR_END}, FALSE)

LeftOut(name) ==
  \/ \E i \in DOMAIN exclusions : Matched(exclusions[i].given, name, FALSE)
  \/ /\ inclusions # << >>
     /\ \A i \in DOMAIN inclusions : ~Matched(inclusions[i].given, name, TRUE)

\* An inclusion has matched if it matches one of the names asked about since it
\* was added, unless that may have counted on what is behind a name.
ListsInv ==
  /\ ListsTyped
  /\ ~overrun =>
       \A i \in DOMAIN inclusions :
         inclusions[i].matches
           <=> \E name \in inclusions[i].asked : Matched(inclusions[i].given, name, TRUE)

\* Putting an element before the others moves them up by one.
LEMMA Shifted ==
  ASSUME NEW S \in SUBSET Nat, IsFiniteSet(S)
  PROVE  /\ IsFiniteSet({i + 1 : i \in S})
         /\ Cardinality({i + 1 : i \in S}) = Cardinality(S)
PROOF
<1> DEFINE T == {i + 1 : i \in S}
           h == [i \in S |-> i + 1]
<1>1. h \in [S -> T] /\ \A t \in T : \E i \in S : h[i] = t
  OBVIOUS
<1>2. h \in Surjection(S, T)
  BY <1>1 DEF Surjection
<1>3. \A i, j \in S : h[i] = h[j] => i = j
  OBVIOUS
<1>4. h \in Injection(S, T)
  BY <1>1, <1>3 DEF Injection, IsInjective
<1>5. QED
  BY <1>2, <1>4, FS_Surjection

LEMMA UnmatchedFinite ==
  ASSUME inclusions \in Seq(Entries)
  PROVE  /\ Unmatched \in SUBSET Nat /\ IsFiniteSet(Unmatched)
         /\ Cardinality(Unmatched) \in Nat
PROOF
<1>1. DOMAIN inclusions = 1..Len(inclusions) /\ Len(inclusions) \in Nat
  BY LenProperties
<1>2. IsFiniteSet(1..Len(inclusions)) /\ Unmatched \in SUBSET (1..Len(inclusions))
  BY <1>1, FS_Interval DEF Unmatched
<1>3. IsFiniteSet(Unmatched)
  BY <1>2, FS_Subset
<1>4. Unmatched \in SUBSET Nat
  BY <1>1, <1>2
<1>5. QED
  BY <1>3, <1>4, FS_CardinalityType

\* What add_pattern() does to a list.
LEMMA PatternAdded ==
  ASSUME NEW list \in Seq(Entries), NEW given \in Given
  PROVE  LET added == add_pattern(list, given) IN
         /\ added \in Seq(Entries) /\ DOMAIN added = 1..(Len(list) + 1)
         /\ Len(list) \in Nat /\ DOMAIN list = 1..Len(list)
         /\ ~added[1].matches /\ added[1].asked = {}
         /\ \A i \in 1..Len(list) : added[i + 1] = list[i]
PROOF
<1> DEFINE new == [pattern |-> Stripped(given), matches |-> FALSE,
                   given |-> given, asked |-> {}]
<1>1. new \in Entries /\ new.asked = {} /\ ~new.matches
  BY DEF Entries
<1> HIDE DEF new
<1>2. <<new>> \in Seq(Entries) /\ Len(<<new>>) = 1 /\ <<new>>[1] = new
  BY <1>1
<1>3. /\ <<new>> \o list \in Seq(Entries) /\ Len(<<new>> \o list) = 1 + Len(list)
      /\ \A i \in 1..(1 + Len(list)) :
           (<<new>> \o list)[i] = IF i <= 1 THEN <<new>>[1] ELSE list[i - 1]
  BY <1>2, ConcatProperties
<1>4. /\ Len(list) \in Nat /\ DOMAIN list = 1..Len(list)
      /\ DOMAIN (<<new>> \o list) = 1..(Len(list) + 1)
  BY <1>3, LenProperties
<1>5. (<<new>> \o list)[1] = new
  BY <1>2, <1>3, <1>4
<1>6. ASSUME NEW i \in 1..Len(list) PROVE (<<new>> \o list)[i + 1] = list[i]
  <2>1. i + 1 \in 1..(1 + Len(list)) /\ ~(i + 1 <= 1) /\ (i + 1) - 1 = i
    BY <1>4
  <2>2. QED
    BY <2>1, <1>3
<1>7. add_pattern(list, given) = <<new>> \o list
  BY DEF add_pattern, new
<1>8. QED
  BY <1>1, <1>3, <1>4, <1>5, <1>6, <1>7

LEMMA ListsExtended ==
  ASSUME ListsTyped, NEW list, NEW given \in Given, AddTo(list, given), overrun' = overrun
  PROVE  ListsTyped' /\ (ListsInv => ListsInv')
PROOF
<1>1. CASE lafe_exclude(given)
  <2>1. /\ exclusions' = add_pattern(exclusions, given) /\ inclusions' = inclusions
        /\ inclusions_unmatched_count' = inclusions_unmatched_count
    BY <1>1 DEF lafe_exclude
  <2>2. exclusions' \in Seq(Entries)
    BY <2>1, PatternAdded DEF ListsTyped
  <2>3. QED
    BY <2>1, <2>2 DEF ListsInv, ListsTyped, Unmatched
<1>2. CASE lafe_include(given)
  <2>1. /\ inclusions' = add_pattern(inclusions, given) /\ exclusions' = exclusions
        /\ inclusions_unmatched_count' = inclusions_unmatched_count + 1
    BY <1>2 DEF lafe_include
  <2>2. /\ inclusions' \in Seq(Entries) /\ DOMAIN inclusions' = 1..(Len(inclusions) + 1)
        /\ Len(inclusions) \in Nat /\ DOMAIN inclusions = 1..Len(inclusions)
        /\ ~inclusions'[1].matches /\ inclusions'[1].asked = {}
        /\ \A i \in 1..Len(inclusions) : inclusions'[i + 1] = inclusions[i]
    BY <2>1, PatternAdded DEF ListsTyped
  <2>3. \A i \in DOMAIN inclusions' :
          \/ i = 1
          \/ i - 1 \in DOMAIN inclusions /\ inclusions'[i] = inclusions[i - 1]
    <3> TAKE i \in DOMAIN inclusions'
    <3>1. i = 1 \/ (i - 1 \in 1..Len(inclusions) /\ (i - 1) + 1 = i)
      BY <2>2
    <3>2. ASSUME i - 1 \in 1..Len(inclusions), (i - 1) + 1 = i
          PROVE  i - 1 \in DOMAIN inclusions /\ inclusions'[i] = inclusions[i - 1]
      <4>1. inclusions'[(i - 1) + 1] = inclusions[i - 1]
        BY <3>2, <2>2
      <4>2. inclusions'[i] = inclusions[i - 1]
        BY <3>2, <4>1
      <4>3. i - 1 \in DOMAIN inclusions
        BY <3>2, <2>2
      <4>4. QED
        BY <4>2, <4>3
    <3>3. QED
      BY <3>1, <3>2
  <2>4. Unmatched' = {i + 1 : i \in Unmatched} \cup {1}
    <3>1. ASSUME NEW i \in Unmatched' PROVE i \in {k + 1 : k \in Unmatched} \cup {1}
      <4>1. CASE i = 1
        BY <4>1
      <4>2. CASE i # 1
        <5>1. i \in Nat /\ i - 1 \in Unmatched /\ (i - 1) + 1 = i
          BY <4>2, <2>2, <2>3 DEF Unmatched
        <5>2. QED
          BY <5>1
      <4>3. QED
        BY <4>1, <4>2
    <3>2. ASSUME NEW i \in Unmatched PROVE i + 1 \in Unmatched'
      <4>1. i \in 1..Len(inclusions) /\ i + 1 \in 1..(Len(inclusions) + 1)
        BY <2>2 DEF Unmatched
      <4>2. QED
        BY <4>1, <2>2 DEF Unmatched
    <3>3. 1 \in Unmatched'
      BY <2>2 DEF Unmatched
    <3>4. QED
      BY <3>1, <3>2, <3>3
  <2>5. Cardinality(Unmatched') = Cardinality(Unmatched) + 1
    <3>1. /\ IsFiniteSet({i + 1 : i \in Unmatched})
          /\ Cardinality({i + 1 : i \in Unmatched}) = Cardinality(Unmatched)
          /\ Unmatched \in SUBSET Nat
      BY Shifted, UnmatchedFinite DEF ListsTyped
    <3>2. 1 \notin {i + 1 : i \in Unmatched}
      <4>1. \A i \in Unmatched : i >= 1
        BY <2>2 DEF Unmatched
      <4>2. QED
        BY <3>1, <4>1
    <3>3. QED
      BY <2>4, <3>1, <3>2, FS_AddElement
  <2>6. ASSUME ListsInv, ~overrun', NEW i \in DOMAIN inclusions'
        PROVE  inclusions'[i].matches
                 <=> \E name \in inclusions'[i].asked : Matched(inclusions'[i].given, name, TRUE)
    <3>1. CASE i = 1
      BY <3>1, <2>2
    <3>2. CASE i # 1
      BY <3>2, <2>3, <2>6 DEF ListsInv
    <3>3. QED
      BY <3>1, <3>2
  <2>7. QED
    BY <2>1, <2>2, <2>5, <2>6 DEF ListsInv, ListsTyped
<1>3. QED
  BY <1>1, <1>2 DEF AddTo

\* What is said of a name, without what is behind its end.
LEMMA Said ==
  ASSUME ListsTyped, NEW name \in Names
  PROVE  LET said == lafe_excluded(name, FALSE) IN
         /\ \A i \in DOMAIN inclusions :
              i \in said.new <=> /\ ~inclusions[i].matches
                                 /\ Matched(inclusions[i].given, name, TRUE)
         /\ said.excluded = LeftOut(name)
PROOF
<1>1. ASSUME NEW entry \in Entries
      PROVE  /\ match_inclusion(entry, name, FALSE) <=> Matched(entry.given, name, TRUE)
             /\ match_exclusion(entry, name, FALSE) <=> Matched(entry.given, name, FALSE)
             /\ entry.matches \in BOOLEAN
  <2>1. entry.pattern = Stripped(entry.given) /\ entry.matches \in BOOLEAN
    BY DEF Entries
  <2>2. QED
    BY <2>1 DEF match_inclusion, match_exclusion, Matched
<1>2. /\ \A i \in DOMAIN inclusions : inclusions[i] \in Entries
      /\ \A i \in DOMAIN exclusions : exclusions[i] \in Entries
  BY LenProperties, ElementOfSeq DEF ListsTyped
<1> DEFINE Included(i) == match_inclusion(inclusions[i], name, FALSE)
           new == {i \in DOMAIN inclusions : ~inclusions[i].matches /\ Included(i)}
           excluded == \E i \in DOMAIN exclusions :
                         match_exclusion(exclusions[i], name, FALSE)
           again == \E i \in DOMAIN inclusions : inclusions[i].matches /\ Included(i)
<1>3. \A i \in DOMAIN inclusions : Included(i) <=> Matched(inclusions[i].given, name, TRUE)
  BY <1>1, <1>2
<1>4. excluded <=> \E i \in DOMAIN exclusions : Matched(exclusions[i].given, name, FALSE)
  BY <1>1, <1>2
<1>5. new = {} /\ ~again
        <=> \A i \in DOMAIN inclusions : ~Matched(inclusions[i].given, name, TRUE)
  BY <1>3
<1>6. lafe_excluded(name, FALSE).excluded = LeftOut(name)
  BY <1>4, <1>5 DEF LeftOut, lafe_excluded
<1>7. ASSUME NEW i \in DOMAIN inclusions
      PROVE  i \in lafe_excluded(name, FALSE).new
               <=> /\ ~inclusions[i].matches
                   /\ Matched(inclusions[i].given, name, TRUE)
  <2>1. lafe_excluded(name, FALSE).new = new
    BY DEF lafe_excluded
  <2>2. QED
    BY <2>1, <1>3
<1>8. QED
  BY <1>6, <1>7

\* What asking about a name does to the lists.
LEMMA AskedTyped ==
  ASSUME ListsTyped, NEW name \in Names, Ask(name)
  PROVE  \E beyond \in BOOLEAN :
           LET said == lafe_excluded(name, beyond) IN
           /\ ListsTyped' /\ DOMAIN inclusions' = DOMAIN inclusions
           /\ \A i \in DOMAIN inclusions :
                /\ inclusions'[i].matches = (inclusions[i].matches \/ i \in said.new)
                /\ inclusions'[i].asked = inclusions[i].asked \cup {name}
                /\ inclusions'[i].given = inclusions[i].given
           /\ answer'.name = name /\ answer'.excluded = said.excluded
           /\ overrun' = (overrun \/ said # lafe_excluded(name, ~beyond))
PROOF
<1>1. PICK beyond \in BOOLEAN :
        LET said == lafe_excluded(name, beyond) IN
        /\ Mark(said.new, name)
        /\ answer' = [name |-> name, excluded |-> said.excluded]
        /\ overrun' = (overrun \/ said # lafe_excluded(name, ~beyond))
  BY DEF Ask
<1> DEFINE said == lafe_excluded(name, beyond)
<1>2. /\ exclusions' = exclusions /\ overrun' \in BOOLEAN
      /\ inclusions' = [i \in DOMAIN inclusions |->
           [inclusions[i] EXCEPT !.matches = @ \/ i \in said.new, !.asked = @ \cup {name}]]
      /\ inclusions_unmatched_count'
           = inclusions_unmatched_count - Cardinality(said.new)
  BY <1>1 DEF Ask, Mark
<1>3. /\ DOMAIN inclusions = 1..Len(inclusions) /\ Len(inclusions) \in Nat
      /\ \A i \in DOMAIN inclusions : inclusions[i] \in Entries
  BY LenProperties, ElementOfSeq DEF ListsTyped
<1>4. ASSUME NEW i \in DOMAIN inclusions
      PROVE  /\ inclusions'[i] \in Entries
             /\ inclusions'[i].matches = (inclusions[i].matches \/ i \in said.new)
             /\ inclusions'[i].asked = inclusions[i].asked \cup {name}
             /\ inclusions'[i].given = inclusions[i].given
  <2> DEFINE marked == [inclusions[i] EXCEPT !.matches = @ \/ i \in said.new,
                                             !.asked = @ \cup {name}]
  <2>1. inclusions'[i] = marked
    BY <1>2
  <2>2. inclusions[i] \in Entries
    BY <1>3
  <2> HIDE DEF said
  <2>3. /\ marked \in Entries
        /\ marked.matches = (inclusions[i].matches \/ i \in said.new)
        /\ marked.asked = inclusions[i].asked \cup {name}
        /\ marked.given = inclusions[i].given
    BY <2>2 DEF Entries
  <2>4. QED
    BY <2>1, <2>3
<1>5. DOMAIN inclusions' = DOMAIN inclusions
  BY <1>2
<1>6. inclusions' \in Seq(Entries)
  <2>1. inclusions' = [i \in 1..Len(inclusions) |-> inclusions'[i]]
    BY <1>2, <1>3
  <2>2. inclusions' \in [1..Len(inclusions) -> Entries]
    BY <2>1, <1>3, <1>4
  <2>3. QED
    BY <2>2, <1>3, SeqDef
<1>7. said.new \subseteq Unmatched
  BY DEF lafe_excluded, Unmatched
<1>8. Unmatched' = Unmatched \ said.new
  <2> HIDE DEF said
  <2> QED BY <1>3, <1>4, <1>5 DEF Unmatched, Entries
<1>9. inclusions_unmatched_count' = Cardinality(Unmatched')
  <2> HIDE DEF said
  <2>1. IsFiniteSet(Unmatched) /\ Cardinality(Unmatched) \in Nat
    BY UnmatchedFinite DEF ListsTyped
  <2>2. Unmatched \cap said.new = said.new
    BY <1>7
  <2>3. Cardinality(Unmatched \ said.new) = Cardinality(Unmatched) - Cardinality(said.new)
    BY <2>1, <2>2, FS_Difference
  <2>4. QED
    BY <2>3, <1>2, <1>8 DEF ListsTyped
<1>10. ListsTyped'
  BY <1>2, <1>6, <1>9 DEF ListsTyped
<1>11. answer'.name = name /\ answer'.excluded = said.excluded
  BY <1>1
<1>12. overrun' = (overrun \/ said # lafe_excluded(name, ~beyond))
  BY <1>1
<1>13. QED
  BY <1>4, <1>5, <1>10, <1>11, <1>12

LEMMA Asked ==
  ASSUME ListsInv, NEW name \in Names, Ask(name)
  PROVE  /\ ListsInv'
         /\ ~overrun' => answer'.excluded = LeftOut(answer'.name)
PROOF
<1>1. PICK beyond \in BOOLEAN :
        LET said == lafe_excluded(name, beyond) IN
        /\ ListsTyped' /\ DOMAIN inclusions' = DOMAIN inclusions
        /\ \A i \in DOMAIN inclusions :
             /\ inclusions'[i].matches = (inclusions[i].matches \/ i \in said.new)
             /\ inclusions'[i].asked = inclusions[i].asked \cup {name}
             /\ inclusions'[i].given = inclusions[i].given
        /\ answer'.name = name /\ answer'.excluded = said.excluded
        /\ overrun' = (overrun \/ said # lafe_excluded(name, ~beyond))
  BY AskedTyped DEF ListsInv
<1> DEFINE said == lafe_excluded(name, beyond)
<1>2. ASSUME ~overrun'
      PROVE  ~overrun /\ said = lafe_excluded(name, FALSE)
  <2>1. ~overrun /\ lafe_excluded(name, beyond) = lafe_excluded(name, ~beyond)
    BY <1>1, <1>2 DEF ListsInv, ListsTyped
  <2>2. beyond = FALSE \/ (~beyond) = FALSE
    OBVIOUS
  <2>3. QED
    BY <2>1, <2>2
<1>3. ASSUME ~overrun', NEW i \in DOMAIN inclusions'
      PROVE  inclusions'[i].matches
               <=> \E n \in inclusions'[i].asked : Matched(inclusions'[i].given, n, TRUE)
  <2>1. i \in DOMAIN inclusions
    BY <1>1
  <2>2. i \in said.new <=> /\ ~inclusions[i].matches
                           /\ Matched(inclusions[i].given, name, TRUE)
    BY <1>2, <1>3, <2>1, Said DEF ListsInv
  <2>3. inclusions[i].matches
          <=> \E n \in inclusions[i].asked : Matched(inclusions[i].given, n, TRUE)
    BY <1>2, <1>3, <2>1 DEF ListsInv
  <2>4. /\ inclusions'[i].matches <=> inclusions[i].matches \/ i \in said.new
        /\ inclusions'[i].asked = inclusions[i].asked \cup {name}
        /\ inclusions'[i].given = inclusions[i].given
    BY <1>1, <2>1
  <2> HIDE DEF said
  <2>5. QED
    BY <2>2, <2>3, <2>4
<1>4. ListsInv'
  BY <1>1, <1>3 DEF ListsInv
<1>5. ASSUME ~overrun' PROVE answer'.excluded = LeftOut(answer'.name)
  <2>1. answer'.name = name /\ answer'.excluded = said.excluded
    BY <1>1
  <2>2. said.excluded = LeftOut(name)
    BY <1>2, <1>5, Said DEF ListsInv
  <2>3. QED
    BY <2>1, <2>2
<1>6. QED
  BY <1>4, <1>5

\* What a file gives are patterns there can be.
LEMMA LineGiven ==
  ASSUME LinesInv, ReadLine \/ ReadLastLine
  PROVE  \/ UNCHANGED matchVars
         \/ \E given \in Given : AddTo(reading, given)
PROOF
<1>1. ~Idle /\ BufferInv
  BY DEF LinesInv, ReadLine, ReadLastLine
<1>2. PICK g : LinesOf(file, g)
  BY <1>1 DEF LinesInv
<1>3. file \in Files
  BY <1>1 DEF BufferInv
<1>types. line_start \in Nat /\ line_end <= Len(buff) /\ line_end \in Nat /\ Len(buff) \in Nat
  BY <1>1, BufferTypes
<1>4. ASSUME ReadLine, line # << >> PROVE line \in Given
  <2>1. line_end < Len(buff) /\ ~(f = Closed /\ line_start = Len(buff))
    BY <1>1, <1>4, BufferTypes DEF ReadLine, NextLine
  <2>2. line \in ToSet(RefLines(file))
    BY <1>1, <1>2, <1>4, <2>1, LineTaken
  <2>3. QED
    BY <1>3, <2>2 DEF Given
<1>5. ASSUME ReadLastLine PROVE SubSeq(buff, line_start + 1, Len(buff)) \in Given
  <2>1. f = Closed /\ line_start < Len(buff) /\ line_end >= Len(buff)
    BY <1>5 DEF ReadLastLine, LastLine
  <2>2. line_end = Len(buff) /\ line_start < line_end /\ line_start # Len(buff)
    BY <2>1, <1>types
  <2>3. line \in ToSet(RefLines(file))
    BY <1>1, <1>2, <2>1, <2>2, LineTaken
  <2>4. QED
    BY <1>3, <2>2, <2>3 DEF Given, line
<1>6. QED
  BY <1>4, <1>5 DEF ReadLine, ReadLastLine, TakeLine

\* Whatever is done but asking keeps the lists as they are meant.
LEMMA ListsUnasked ==
  ASSUME LinesInv, ListsTyped, [Next]_vars, ~\E name \in Names : Ask(name)
  PROVE  ListsTyped' /\ (ListsInv => ListsInv') /\ (overrun' => overrun)
PROOF
<1>same. ASSUME UNCHANGED matchVars, overrun' = overrun
         PROVE  ListsTyped' /\ (ListsInv => ListsInv')
  BY <1>same DEF ListsInv, ListsTyped, Unmatched, matchVars
<1>1. ASSUME NEW list \in {"exclusions", "inclusions"},
             NEW pattern \in Patterns \cup Companions, AddPattern(list, pattern)
      PROVE  ListsTyped' /\ (ListsInv => ListsInv') /\ overrun' = overrun
  <2>1. pattern \in Given /\ AddTo(list, pattern) /\ overrun' = overrun
    BY <1>1 DEF AddPattern, Given
  <2>2. QED
    BY <2>1, ListsExtended
<1>2. CASE ReadLine \/ ReadLastLine
  <2>1. overrun' = overrun
    BY <1>2 DEF ReadLine, ReadLastLine, Rest
  <2>2. QED
    BY <1>2, <1>same, <2>1, LineGiven, ListsExtended
<1>3. CASE \/ \E list \in {"exclusions", "inclusions"}, contents \in Files :
                ReadFile(list, contents)
           \/ ReadMore \/ EndOfFile \/ ReadFails
  BY <1>3, <1>same DEF ReadFile, ReadMore, EndOfFile, ReadFails, Rest
<1>4. CASE Cleanup
  <2>1. /\ exclusions' = << >> /\ inclusions' = << >>
        /\ inclusions_unmatched_count' = 0 /\ overrun' = FALSE
    BY <1>4 DEF Cleanup
  <2>2. inclusions' \in Seq(Entries) /\ exclusions' \in Seq(Entries)
    BY <2>1, EmptySeq
  <2>3. Unmatched' = {} /\ DOMAIN inclusions' = {}
    BY <2>1 DEF Unmatched
  <2>4. QED
    BY <2>1, <2>2, <2>3, FS_EmptySet DEF ListsInv, ListsTyped
<1>5. CASE UNCHANGED vars
  BY <1>5, <1>same DEF vars
<1>6. QED
  BY <1>1, <1>2, <1>3, <1>4, <1>5 DEF Next, ReaderStep

LEMMA ListsKept ==
  ASSUME LinesInv, ListsInv, [Next]_vars
  PROVE  ListsInv'
PROOF
<1>1. CASE \E name \in Names : Ask(name)
  BY <1>1, Asked
<1>2. CASE ~\E name \in Names : Ask(name)
  BY <1>2, ListsUnasked DEF ListsInv
<1>3. QED
  BY <1>1, <1>2

LEMMA ListsInitially ==
  ASSUME Init
  PROVE  LinesInv /\ ListsInv
PROOF
<1>1. /\ exclusions = << >> /\ inclusions = << >> /\ inclusions_unmatched_count = 0
      /\ overrun = FALSE /\ reading = "none" /\ lines = << >> /\ file = << >>
  BY DEF Init
<1>2. inclusions \in Seq(Entries) /\ exclusions \in Seq(Entries)
  BY <1>1, EmptySeq
<1>3. Unmatched = {} /\ DOMAIN inclusions = {}
  BY <1>1 DEF Unmatched
<1>4. ListsInv
  BY <1>1, <1>2, <1>3, FS_EmptySet DEF ListsInv, ListsTyped
<1>5. QED
  BY <1>1, <1>4, NoLines DEF LinesInv, Idle

\* What the theorems about meaning take from their hypothesis.
LEMMA MatchedAsMeant ==
  ASSUME MatchesAsMeant, NEW given \in Given, NEW name \in Names, NEW anchored \in BOOLEAN
  PROVE  Matched(given, name, anchored) <=> RefMatch(given, name, anchored)
PROOF
<1>1. {NO_ANCHOR_END} \cup (IF anchored THEN {} ELSE {NO_ANCHOR_START})
        = (IF anchored THEN {NO_ANCHOR_END} ELSE {NO_ANCHOR_START, NO_ANCHOR_END})
  OBVIOUS
<1>2. lafe_pathmatch(Stripped(given), name,
                     {NO_ANCHOR_END} \cup (IF anchored THEN {} ELSE {NO_ANCHOR_START}), FALSE)
        <=> RefMatch(given, name, anchored)
  BY DEF MatchesAsMeant
<1>3. QED
  BY <1>1, <1>2 DEF Matched

LEMMA CountedAsMeant ==
  ASSUME MatchesAsMeant, ListsInv
  PROVE  UnmatchedCounted
PROOF
<1>1. ASSUME NEW i \in DOMAIN inclusions
      PROVE  /\ inclusions[i].asked \subseteq Names
             /\ \A name \in inclusions[i].asked :
                  Matched(inclusions[i].given, name, TRUE)
                    <=> RefMatch(inclusions[i].given, name, TRUE)
  <2>1. inclusions[i] \in Entries
    BY LenProperties, ElementOfSeq DEF ListsInv, ListsTyped
  <2>2. inclusions[i].given \in Given /\ inclusions[i].asked \subseteq Names
    BY <2>1 DEF Entries
  <2>3. QED
    BY <2>2, MatchedAsMeant
<1>2. SUFFICES ASSUME ~overrun
      PROVE  Unmatched = {i \in DOMAIN inclusions :
                            \A name \in inclusions[i].asked :
                              ~RefMatch(inclusions[i].given, name, TRUE)}
  BY DEF ListsInv, ListsTyped, UnmatchedCounted
<1>3. \A i \in DOMAIN inclusions :
        inclusions[i].matches
          <=> \E name \in inclusions[i].asked : Matched(inclusions[i].given, name, TRUE)
  BY <1>2 DEF ListsInv
<1>4. QED
  BY <1>1, <1>3 DEF Unmatched

LEMMA LeftOutAsMeant ==
  ASSUME MatchesAsMeant, ListsTyped, NEW name \in Names
  PROVE  LeftOut(name) = RefExcluded(name)
PROOF
<1>1. /\ \A i \in DOMAIN inclusions : inclusions[i] \in Entries
      /\ \A i \in DOMAIN exclusions : exclusions[i] \in Entries
  BY LenProperties, ElementOfSeq DEF ListsTyped
<1>2. /\ \A i \in DOMAIN inclusions : inclusions[i].given \in Given
      /\ \A i \in DOMAIN exclusions : exclusions[i].given \in Given
  BY <1>1 DEF Entries
<1>3. /\ \A i \in DOMAIN inclusions : Matched(inclusions[i].given, name, TRUE)
                                        <=> RefMatch(inclusions[i].given, name, TRUE)
      /\ \A i \in DOMAIN exclusions : Matched(exclusions[i].given, name, FALSE)
                                        <=> RefMatch(exclusions[i].given, name, FALSE)
  BY <1>2, MatchedAsMeant
<1>4. QED
  BY <1>3 DEF LeftOut, RefExcluded

LEMMA ListsAlways == Spec => [](LinesInv /\ ListsInv)
PROOF
<1>1. Init => LinesInv /\ ListsInv
  BY ListsInitially
<1>2. LinesInv /\ ListsInv /\ [Next]_vars => (LinesInv /\ ListsInv)'
  BY LinesKept, ListsKept
<1>3. QED
  BY <1>1, <1>2, PTL DEF Spec

LEMMA AnswerIsLeftOut ==
  ASSUME ListsInv, Next, asked' # {}, answer' # answer
  PROVE  /\ answer'.name \in Names
         /\ ~overrun' => answer'.excluded = LeftOut(answer'.name)
PROOF
<1>1. PICK name \in Names : Ask(name)
  BY DEF Next, ReaderStep, AddPattern, ReadFile, ReadLine, ReadLastLine, ReadMore,
         EndOfFile, ReadFails, Rest, Cleanup
<1>2. ~overrun' => answer'.excluded = LeftOut(answer'.name)
  BY <1>1, Asked
<1>3. answer'.name = name
  BY <1>1 DEF Ask
<1>4. QED
  BY <1>2, <1>3

-----------------------------------------------------------------------------
\* Whatever is added, read and asked about in whichever order, the inclusions
\* counted as unmatched are those that match no name asked about since they were
\* added (UnmatchedCounted), where the matcher says of a pattern what it means.
THEOREM UnmatchedCountedHolds ==
  ASSUME MatchesAsMeant
  PROVE  Spec => []UnmatchedCounted
PROOF
<1>1. ListsInv => UnmatchedCounted
  BY CountedAsMeant
<1>2. QED
  BY <1>1, ListsAlways, PTL

\* What is said of a name is what the lists say of it now, by the matcher: it does
\* not depend on which inclusions had matched already (match_engine.c:196), on
\* the names asked about before or on the order the patterns were added in.
THEOREM SaidByListsAlone ==
  Spec => [][asked' # {} /\ answer' # answer /\ ~overrun' =>
               answer'.excluded = LeftOut(answer'.name)]_vars
PROOF
<1>1. ListsInv /\ [Next]_vars
        => [asked' # {} /\ answer' # answer /\ ~overrun' =>
              answer'.excluded = LeftOut(answer'.name)]_vars
  <2>1. SUFFICES ASSUME ListsInv, Next, asked' # {}, answer' # answer, ~overrun'
                 PROVE  answer'.excluded = LeftOut(answer'.name)
    OBVIOUS
  <2>2. QED
    BY <2>1, AnswerIsLeftOut
<1>2. QED
  BY <1>1, ListsAlways, PTL DEF Spec

\* A name is left out if an exclusion matches it or, where there are inclusions,
\* none does: whichever inclusions had matched before, and whichever way the
\* matcher tried them (Decided), where it says of a pattern what it means.
THEOREM DecidedHolds ==
  ASSUME MatchesAsMeant
  PROVE  Spec => Decided
PROOF
<1>1. ListsInv /\ [Next]_vars
        => [asked' # {} /\ answer' # answer /\ ~overrun' =>
              answer'.excluded = RefExcluded(answer'.name)]_vars
  <2>1. SUFFICES ASSUME ListsInv, Next, asked' # {}, answer' # answer, ~overrun'
                 PROVE  answer'.excluded = RefExcluded(answer'.name)
    OBVIOUS
  <2>2. ListsTyped /\ answer'.name \in Names /\ answer'.excluded = LeftOut(answer'.name)
    BY <2>1, AnswerIsLeftOut DEF ListsInv
  <2>3. LeftOut(answer'.name) = RefExcluded(answer'.name)
    BY <2>2, LeftOutAsMeant
  <2>4. QED
    BY <2>2, <2>3
<1>2. QED
  BY <1>1, ListsAlways, PTL DEF Spec, Decided

-----------------------------------------------------------------------------
\* The matcher moves forward in the pattern, and never back in the name.
Texts == Seq(ToSet(Alphabet))

LEMMA TextFacts ==
  ASSUME NEW text \in Texts
  PROVE  /\ Len(text) \in Nat /\ DOMAIN text = 1..Len(text)
         /\ \A i \in Nat \ {0} : CharAt(text, i) = NUL <=> i > Len(text)
         /\ \A i \in 1..Len(text) : CharAt(text, i) = text[i] /\ text[i] \in ToSet(Alphabet)
PROOF
<1>1. Len(text) \in Nat /\ DOMAIN text = 1..Len(text)
  BY LenProperties DEF Texts
<1>2. \A i \in 1..Len(text) : text[i] \in ToSet(Alphabet)
  BY ElementOfSeq DEF Texts
<1>3. NUL \notin ToSet(Alphabet)
  BY MatchingAssumption DEF Characters
<1>4. QED
  BY <1>1, <1>2, <1>3 DEF CharAt

LEMMA AfterFound ==
  ASSUME NEW text \in Texts, NEW places \in SUBSET (DOMAIN text), NEW i \in 1..(Len(text) + 1)
  PROVE  LET k == After(places, text, i) IN
         /\ k \in i..(Len(text) + 1) /\ k \notin places /\ i..(k - 1) \subseteq places
         /\ i \in places => k > i
PROOF
<1>1. Len(text) \in Nat /\ DOMAIN text = 1..Len(text)
  BY TextFacts
<1> DEFINE Outside == {k \in i..(Len(text) + 1) : k \notin places}
<1>2. PICK k \in Outside : \A y \in Outside : k <= y
  <2>1. Outside \in SUBSET Nat /\ Len(text) + 1 \in Outside
    BY <1>1
  <2>2. QED
    BY <2>1, LeastNumber
<1>3. i..(k - 1) \subseteq places
  <2>1. SUFFICES ASSUME NEW y \in i..(k - 1), y \notin places PROVE FALSE
    OBVIOUS
  <2>2. y \in Outside
    BY <1>1, <1>2, <2>1
  <2>3. QED
    BY <1>1, <1>2, <2>2
<1> DEFINE K == After(places, text, i)
<1>4. K \in i..(Len(text) + 1) /\ K \notin places /\ i..(K - 1) \subseteq places
  BY <1>2, <1>3 DEF After
<1>5. QED
  BY <1>1, <1>4

LEMMA PastFound ==
  ASSUME NEW text \in Texts, NEW c, NEW i \in 1..(Len(text) + 1)
  PROVE  /\ Past(c, text, i) \in i..(Len(text) + 1)
         /\ CharAt(text, i) = c /\ c # NUL => Past(c, text, i) > i
PROOF
<1> DEFINE places == {k \in DOMAIN text : text[k] = c}
<1>1. places \in SUBSET (DOMAIN text)
  OBVIOUS
<1>2. CharAt(text, i) = c /\ c # NUL => i \in places
  BY TextFacts DEF CharAt
<1> HIDE DEF places
<1>3. /\ After(places, text, i) \in i..(Len(text) + 1)
      /\ i \in places => After(places, text, i) > i
  BY <1>1, AfterFound
<1>4. QED
  BY <1>2, <1>3 DEF Past, places

LEMMA SlashskipFound ==
  ASSUME NEW text \in Texts, NEW i \in 1..(Len(text) + 1)
  PROVE  /\ pm_slashskip(text, i) \in i..(Len(text) + 1)
         /\ CharAt(text, i) = "/" => pm_slashskip(text, i) > i
PROOF
<1> DEFINE places == {k \in DOMAIN text :
                        \/ text[k] = "/"
                        \/ text[k] = "." /\ CharAt(text, k + 1) \in {"/", NUL}}
<1>1. places \in SUBSET (DOMAIN text)
  OBVIOUS
<1>2. CharAt(text, i) = "/" => i \in places
  BY TextFacts DEF CharAt, NUL
<1> HIDE DEF places
<1>3. /\ After(places, text, i) \in i..(Len(text) + 1)
      /\ i \in places => After(places, text, i) > i
  BY <1>1, AfterFound
<1>4. QED
  BY <1>2, <1>3 DEF pm_slashskip, places

\* Two loops that agree from a place of the pattern on, within the name.
AgreeWithin(f1, f2, p, s, from) ==
  \A i \in from..(Len(p) + 1), j \in 1..(Len(s) + 1),
     flags \in SUBSET {NO_ANCHOR_START, NO_ANCHOR_END} :
    f1[<<i, j, flags>>] = f2[<<i, j, flags>>]

LEMMA PmAgrees ==
  ASSUME NEW p \in Texts, NEW s \in Texts, NEW from \in 1..(Len(p) + 1),
         NEW f1, NEW f2, AgreeWithin(f1, f2, p, s, from),
         NEW i \in from..(Len(p) + 1), NEW j \in 1..(Len(s) + 1),
         NEW flags \in SUBSET {NO_ANCHOR_START, NO_ANCHOR_END}
  PROVE  pm(f1, p, i, s, j, flags) = pm(f2, p, i, s, j, flags)
PROOF
<1> DEFINE Skipped(text, k) == IF CharAt(text, k) = "." /\ CharAt(text, k + 1) = "/"
                                 THEN pm_slashskip(text, k + 1) ELSE k
<1>1. ASSUME NEW text \in Texts, NEW k \in 1..(Len(text) + 1)
      PROVE  Skipped(text, k) \in k..(Len(text) + 1)
  <2>1. Len(text) \in Nat
    BY TextFacts
  <2>2. CASE CharAt(text, k) = "."
    <3>1. k \in Nat \ {0} /\ CharAt(text, k) # NUL
      BY <2>1, <2>2 DEF NUL
    <3>2. ~(k > Len(text))
      BY <3>1, TextFacts
    <3>3. k + 1 \in 1..(Len(text) + 1)
      BY <2>1, <3>2
    <3>4. pm_slashskip(text, k + 1) \in (k + 1)..(Len(text) + 1)
      BY <3>3, SlashskipFound
    <3>5. pm_slashskip(text, k + 1) \in k..(Len(text) + 1)
      BY <2>1, <3>4
    <3>6. QED
      BY <2>1, <3>5
  <2>3. QED
    BY <2>1, <2>2
<1>2. Len(p) \in Nat /\ Len(s) \in Nat
  BY TextFacts
<1>3. i \in 1..(Len(p) + 1)
  BY <1>2
<1>4. Skipped(p, i) \in i..(Len(p) + 1) /\ Skipped(s, j) \in j..(Len(s) + 1)
  BY <1>1, <1>3
<1>5. Skipped(p, i) \in from..(Len(p) + 1) /\ Skipped(s, j) \in 1..(Len(s) + 1)
  BY <1>2, <1>4
<1>6. f1[<<Skipped(p, i), Skipped(s, j), flags>>] = f2[<<Skipped(p, i), Skipped(s, j), flags>>]
  BY <1>5 DEF AgreeWithin
<1>7. QED
  BY <1>6 DEF pm

LEMMA PathmatchAgrees ==
  ASSUME NEW p \in Texts, NEW s \in Texts, NEW i \in 1..(Len(p) + 1),
         NEW f1, NEW f2, AgreeWithin(f1, f2, p, s, i), NEW j \in 1..(Len(s) + 1),
         NEW flags \in SUBSET {NO_ANCHOR_START, NO_ANCHOR_END}
  PROVE  pathmatch(f1, p, i, s, j, flags) = pathmatch(f2, p, i, s, j, flags)
PROOF
<1> DEFINE first == IF CharAt(p, i) = "^" THEN i + 1 ELSE i
           anchors == Anchored(p, flags, i)
<1>1. /\ Len(p) \in Nat /\ Len(s) \in Nat /\ DOMAIN s = 1..Len(s)
      /\ CharAt(p, i) = NUL <=> i > Len(p)
      /\ CharAt(s, j) = NUL <=> j > Len(s)
  BY TextFacts
<1>2. first \in i..(Len(p) + 1) /\ first \in 1..(Len(p) + 1)
  BY <1>1 DEF NUL
<1>3. anchors \in SUBSET {NO_ANCHOR_START, NO_ANCHOR_END}
  BY DEF Anchored
<1>4. /\ Past("/", p, first) \in i..(Len(p) + 1)
      /\ Past("/", s, j) \in 1..(Len(s) + 1)
  <2>1. /\ Past("/", p, first) \in first..(Len(p) + 1)
        /\ Past("/", s, j) \in j..(Len(s) + 1)
    BY <1>2, PastFound
  <2>2. QED
    BY <1>1, <1>2, <2>1
<1>5. ElementStarts(s, j) \subseteq 1..(Len(s) + 1)
  <2>1. {k + 1 : k \in {k \in j..Len(s) : s[k] = "/"}} \subseteq 1..(Len(s) + 1)
    BY <1>1
  <2>2. (IF CharAt(s, j) = "/" THEN j + 1 ELSE j) \in 1..(Len(s) + 1)
    BY <1>1 DEF NUL
  <2>3. QED
    BY <2>1, <2>2 DEF ElementStarts
<1> HIDE DEF first, anchors
<1>6. pm(f1, p, Past("/", p, first), s, Past("/", s, j), anchors)
        = pm(f2, p, Past("/", p, first), s, Past("/", s, j), anchors)
  BY <1>3, <1>4, PmAgrees
<1>7. \A k \in 1..(Len(s) + 1) :
        pm(f1, p, first, s, k, anchors) = pm(f2, p, first, s, k, anchors)
  BY <1>2, <1>3, PmAgrees
<1>8. (\E k \in ElementStarts(s, j) : pm(f1, p, first, s, k, anchors))
        = (\E k \in ElementStarts(s, j) : pm(f2, p, first, s, k, anchors))
  BY <1>5, <1>7
<1>9. pm(f1, p, first, s, j, anchors) = pm(f2, p, first, s, j, anchors)
  BY <1>7
<1>10. \A loop : pathmatch(loop, p, i, s, j, flags) =
          IF CharAt(p, i) = NUL THEN CharAt(s, j) = NUL
          ELSE IF CharAt(p, first) = "/" /\ CharAt(s, j) # "/" THEN FALSE
          ELSE IF CharAt(p, first) \in {"*", "/"}
            THEN pm(loop, p, Past("/", p, first), s, Past("/", s, j), anchors)
          ELSE IF NO_ANCHOR_START \in anchors
            THEN \E k \in ElementStarts(s, j) : pm(loop, p, first, s, k, anchors)
          ELSE pm(loop, p, first, s, j, anchors)
  BY DEF pathmatch, first, anchors
<1>11. QED
  BY <1>6, <1>8, <1>9, <1>10

\* What the search for the end of a class does at one place.
ClassEndAt(p, e, i) ==
  CASE i > Len(p) -> 0
    [] i <= Len(p) /\ p[i] = "]" -> i
    [] i < Len(p) /\ p[i] = "\\" -> e[i + 2]
    [] OTHER -> e[i + 1]

ClassEndsFrom(p, e, m) == \A i \in m..(Len(p) + 1) : e[i] = ClassEndAt(p, e, i)

\* The class that begins at a place ends in the pattern, or nowhere.
LEMMA ClassEndFound ==
  ASSUME NEW p \in Texts, NEW first \in 1..(Len(p) + 1)
  PROVE  ClassEnd(p, first) = 0 \/ ClassEnd(p, first) \in first..Len(p)
PROOF
<1> DEFINE D == first..(Len(p) + 1)
           Bad == {n \in Nat : n <= (Len(p) + 2) - first
                                 /\ ~\E e : ClassEndsFrom(p, e, (Len(p) + 2) - n)}
<1>1. Len(p) \in Nat
  BY TextFacts
<1>2. Bad = {}
  <2>1. SUFFICES ASSUME Bad # {} PROVE FALSE
    OBVIOUS
  <2>2. PICK n \in Bad : \A y \in Bad : n <= y
    <3>1. Bad \in SUBSET Nat
      OBVIOUS
    <3>2. QED
      BY <2>1, <3>1, LeastNumber
  <2>3. n # 0
    <3>1. ASSUME n = 0 PROVE FALSE
      <4>1. \A e : ClassEndsFrom(p, e, (Len(p) + 2) - n)
        BY <1>1, <3>1 DEF ClassEndsFrom
      <4>2. QED
        BY <2>2, <4>1
    <3>2. QED
      BY <3>1
  <2> DEFINE m == (Len(p) + 2) - n
  <2>4. /\ n - 1 \in Nat /\ n - 1 <= (Len(p) + 2) - first /\ n - 1 \notin Bad
        /\ (Len(p) + 2) - (n - 1) = m + 1 /\ m \in D /\ m \in Nat
    <3>1. n \in Nat /\ n <= (Len(p) + 2) - first /\ \A y \in Bad : n <= y
      BY <2>2
    <3> HIDE DEF Bad
    <3>2. n - 1 \in Nat /\ ~(n <= n - 1)
      BY <3>1, <2>3
    <3>3. n - 1 \notin Bad
      BY <3>1, <3>2
    <3>4. QED
      BY <1>1, <3>1, <3>2, <3>3
  <2>5. PICK e : ClassEndsFrom(p, e, m + 1)
    BY <2>4
  <2> DEFINE h == [i \in D |-> IF i > m THEN e[i] ELSE ClassEndAt(p, e, i)]
  <2> HIDE DEF m
  <2>6. \A i \in (m + 1)..(Len(p) + 1) : h[i] = e[i]
    BY <1>1, <2>4
  <2>7. h[m] = ClassEndAt(p, e, m)
    BY <1>1, <2>4
  <2> HIDE DEF h
  <2>8. \A i \in m..(Len(p) + 1) : ClassEndAt(p, h, i) = ClassEndAt(p, e, i)
    <3> TAKE i \in m..(Len(p) + 1)
    <3>1. i <= Len(p) => h[i + 1] = e[i + 1]
      BY <1>1, <2>4, <2>6
    <3>2. i < Len(p) => h[i + 2] = e[i + 2]
      BY <1>1, <2>4, <2>6
    <3>3. i \in Nat
      BY <2>4
    <3>4. QED
      BY <1>1, <3>1, <3>2, <3>3 DEF ClassEndAt
  <2>9. ClassEndsFrom(p, h, m)
    <3>1. ASSUME NEW i \in m..(Len(p) + 1) PROVE h[i] = ClassEndAt(p, h, i)
      <4>1. CASE i = m
        BY <4>1, <3>1, <2>7, <2>8
      <4>2. CASE i # m
        <5>1. i \in (m + 1)..(Len(p) + 1)
          BY <4>2, <2>4, <1>1
        <5>2. h[i] = e[i] /\ e[i] = ClassEndAt(p, e, i)
          BY <5>1, <2>5, <2>6 DEF ClassEndsFrom
        <5>3. QED
          BY <5>2, <2>8
      <4>3. QED
        BY <4>1, <4>2
    <3>2. QED
      BY <3>1 DEF ClassEndsFrom
  <2>10. QED
    BY <2>2, <2>9 DEF m
<1>3. PICK e : ClassEndsFrom(p, e, first)
  <2>1. (Len(p) + 2) - first \in Nat /\ (Len(p) + 2) - ((Len(p) + 2) - first) = first
    BY <1>1
  <2>2. ~((Len(p) + 2) - first \in Bad)
    BY <1>2
  <2>3. \E e : ClassEndsFrom(p, e, (Len(p) + 2) - ((Len(p) + 2) - first))
    BY <2>1, <2>2
  <2>4. QED
    BY <2>1, <2>3
<1>4. \E h : h = [i \in D |-> ClassEndAt(p, h, i)]
  <2> DEFINE h == [i \in D |-> e[i]]
  <2>1. \A i \in D : h[i] = e[i] /\ e[i] = ClassEndAt(p, e, i)
    BY <1>3 DEF ClassEndsFrom
  <2>2. \A i \in D : ClassEndAt(p, h, i) = ClassEndAt(p, e, i)
    <3> TAKE i \in D
    <3>1. (i <= Len(p) => h[i + 1] = e[i + 1]) /\ (i < Len(p) => h[i + 2] = e[i + 2])
      BY <1>1
    <3> HIDE DEF h
    <3>2. QED
      BY <1>1, <3>1 DEF ClassEndAt
  <2>3. h = [i \in D |-> ClassEndAt(p, h, i)]
    BY <2>1, <2>2
  <2>4. QED
    BY <2>3
<1>5. PICK h : h = [i \in D |-> ClassEndAt(p, h, i)] /\ ClassEnd(p, first) = h[first]
  BY <1>4 DEF ClassEnd, ClassEndAt
<1> DEFINE Odd == {k \in Nat : k <= Len(p) + 1
                     /\ (Len(p) + 1) - k \in D
                     /\ ~(h[(Len(p) + 1) - k] \in {0} \cup ((Len(p) + 1) - k)..Len(p))}
<1>6. Odd = {}
  <2>1. SUFFICES ASSUME Odd # {} PROVE FALSE
    OBVIOUS
  <2>2. PICK k \in Odd : \A y \in Odd : k <= y
    <3>1. Odd \in SUBSET Nat
      OBVIOUS
    <3>2. QED
      BY <2>1, <3>1, LeastNumber
  <2> DEFINE i == (Len(p) + 1) - k
  <2>3. i \in D /\ h[i] \notin {0} \cup i..Len(p) /\ h[i] = ClassEndAt(p, h, i) /\ k \in Nat
    BY <2>2, <1>5
  <2>4. ASSUME i <= Len(p) PROVE h[i + 1] \in {0} \cup (i + 1)..Len(p)
    <3>1. k - 1 \in Nat /\ (Len(p) + 1) - (k - 1) = i + 1
          /\ i + 1 \in D /\ k - 1 <= Len(p) + 1
      BY <1>1, <2>3, <2>4
    <3>known. k - 1 \notin Odd
      <4> HIDE DEF Odd
      <4>1. ~(k <= k - 1)
        BY <2>3
      <4>2. QED
        BY <2>2, <4>1
    <3>2. QED
      BY <3>1, <3>known
  <2>5. ASSUME i < Len(p) PROVE h[i + 2] \in {0} \cup (i + 2)..Len(p)
    <3>1. k - 2 \in Nat /\ k - 2 \notin Odd /\ (Len(p) + 1) - (k - 2) = i + 2
          /\ i + 2 \in D /\ k - 2 <= Len(p) + 1
      BY <1>1, <2>2, <2>3, <2>5
    <3>2. QED
      BY <3>1
  <2> HIDE DEF i, Odd
  <2>6. QED
    BY <1>1, <2>3, <2>4, <2>5 DEF ClassEndAt
<1>7. h[first] \in {0} \cup first..Len(p)
  <2>1. (Len(p) + 1) - first \in Nat /\ (Len(p) + 1) - ((Len(p) + 1) - first) = first
        /\ (Len(p) + 1) - first <= Len(p) + 1 /\ first \in D
    BY <1>1
  <2>2. QED
    BY <1>6, <2>1
<1>8. QED
  BY <1>5, <1>7

\* What the search through the items of a class does at one place.
ItemEnd(list, k) == IF k < Len(list) /\ list[k] = "\\" THEN k + 1 ELSE k

ItemPlaces(list) == (1..(Len(list) + 1)) \X (ToSet(list) \cup {NUL})

ItemAt(list, w, c, i, rangeStart) ==
  CASE i > Len(list) -> FALSE
    [] i < Len(list) /\ list[i] = "-" /\ rangeStart # NUL ->
         \/ Code(rangeStart) <= Code(c) /\ Code(c) <= Code(list[ItemEnd(list, i + 1)])
         \/ w[<<ItemEnd(list, i + 1) + 1, NUL>>]
    [] OTHER ->
         \/ list[ItemEnd(list, i)] = c
         \/ w[<<ItemEnd(list, i) + 1,
                IF list[i] = "-" THEN NUL ELSE list[ItemEnd(list, i)]>>]

ItemsFrom(list, w, c, m) ==
  \A at \in ItemPlaces(list) : at[1] >= m => w[at] = ItemAt(list, w, c, at[1], at[2])

LEMMA ItemPlacesKnown ==
  ASSUME NEW list \in Texts, NEW at \in ItemPlaces(list)
  PROVE  /\ at[1] \in 1..(Len(list) + 1) /\ at[2] \in ToSet(list) \cup {NUL}
         /\ at = <<at[1], at[2]>>
PROOF
  BY DEF ItemPlaces

\* It goes on behind the place.
LEMMA ItemDetermined ==
  ASSUME NEW list \in Texts, NEW c, NEW w1, NEW w2, NEW at \in ItemPlaces(list),
         \A to \in ItemPlaces(list) : to[1] > at[1] => w1[to] = w2[to]
  PROVE  ItemAt(list, w1, c, at[1], at[2]) = ItemAt(list, w2, c, at[1], at[2])
PROOF
<1> DEFINE i == at[1]
<1>1. Len(list) \in Nat /\ DOMAIN list = 1..Len(list) /\ i \in 1..(Len(list) + 1)
  BY TextFacts, ItemPlacesKnown
<1>2. ASSUME NEW k \in 1..Len(list)
      PROVE  ItemEnd(list, k) \in k..Len(list) /\ list[ItemEnd(list, k)] \in ToSet(list)
  <2>1. ItemEnd(list, k) \in k..Len(list)
    BY <1>1 DEF ItemEnd
  <2>2. QED
    BY <1>1, <2>1 DEF ToSet
<1> HIDE DEF i
<1>3. ASSUME NEW k \in i..Len(list), NEW d \in ToSet(list) \cup {NUL}
      PROVE  w1[<<ItemEnd(list, k) + 1, d>>] = w2[<<ItemEnd(list, k) + 1, d>>]
  <2>1. ItemEnd(list, k) \in k..Len(list)
    BY <1>1, <1>2
  <2>2. ItemEnd(list, k) + 1 \in 1..(Len(list) + 1) /\ ItemEnd(list, k) + 1 > i
    BY <1>1, <2>1
  <2>3. <<ItemEnd(list, k) + 1, d>> \in ItemPlaces(list)
    BY <2>2 DEF ItemPlaces
  <2>4. QED
    BY <2>2, <2>3 DEF i
<1>4. i < Len(list) => w1[<<ItemEnd(list, i + 1) + 1, NUL>>] = w2[<<ItemEnd(list, i + 1) + 1, NUL>>]
  BY <1>1, <1>3
<1>5. i <= Len(list) =>
        \A d \in ToSet(list) \cup {NUL} :
          w1[<<ItemEnd(list, i) + 1, d>>] = w2[<<ItemEnd(list, i) + 1, d>>]
  BY <1>1, <1>3
<1>6. i <= Len(list) => (IF list[i] = "-" THEN NUL ELSE list[ItemEnd(list, i)])
                           \in ToSet(list) \cup {NUL}
  BY <1>1, <1>2
<1>7. i <= Len(list) \/ i > Len(list)
  BY <1>1
<1>8. ItemAt(list, w1, c, i, at[2]) = ItemAt(list, w2, c, i, at[2])
  BY <1>4, <1>5, <1>6, <1>7 DEF ItemAt
<1>9. QED
  BY <1>8 DEF i

LEMMA ItemsKnown ==
  ASSUME NEW list \in Texts, NEW c, NEW first
  PROVE  \E w : ItemsFrom(list, w, c, 1) /\ pm_items(list, first, c) = w[<<first, NUL>>]
PROOF
<1> DEFINE Bad == {n \in Nat : n <= Len(list) + 1
                                 /\ ~\E h : ItemsFrom(list, h, c, (Len(list) + 2) - n)}
<1>1. Len(list) \in Nat
  BY TextFacts
<1>same. \A w1, w2 : \A at \in ItemPlaces(list) :
           (\A to \in ItemPlaces(list) : to[1] > at[1] => w1[to] = w2[to])
             => ItemAt(list, w1, c, at[1], at[2]) = ItemAt(list, w2, c, at[1], at[2])
  BY ItemDetermined
<1>2. Bad = {}
  <2>1. SUFFICES ASSUME Bad # {} PROVE FALSE
    OBVIOUS
  <2>2. PICK n \in Bad : \A y \in Bad : n <= y
    <3>1. Bad \in SUBSET Nat
      OBVIOUS
    <3>2. QED
      BY <2>1, <3>1, LeastNumber
  <2>3. n # 0
    <3>1. ASSUME n = 0 PROVE FALSE
      <4>1. \A at \in ItemPlaces(list) : ~(at[1] >= (Len(list) + 2) - n)
        BY <1>1, <3>1, ItemPlacesKnown
      <4>2. QED
        BY <2>2, <4>1 DEF ItemsFrom
    <3>2. QED
      BY <3>1
  <2> DEFINE m == (Len(list) + 2) - n
  <2>4. /\ n - 1 \in Nat /\ n - 1 <= Len(list) + 1 /\ n - 1 \notin Bad
        /\ (Len(list) + 2) - (n - 1) = m + 1 /\ m \in 1..(Len(list) + 1)
    <3>1. n \in Nat /\ n <= Len(list) + 1 /\ \A y \in Bad : n <= y
      BY <2>2
    <3> HIDE DEF Bad
    <3>2. n - 1 \in Nat /\ ~(n <= n - 1)
      BY <3>1, <2>3
    <3>3. n - 1 \notin Bad
      BY <3>1, <3>2
    <3>4. QED
      BY <1>1, <3>1, <3>2, <3>3
  <2>5. PICK g : ItemsFrom(list, g, c, m + 1)
    BY <2>4
  <2> DEFINE h == [at \in ItemPlaces(list) |->
                     IF at[1] > m THEN g[at] ELSE ItemAt(list, g, c, at[1], at[2])]
  <2> HIDE DEF m
  <2>6. \A at \in ItemPlaces(list) : at[1] > m => h[at] = g[at]
    OBVIOUS
  <2>7. \A at \in ItemPlaces(list) :
          at[1] = m => h[at] = ItemAt(list, g, c, at[1], at[2])
    BY <2>4
  <2> HIDE DEF h
  <2>8. ASSUME NEW here \in ItemPlaces(list), here[1] >= m
        PROVE  h[here] = ItemAt(list, h, c, here[1], here[2])
    <3>1. \A to \in ItemPlaces(list) : to[1] > here[1] => h[to] = g[to]
      <4>1. here[1] \in Nat /\ \A to \in ItemPlaces(list) : to[1] \in Nat
        BY <1>1, ItemPlacesKnown
      <4>2. ASSUME NEW to \in ItemPlaces(list), to[1] > here[1] PROVE h[to] = g[to]
        <5>1. to[1] > m
          BY <2>4, <2>8, <4>1, <4>2
        <5>2. QED
          BY <2>6, <4>2, <5>1
      <4>3. QED
        BY <4>2
    <3>2. ItemAt(list, h, c, here[1], here[2]) = ItemAt(list, g, c, here[1], here[2])
      BY <3>1, <1>same
    <3>3. CASE here[1] = m
      BY <3>2, <3>3, <2>7
    <3>4. CASE here[1] # m
      <4>1. here[1] > m /\ here[1] >= m + 1
        BY <1>1, <2>4, <2>8, <3>4, ItemPlacesKnown
      <4>2. h[here] = g[here] /\ g[here] = ItemAt(list, g, c, here[1], here[2])
        BY <4>1, <2>5, <2>6 DEF ItemsFrom
      <4>3. QED
        BY <3>2, <4>2
    <3>5. QED
      BY <3>3, <3>4
  <2>9. ItemsFrom(list, h, c, m)
    BY <2>8 DEF ItemsFrom
  <2>10. QED
    BY <2>2, <2>9 DEF m
<1>3. PICK g : ItemsFrom(list, g, c, 1)
  <2>1. Len(list) + 1 \in Nat /\ (Len(list) + 2) - (Len(list) + 1) = 1
    BY <1>1
  <2>2. ~(Len(list) + 1 \in Bad)
    BY <1>2
  <2>3. \E h : ItemsFrom(list, h, c, (Len(list) + 2) - (Len(list) + 1))
    BY <2>1, <2>2
  <2>4. QED
    BY <2>1, <2>3
<1> DEFINE Searches(h) == h = [at \in ItemPlaces(list) |-> ItemAt(list, h, c, at[1], at[2])]
<1>4. \E h : Searches(h)
  <2> DEFINE h == [at \in ItemPlaces(list) |-> g[at]]
  <2>1. \A at \in ItemPlaces(list) : at[1] >= 1
    BY ItemPlacesKnown
  <2>2. \A at \in ItemPlaces(list) : h[at] = g[at] /\ g[at] = ItemAt(list, g, c, at[1], at[2])
    BY <1>3, <2>1 DEF ItemsFrom
  <2>3. h = [at \in ItemPlaces(list) |-> h[at]]
    OBVIOUS
  <2> HIDE DEF h
  <2>4. \A at \in ItemPlaces(list) : ItemAt(list, h, c, at[1], at[2])
                                       = ItemAt(list, g, c, at[1], at[2])
    BY <2>2, ItemDetermined
  <2>5. \A at \in ItemPlaces(list) : h[at] = ItemAt(list, h, c, at[1], at[2])
    BY <2>2, <2>4
  <2>6. Searches(h)
    BY <2>3, <2>5
  <2>7. QED
    BY <2>6
<1>5. PICK h : Searches(h) /\ pm_items(list, first, c) = h[<<first, NUL>>]
  BY <1>4 DEF pm_items, ItemAt, ItemPlaces, ItemEnd
<1>6. \A at \in ItemPlaces(list) : h[at] = ItemAt(list, h, c, at[1], at[2])
  BY <1>5
<1>7. QED
  BY <1>5, <1>6 DEF ItemsFrom

\* Every character has a code above the one of the end.
LEMMA CodesKnown ==
  ASSUME NEW c \in ToSet(Alphabet)
  PROVE  Code(c) \in Nat /\ Code(c) > Code(NUL)
PROOF
<1>1. NUL \notin ToSet(Alphabet) /\ Alphabet \in Seq(ToSet(Alphabet))
  BY MatchingAssumption DEF Characters
<1>2. DOMAIN Alphabet = 1..Len(Alphabet) /\ Len(Alphabet) \in Nat
  BY <1>1, LenProperties
<1>3. \E k \in DOMAIN Alphabet : Alphabet[k] = c
  BY DEF ToSet
<1>4. Code(c) \in DOMAIN Alphabet /\ Code(NUL) = 0
  BY <1>1, <1>3 DEF Code
<1>5. QED
  BY <1>2, <1>4

\* The end of a name is among no items, a range of characters included.
LEMMA EndInNoItems ==
  ASSUME NEW list \in Texts, NEW first \in 1..(Len(list) + 1)
  PROVE  ~pm_items(list, first, NUL)
PROOF
<1>1. PICK w : ItemsFrom(list, w, NUL, 1) /\ pm_items(list, first, NUL) = w[<<first, NUL>>]
  BY ItemsKnown
<1>2. /\ Len(list) \in Nat /\ DOMAIN list = 1..Len(list)
      /\ \A k \in 1..Len(list) : list[k] \in ToSet(list) /\ list[k] # NUL
      /\ \A d \in ToSet(list) : d \in ToSet(Alphabet)
  <2>1. Len(list) \in Nat /\ DOMAIN list = 1..Len(list)
    BY TextFacts
  <2>2. NUL \notin ToSet(Alphabet)
    BY MatchingAssumption DEF Characters
  <2>3. QED
    BY <2>1, <2>2, TextFacts DEF ToSet
<1> DEFINE Odd == {n \in Nat : \E at \in ItemPlaces(list) :
                                 n = (Len(list) + 1) - at[1] /\ w[at]}
<1>3. Odd = {}
  <2>1. SUFFICES ASSUME Odd # {} PROVE FALSE
    OBVIOUS
  <2>2. PICK n \in Odd : \A y \in Odd : n <= y
    <3>1. Odd \in SUBSET Nat
      OBVIOUS
    <3>2. QED
      BY <2>1, <3>1, LeastNumber
  <2>3. PICK at \in ItemPlaces(list) : n = (Len(list) + 1) - at[1] /\ w[at]
    BY <2>2
  <2> DEFINE i == at[1]
             rangeStart == at[2]
  <2>4. i \in 1..(Len(list) + 1) /\ rangeStart \in ToSet(list) \cup {NUL}
    BY ItemPlacesKnown
  <2>5. ASSUME NEW to \in ItemPlaces(list), to[1] > i PROVE ~w[to]
    <3>1. to[1] \in 1..(Len(list) + 1)
      BY ItemPlacesKnown
    <3>2. (Len(list) + 1) - to[1] \in Nat /\ ~(n <= (Len(list) + 1) - to[1])
      BY <1>2, <2>3, <2>4, <2>5, <3>1
    <3>3. (Len(list) + 1) - to[1] \notin Odd
      BY <2>2, <3>2
    <3>4. QED
      BY <3>2, <3>3
  <2>6. w[at] = ItemAt(list, w, NUL, i, rangeStart)
    BY <1>1, <2>4 DEF ItemsFrom
  <2> HIDE DEF Odd, i, rangeStart
  <2>7. ASSUME NEW k \in i..Len(list)
        PROVE  /\ ItemEnd(list, k) \in 1..Len(list)
               /\ \A d \in ToSet(list) \cup {NUL} : ~w[<<ItemEnd(list, k) + 1, d>>]
    <3>1. ItemEnd(list, k) \in k..Len(list)
      BY <1>2, <2>4 DEF ItemEnd
    <3>2. ItemEnd(list, k) + 1 \in 1..(Len(list) + 1) /\ ItemEnd(list, k) + 1 > i
      BY <1>2, <2>4, <3>1
    <3>3. ASSUME NEW d \in ToSet(list) \cup {NUL} PROVE ~w[<<ItemEnd(list, k) + 1, d>>]
      <4>1. <<ItemEnd(list, k) + 1, d>> \in ItemPlaces(list)
        BY <3>2 DEF ItemPlaces
      <4>2. QED
        BY <2>5, <3>2, <4>1
    <3>4. ItemEnd(list, k) \in 1..Len(list)
      BY <1>2, <2>4, <3>1
    <3>5. QED
      BY <3>3, <3>4
  <2>8. CASE i > Len(list)
    <3>1. ~(i < Len(list))
      BY <1>2, <2>4, <2>8
    <3>2. QED
      BY <2>3, <2>6, <2>8, <3>1 DEF ItemAt
  <2>9. CASE i < Len(list) /\ list[i] = "-" /\ rangeStart # NUL
    <3>1. ~w[<<ItemEnd(list, i + 1) + 1, NUL>>]
      BY <1>2, <2>4, <2>7, <2>9
    <3>2. Code(rangeStart) \in Nat /\ Code(rangeStart) > Code(NUL) /\ Code(NUL) = 0
      BY <1>2, <2>4, <2>9, CodesKnown DEF Code
    <3>3. ~(Code(rangeStart) <= Code(NUL))
      BY <3>2
    <3>4. ~(i > Len(list))
      BY <1>2, <2>4, <2>9
    <3>5. QED
      BY <2>3, <2>6, <2>9, <3>1, <3>3, <3>4 DEF ItemAt
  <2>10. CASE i <= Len(list) /\ ~(i < Len(list) /\ list[i] = "-" /\ rangeStart # NUL)
    <3>1. i \in i..Len(list)
      BY <1>2, <2>4, <2>10
    <3>2. /\ ItemEnd(list, i) \in 1..Len(list)
          /\ \A d \in ToSet(list) \cup {NUL} : ~w[<<ItemEnd(list, i) + 1, d>>]
      BY <2>7, <3>1
    <3>3. list[ItemEnd(list, i)] # NUL /\ list[ItemEnd(list, i)] \in ToSet(list)
      BY <1>2, <3>2
    <3>4. ~w[<<ItemEnd(list, i) + 1, IF list[i] = "-" THEN NUL ELSE list[ItemEnd(list, i)]>>]
      BY <3>2, <3>3
    <3>5. ~(i > Len(list))
      BY <1>2, <2>4, <2>10
    <3>6. QED
      BY <2>3, <2>6, <2>10, <3>3, <3>4, <3>5 DEF ItemAt
  <2>11. QED
    BY <1>2, <2>4, <2>8, <2>9, <2>10
<1>4. <<first, NUL>> \in ItemPlaces(list) /\ <<first, NUL>>[1] = first
  BY DEF ItemPlaces
<1>5. (Len(list) + 1) - <<first, NUL>>[1] \in Nat
  BY <1>2, <1>4
<1>6. ~w[<<first, NUL>>]
  BY <1>3, <1>4, <1>5
<1>7. QED
  BY <1>1, <1>6

\* A class at this place of the pattern that the end of a name is in.
AcceptsEnd(p, i) ==
  /\ CharAt(p, i) = "[" /\ ClassEnd(p, i + 1) # 0
  /\ pm_list(SubSeq(p, i + 1, ClassEnd(p, i + 1) - 1), NUL)

\* The pattern has one.
EndInClass(p) == \E i \in DOMAIN p : AcceptsEnd(p, i)

\* A turn depends on what the loop says further on, and within the name but for
\* a class that its end is in.
LEMMA TurnAgrees ==
  ASSUME NEW p \in Texts, NEW s \in Texts, NEW i \in 1..(Len(p) + 1),
         NEW j \in 1..(Len(s) + 1), NEW flags \in SUBSET {NO_ANCHOR_START, NO_ANCHOR_END},
         NEW f1, NEW f2, AgreeWithin(f1, f2, p, s, i + 1), NEW b1, NEW b2,
         j = Len(s) + 1 /\ AcceptsEnd(p, i) =>
           \A i2 \in (i + 1)..(Len(p) + 1) :
             f1[<<i2, j + 1, flags>>] = f2[<<i2, j + 1, flags>>]
  PROVE  pm_turn(f1, p, i, s, j, flags, b1) = pm_turn(f2, p, i, s, j, flags, b2)
PROOF
<1> DEFINE c == CharAt(p, i)
           d == CharAt(s, j)
<1>1. /\ Len(p) \in Nat /\ Len(s) \in Nat /\ ~(j > Len(s) + 1) /\ i \in Nat \ {0}
      /\ c = NUL <=> i > Len(p)
      /\ d = NUL <=> j > Len(s)
      /\ CharAt(p, i + 1) = NUL <=> i + 1 > Len(p)
  <2>1. Len(p) \in Nat /\ Len(s) \in Nat
    BY TextFacts
  <2>2. i \in Nat \ {0} /\ j \in Nat \ {0} /\ i + 1 \in Nat \ {0}
    BY <2>1
  <2>3. QED
    BY <2>1, <2>2, TextFacts
<1>within. ASSUME NEW k \in (i + 1)..(Len(p) + 1), NEW l \in 1..(Len(s) + 1)
           PROVE  f1[<<k, l, flags>>] = f2[<<k, l, flags>>]
  BY DEF AgreeWithin
<1>next. ASSUME NEW k \in (i + 1)..(Len(p) + 1), d # NUL
         PROVE  f1[<<k, j + 1, flags>>] = f2[<<k, j + 1, flags>>]
  <2>1. j + 1 \in 1..(Len(s) + 1)
    BY <1>1, <1>next
  <2>2. QED
    BY <2>1, <1>within
<1>2. CASE c = "*" /\ CharAt(p, Past("*", p, i)) = NUL
  BY <1>2 DEF pm_turn
<1>3. CASE c = NUL
  BY <1>1, <1>3 DEF pm_turn, NUL
<1>4. CASE c = "?"
  <2>1. c # NUL /\ i + 1 \in (i + 1)..(Len(p) + 1)
    BY <1>1, <1>4 DEF NUL
  <2>2. d # NUL => f1[<<i + 1, j + 1, flags>>] = f2[<<i + 1, j + 1, flags>>]
    BY <2>1, <1>next
  <2>3. \A loop, b : pm_turn(loop, p, i, s, j, flags, b)
                       = (d # NUL /\ loop[<<i + 1, j + 1, flags>>])
    BY <1>1, <1>4 DEF pm_turn, NUL
  <2>4. QED
    BY <2>2, <2>3
<1>5. CASE c = "*" /\ CharAt(p, Past("*", p, i)) # NUL
  <2> DEFINE i2 == Past("*", p, i)
  <2>1. i2 \in (i + 1)..(Len(p) + 1) /\ i2 \in 1..(Len(p) + 1)
    <3>1. i2 \in i..(Len(p) + 1) /\ i2 > i
      BY <1>5, PastFound DEF NUL
    <3>2. QED
      BY <1>1, <3>1
  <2>2. AgreeWithin(f1, f2, p, s, i2)
    <3> HIDE DEF i2
    <3>1. \A k \in i2..(Len(p) + 1) : k \in (i + 1)..(Len(p) + 1)
      BY <1>1, <2>1
    <3>2. QED
      BY <3>1 DEF AgreeWithin
  <2>3. \A loop, b : pm_turn(loop, p, i, s, j, flags, b)
                       = \E k \in j..Len(s) : pathmatch(loop, p, i2, s, k, flags)
    BY <1>1, <1>5 DEF pm_turn, NUL
  <2> HIDE DEF i2
  <2>4. \A k \in j..Len(s) : pathmatch(f1, p, i2, s, k, flags)
                               = pathmatch(f2, p, i2, s, k, flags)
    <3> TAKE k \in j..Len(s)
    <3>1. k \in 1..(Len(s) + 1)
      BY <1>1
    <3>2. QED
      BY <2>1, <2>2, <3>1, PathmatchAgrees
  <2>5. QED
    BY <2>3, <2>4
<1>6. CASE c = "[" /\ ClassEnd(p, i + 1) # 0
  <2> DEFINE end == ClassEnd(p, i + 1)
             class == SubSeq(p, i + 1, end - 1)
  <2>1. end + 1 \in (i + 1)..(Len(p) + 1)
    <3>1. c # NUL /\ i + 1 \in 1..(Len(p) + 1)
      BY <1>1, <1>6 DEF NUL
    <3>2. end \in (i + 1)..Len(p)
      BY <1>6, <3>1, ClassEndFound
    <3>3. QED
      BY <1>1, <3>2
  <2>2. \A loop, b : pm_turn(loop, p, i, s, j, flags, b)
                       = (pm_list(class, d) /\ loop[<<end + 1, j + 1, flags>>])
    BY <1>1, <1>6 DEF pm_turn, NUL
  <2>3. pm_list(class, d) =>
          f1[<<end + 1, j + 1, flags>>] = f2[<<end + 1, j + 1, flags>>]
    <3>1. CASE d # NUL
      BY <2>1, <3>1, <1>next
    <3>2. CASE d = NUL
      <4>1. j = Len(s) + 1
        BY <1>1, <3>2
      <4>2. ASSUME pm_list(class, d) PROVE AcceptsEnd(p, i)
        BY <1>6, <3>2, <4>2 DEF AcceptsEnd
      <4>3. QED
        BY <2>1, <4>1, <4>2
    <3>3. QED
      BY <3>1, <3>2
  <2> HIDE DEF end, class
  <2>4. QED
    BY <2>2, <2>3
<1>7. CASE c = "\\" /\ CharAt(p, i + 1) # NUL
  <2>1. i + 2 \in (i + 1)..(Len(p) + 1) /\ c # NUL
    BY <1>1, <1>7 DEF NUL
  <2>2. \A loop, b : pm_turn(loop, p, i, s, j, flags, b)
                       = (CharAt(p, i + 1) = d /\ loop[<<i + 2, j + 1, flags>>])
    BY <1>1, <1>7 DEF pm_turn, NUL
  <2>3. CharAt(p, i + 1) = d
          => f1[<<i + 2, j + 1, flags>>] = f2[<<i + 2, j + 1, flags>>]
    BY <1>7, <2>1, <1>next
  <2>4. QED
    BY <2>2, <2>3
<1>8. CASE c = "/"
  <2> DEFINE i2 == pm_slashskip(p, i)
             j2 == pm_slashskip(s, j)
  <2>1. i2 \in (i + 1)..(Len(p) + 1) /\ j2 \in 1..(Len(s) + 1)
    <3>1. i2 \in i..(Len(p) + 1) /\ i2 > i /\ j2 \in j..(Len(s) + 1)
      BY <1>8, SlashskipFound
    <3>2. QED
      BY <1>1, <3>1
  <2>2. \A loop, b : pm_turn(loop, p, i, s, j, flags, b)
                       = /\ d \in {"/", NUL}
                         /\ \/ CharAt(p, i2) = NUL /\ NO_ANCHOR_END \in flags
                            \/ loop[<<i2, j2, flags>>]
    BY <1>1, <1>8 DEF pm_turn, NUL
  <2>3. f1[<<i2, j2, flags>>] = f2[<<i2, j2, flags>>]
    BY <2>1, <1>within
  <2> HIDE DEF i2, j2
  <2>4. QED
    BY <2>2, <2>3
<1>9. CASE c = "$" /\ CharAt(p, i + 1) = NUL /\ NO_ANCHOR_END \in flags
  <2>1. \A loop, b : pm_turn(loop, p, i, s, j, flags, b)
                       = (CharAt(s, pm_slashskip(s, j)) = NUL)
    BY <1>1, <1>9 DEF pm_turn, NUL
  <2>2. QED
    BY <2>1
<1>10. CASE /\ c \notin {NUL, "?", "*", "/"}
            /\ ~(c = "[" /\ ClassEnd(p, i + 1) # 0)
            /\ ~(c = "\\" /\ CharAt(p, i + 1) # NUL)
            /\ ~(c = "$" /\ CharAt(p, i + 1) = NUL /\ NO_ANCHOR_END \in flags)
  <2>1. i + 1 \in (i + 1)..(Len(p) + 1)
    BY <1>1, <1>10
  <2>2. \A loop, b : pm_turn(loop, p, i, s, j, flags, b)
                       = (c = d /\ loop[<<i + 1, j + 1, flags>>])
    BY <1>1, <1>10 DEF pm_turn
  <2>3. c = d => f1[<<i + 1, j + 1, flags>>] = f2[<<i + 1, j + 1, flags>>]
    BY <1>10, <2>1, <1>next
  <2>4. QED
    BY <2>2, <2>3
<1>11. QED
  BY <1>2, <1>3, <1>4, <1>5, <1>6, <1>7, <1>8, <1>9, <1>10

Flags == SUBSET {NO_ANCHOR_START, NO_ANCHOR_END}

LEMMA PlacesKnown ==
  ASSUME NEW p, NEW s
  PROVE  /\ \A i \in 1..(Len(p) + 1), j \in 1..(Len(s) + 2), flags \in Flags :
              <<i, j, flags>> \in Places(p, s)
         /\ \A at \in Places(p, s) :
              /\ at = <<at[1], at[2], at[3]>>
              /\ at[1] \in 1..(Len(p) + 1) /\ at[2] \in 1..(Len(s) + 2) /\ at[3] \in Flags
BY DEF Places, Flags

\* The loop at a place, where it is known what it says further on.
LEMMA TurnDetermined ==
  ASSUME NEW p \in Texts, NEW s \in Texts, NEW b, NEW f1, NEW f2, NEW at \in Places(p, s),
         \A to \in Places(p, s) : to[1] > at[1] => f1[to] = f2[to]
  PROVE  pm_turn(f1, p, at[1], s, at[2], at[3], b) = pm_turn(f2, p, at[1], s, at[2], at[3], b)
PROOF
<1> DEFINE i == at[1]
           j == at[2]
           flags == at[3]
<1>1. Len(p) \in Nat /\ Len(s) \in Nat
  BY TextFacts
<1>2. i \in 1..(Len(p) + 1) /\ j \in 1..(Len(s) + 2) /\ flags \in Flags
  BY PlacesKnown
<1>3. ASSUME NEW i2 \in (i + 1)..(Len(p) + 1), NEW j2 \in 1..(Len(s) + 2), NEW g \in Flags
      PROVE  f1[<<i2, j2, g>>] = f2[<<i2, j2, g>>]
  <2>1. i2 \in 1..(Len(p) + 1) /\ i2 > i
    BY <1>1, <1>2
  <2>2. <<i2, j2, g>> \in Places(p, s)
    BY <2>1, PlacesKnown
  <2>3. <<i2, j2, g>>[1] > at[1]
    BY <2>1
  <2>4. QED
    BY <2>2, <2>3
<1> HIDE DEF i, j, flags
<1>4. CASE j <= Len(s) + 1
  <2>1. j \in 1..(Len(s) + 1)
    BY <1>1, <1>2, <1>4
  <2>2. AgreeWithin(f1, f2, p, s, i + 1)
    <3>1. \A j2 \in 1..(Len(s) + 1) : j2 \in 1..(Len(s) + 2)
      BY <1>1
    <3>2. QED
      BY <1>3, <3>1 DEF AgreeWithin, Flags
  <2>3. \A i2 \in (i + 1)..(Len(p) + 1) :
          f1[<<i2, j + 1, flags>>] = f2[<<i2, j + 1, flags>>]
    <3>1. j + 1 \in 1..(Len(s) + 2)
      BY <1>1, <2>1
    <3>2. QED
      BY <1>2, <1>3, <3>1
  <2>4. flags \in SUBSET {NO_ANCHOR_START, NO_ANCHOR_END}
    BY <1>2 DEF Flags
  <2>5. pm_turn(f1, p, i, s, j, flags, b) = pm_turn(f2, p, i, s, j, flags, b)
    BY <1>2, <2>1, <2>2, <2>3, <2>4, TurnAgrees
  <2>6. QED
    BY <2>5 DEF i, j, flags
<1>5. CASE j > Len(s) + 1
  <2>1. pm_turn(f1, p, i, s, j, flags, b) = pm_turn(f2, p, i, s, j, flags, b)
    BY <1>5 DEF pm_turn
  <2>2. QED
    BY <2>1 DEF i, j, flags
<1>6. QED
  BY <1>1, <1>2, <1>4, <1>5

LoopsFrom(f1, p, s, b, m) ==
  \A at \in Places(p, s) :
    at[1] >= m => f1[at] = pm_turn(f1, p, at[1], s, at[2], at[3], b)

\* There is such a function as the loop: what it says at a place follows from
\* what it says further on in the pattern.
LEMMA LoopKnown ==
  ASSUME NEW p \in Texts, NEW s \in Texts, NEW b
  PROVE  LoopsFrom(pm_loop(p, s, b), p, s, b, 1)
PROOF
<1> DEFINE Bad == {n \in Nat : n <= Len(p) + 1
                                 /\ ~\E h : LoopsFrom(h, p, s, b, (Len(p) + 2) - n)}
<1>1. Len(p) \in Nat
  BY TextFacts
<1>same. \A f1, f2 : \A at \in Places(p, s) :
           (\A to \in Places(p, s) : to[1] > at[1] => f1[to] = f2[to])
             => pm_turn(f1, p, at[1], s, at[2], at[3], b)
                  = pm_turn(f2, p, at[1], s, at[2], at[3], b)
  BY TurnDetermined
<1>2. Bad = {}
  <2>1. SUFFICES ASSUME Bad # {} PROVE FALSE
    OBVIOUS
  <2>2. PICK n \in Bad : \A y \in Bad : n <= y
    <3>1. Bad \in SUBSET Nat
      OBVIOUS
    <3>2. QED
      BY <2>1, <3>1, LeastNumber
  <2>3. n # 0
    <3>1. ASSUME n = 0 PROVE FALSE
      <4>1. \A at \in Places(p, s) : ~(at[1] >= (Len(p) + 2) - n)
        BY <1>1, <3>1, PlacesKnown
      <4>2. QED
        BY <2>2, <4>1 DEF LoopsFrom
    <3>2. QED
      BY <3>1
  <2> DEFINE m == (Len(p) + 2) - n
  <2>4. /\ n - 1 \in Nat /\ n - 1 <= Len(p) + 1 /\ n - 1 \notin Bad
        /\ (Len(p) + 2) - (n - 1) = m + 1 /\ m \in 1..(Len(p) + 1)
    <3>1. n \in Nat /\ n <= Len(p) + 1 /\ \A y \in Bad : n <= y
      BY <2>2
    <3> HIDE DEF Bad
    <3>2. n - 1 \in Nat /\ ~(n <= n - 1)
      BY <3>1, <2>3
    <3>3. n - 1 \notin Bad
      BY <3>1, <3>2
    <3>4. QED
      BY <1>1, <3>1, <3>2, <3>3
  <2>5. PICK g : LoopsFrom(g, p, s, b, m + 1)
    BY <2>4
  <2> DEFINE h == [at \in Places(p, s) |->
                     IF at[1] > m THEN g[at] ELSE pm_turn(g, p, at[1], s, at[2], at[3], b)]
  <2> HIDE DEF m
  <2>6. \A at \in Places(p, s) : at[1] > m => h[at] = g[at]
    OBVIOUS
  <2>7. \A at \in Places(p, s) :
          at[1] = m => h[at] = pm_turn(g, p, at[1], s, at[2], at[3], b)
    BY <2>4
  <2> HIDE DEF h
  <2>8. ASSUME NEW here \in Places(p, s), here[1] >= m
        PROVE  h[here] = pm_turn(h, p, here[1], s, here[2], here[3], b)
    <3>1. \A to \in Places(p, s) : to[1] > here[1] => h[to] = g[to]
      <4>1. here[1] \in Nat /\ \A to \in Places(p, s) : to[1] \in Nat
        BY <1>1, PlacesKnown
      <4>2. ASSUME NEW to \in Places(p, s), to[1] > here[1] PROVE h[to] = g[to]
        <5>1. to[1] > m
          BY <2>4, <2>8, <4>1, <4>2
        <5>2. QED
          BY <2>6, <4>2, <5>1
      <4>3. QED
        BY <4>2
    <3>2. pm_turn(h, p, here[1], s, here[2], here[3], b) = pm_turn(g, p, here[1], s, here[2], here[3], b)
      BY <3>1, <1>same
    <3>3. CASE here[1] = m
      BY <3>2, <3>3, <2>7
    <3>4. CASE here[1] # m
      <4>1. here[1] > m /\ here[1] >= m + 1
        BY <1>1, <2>4, <2>8, <3>4, PlacesKnown
      <4>2. h[here] = g[here] /\ g[here] = pm_turn(g, p, here[1], s, here[2], here[3], b)
        BY <4>1, <2>5, <2>6 DEF LoopsFrom
      <4>3. QED
        BY <3>2, <4>2
    <3>5. QED
      BY <3>3, <3>4
  <2>9. LoopsFrom(h, p, s, b, m)
    BY <2>8 DEF LoopsFrom
  <2>10. QED
    BY <2>2, <2>9 DEF m
<1>3. PICK g : LoopsFrom(g, p, s, b, 1)
  <2>1. Len(p) + 1 \in Nat /\ (Len(p) + 2) - (Len(p) + 1) = 1
    BY <1>1
  <2>2. ~(Len(p) + 1 \in Bad)
    BY <1>2
  <2>3. \E h : LoopsFrom(h, p, s, b, (Len(p) + 2) - (Len(p) + 1))
    BY <2>1, <2>2
  <2>4. QED
    BY <2>1, <2>3
<1> DEFINE Loops(h) == h = [at \in Places(p, s) |->
                              pm_turn(h, p, at[1], s, at[2], at[3], b)]
<1>4. \E h : Loops(h)
  <2> DEFINE h == [at \in Places(p, s) |-> g[at]]
  <2>1. \A at \in Places(p, s) : at[1] >= 1
    BY PlacesKnown
  <2>2. \A at \in Places(p, s) : h[at] = g[at]
                        /\ g[at] = pm_turn(g, p, at[1], s, at[2], at[3], b)
    BY <1>3, <2>1 DEF LoopsFrom
  <2>3. h = [at \in Places(p, s) |-> h[at]]
    OBVIOUS
  <2> HIDE DEF h
  <2>4. \A at \in Places(p, s) : pm_turn(h, p, at[1], s, at[2], at[3], b)
                                   = pm_turn(g, p, at[1], s, at[2], at[3], b)
    BY <2>2, TurnDetermined
  <2>5. \A at \in Places(p, s) : h[at] = pm_turn(h, p, at[1], s, at[2], at[3], b)
    BY <2>2, <2>4
  <2>6. Loops(h)
    BY <2>3, <2>5
  <2>7. QED
    BY <2>6
<1>5. Loops(pm_loop(p, s, b))
  BY <1>4 DEF pm_loop
<1> DEFINE l == pm_loop(p, s, b)
<1>6. \A at \in Places(p, s) : l[at] = pm_turn(l, p, at[1], s, at[2], at[3], b)
  <2> HIDE DEF l
  <2> QED BY <1>5 DEF l
<1>7. QED
  BY <1>6 DEF LoopsFrom

\* Unless the end of a name is in a class of the pattern, the matcher goes no
\* further: what is behind it makes no difference.
LEMMA EndNotPassed ==
  ASSUME NEW p \in Texts, NEW s \in Texts, NEW flags \in Flags, NEW b1, NEW b2,
         ~EndInClass(p)
  PROVE  lafe_pathmatch(p, s, flags, b1) = lafe_pathmatch(p, s, flags, b2)
PROOF
<1> DEFINE l1 == pm_loop(p, s, b1)
           l2 == pm_loop(p, s, b2)
           Bad == {n \in Nat : n <= Len(p) + 1
                                 /\ ~AgreeWithin(l1, l2, p, s, (Len(p) + 2) - n)}
<1>1. /\ Len(p) \in Nat /\ Len(s) \in Nat /\ DOMAIN p = 1..Len(p)
      /\ CharAt(p, Len(p) + 1) = NUL
  <2>1. Len(p) \in Nat /\ Len(s) \in Nat /\ DOMAIN p = 1..Len(p)
    BY TextFacts
  <2>2. Len(p) + 1 \in Nat \ {0} /\ Len(p) + 1 > Len(p)
    BY <2>1
  <2>3. QED
    BY <2>1, <2>2, TextFacts
<1>2. LoopsFrom(l1, p, s, b1, 1) /\ LoopsFrom(l2, p, s, b2, 1)
  BY LoopKnown
<1> HIDE DEF l1, l2
<1>3. Bad = {}
  <2>1. SUFFICES ASSUME Bad # {} PROVE FALSE
    OBVIOUS
  <2>2. PICK n \in Bad : \A y \in Bad : n <= y
    <3>1. Bad \in SUBSET Nat
      OBVIOUS
    <3>2. QED
      BY <2>1, <3>1, LeastNumber
  <2>3. n # 0
    <3>1. ASSUME n = 0 PROVE FALSE
      <4>1. AgreeWithin(l1, l2, p, s, (Len(p) + 2) - n)
        <5>1. (Len(p) + 2) - n = Len(p) + 2 /\ (Len(p) + 2)..(Len(p) + 1) = {}
          BY <1>1, <3>1
        <5>2. QED
          BY <5>1 DEF AgreeWithin
      <4>2. QED
        BY <2>2, <4>1
    <3>2. QED
      BY <3>1
  <2> DEFINE m == (Len(p) + 2) - n
  <2>4. /\ n - 1 \in Nat /\ n - 1 <= Len(p) + 1 /\ n - 1 \notin Bad
        /\ (Len(p) + 2) - (n - 1) = m + 1 /\ m \in 1..(Len(p) + 1)
    <3>1. n \in Nat /\ n <= Len(p) + 1 /\ \A y \in Bad : n <= y
      BY <2>2
    <3> HIDE DEF Bad
    <3>2. n - 1 \in Nat /\ ~(n <= n - 1)
      BY <3>1, <2>3
    <3>3. n - 1 \notin Bad
      BY <3>1, <3>2
    <3>4. QED
      BY <1>1, <3>1, <3>2, <3>3
  <2>5. AgreeWithin(l1, l2, p, s, m + 1)
    BY <2>4
  <2> HIDE DEF m
  <2>6. ~AcceptsEnd(p, m)
    <3>1. CASE m = Len(p) + 1
      BY <3>1, <1>1 DEF AcceptsEnd, NUL
    <3>2. CASE m # Len(p) + 1
      BY <3>2, <2>4, <1>1 DEF EndInClass
    <3>3. QED
      BY <3>1, <3>2
  <2>7. ASSUME NEW j \in 1..(Len(s) + 1), NEW g \in SUBSET {NO_ANCHOR_START, NO_ANCHOR_END}
        PROVE  l1[<<m, j, g>>] = l2[<<m, j, g>>]
    <3>1. <<m, j, g>> \in Places(p, s) /\ m >= 1
      <4>1. j \in 1..(Len(s) + 2) /\ g \in Flags
        BY <1>1 DEF Flags
      <4>2. QED
        BY <2>4, <4>1, PlacesKnown
    <3>2. /\ l1[<<m, j, g>>] = pm_turn(l1, p, m, s, j, g, b1)
          /\ l2[<<m, j, g>>] = pm_turn(l2, p, m, s, j, g, b2)
      BY <1>2, <3>1 DEF LoopsFrom
    <3>3. pm_turn(l1, p, m, s, j, g, b1) = pm_turn(l2, p, m, s, j, g, b2)
      BY <2>4, <2>5, <2>6, TurnAgrees
    <3>4. QED
      BY <3>2, <3>3
  <2>8. AgreeWithin(l1, l2, p, s, m)
    <3>1. ASSUME NEW i \in m..(Len(p) + 1), NEW j \in 1..(Len(s) + 1),
                 NEW g \in SUBSET {NO_ANCHOR_START, NO_ANCHOR_END}
          PROVE  l1[<<i, j, g>>] = l2[<<i, j, g>>]
      <4>1. CASE i = m
        BY <4>1, <2>7
      <4>2. CASE i # m
        <5>1. i \in (m + 1)..(Len(p) + 1)
          BY <1>1, <2>4, <4>2
        <5>2. QED
          BY <2>5, <5>1 DEF AgreeWithin
      <4>3. QED
        BY <4>1, <4>2
    <3>2. QED
      BY <3>1 DEF AgreeWithin
  <2>9. QED
    BY <2>2, <2>8 DEF m
<1>4. AgreeWithin(l1, l2, p, s, 1)
  <2>1. Len(p) + 1 \in Nat /\ (Len(p) + 2) - (Len(p) + 1) = 1
    BY <1>1
  <2>2. ~(Len(p) + 1 \in Bad)
    BY <1>3
  <2>3. AgreeWithin(l1, l2, p, s, (Len(p) + 2) - (Len(p) + 1))
    BY <2>1, <2>2
  <2>4. QED
    BY <2>1, <2>3
<1>5. 1 \in 1..(Len(p) + 1) /\ 1 \in 1..(Len(s) + 1)
  BY <1>1
<1>6. pathmatch(l1, p, 1, s, 1, flags) = pathmatch(l2, p, 1, s, 1, flags)
  BY <1>4, <1>5, PathmatchAgrees DEF Flags
<1>7. QED
  BY <1>6 DEF lafe_pathmatch, l1, l2

-----------------------------------------------------------------------------
\* Lines are texts of characters, without what separates them.
LEMMA LinesAreTexts ==
  ASSUME NEW text \in Files
  PROVE  ToSet(RefLines(text)) \subseteq Texts
PROOF
<1>1. text \in Seq(Characters) /\ Len(text) \in Nat
  BY FileFacts
<1>2. PICK g : LinesOf(text, g)
  BY FileFacts
<1>3. ASSUME NEW i \in 1..Len(text) PROVE TextUpTo(text, i) \in Texts
  <2> DEFINE S == {0} \cup {k \in 1..i : IsSeparator(text, k)}
  <2>1. PICK a \in S : \A x \in S : x <= a
    <3> DEFINE Above == {k \in 0..i : i - k \in S}
    <3>1. Above \in SUBSET Nat /\ i \in Above
      BY <1>1
    <3>2. PICK b \in Above : \A y \in Above : b <= y
      BY <3>1, LeastNumber
    <3>3. \A x \in S : i - x \in Above /\ x \in 0..i
      BY <1>1
    <3>4. \A x \in S : x <= i - b
      <4> TAKE x \in S
      <4>1. b <= i - x /\ x \in 0..i /\ b \in 0..i
        BY <3>2, <3>3
      <4>2. QED
        BY <1>1, <4>1
    <3>5. QED
      BY <3>2, <3>4
  <2>2. S \in SUBSET Int
    OBVIOUS
  <2>3. Max(S) = a
    BY <2>1, <2>2, LastSeparator
  <2>4. \A k \in (a + 1)..i : text[k] \in ToSet(Alphabet)
    <3> TAKE k \in (a + 1)..i
    <3>1. k \in 1..i /\ ~(k <= a) /\ k \in 1..Len(text)
      BY <1>1, <2>1
    <3>2. ~IsSeparator(text, k)
      BY <2>1, <3>1
    <3>3. text[k] \in Characters
      BY <1>1, <3>1, ElementOfSeq
    <3>4. QED
      BY <3>2, <3>3 DEF IsSeparator, Characters
  <2>5. a \in Int
    BY <2>1, <2>2
  <2>6. SubSeq(text, a + 1, i) \in Texts
    <3>1. a + 1 \in Int /\ i \in Int
      BY <2>5
    <3>2. QED
      BY <2>4, <3>1, SubSeqProperties DEF Texts
  <2>7. QED
    BY <2>3, <2>6 DEF TextUpTo
<1> DEFINE Odd == {i \in 0..Len(text) : g[i] \notin Seq(Texts)}
<1>4. Odd = {}
  <2>1. SUFFICES ASSUME Odd # {} PROVE FALSE
    OBVIOUS
  <2>2. PICK i \in Odd : \A y \in Odd : i <= y
    <3>1. Odd \in SUBSET Nat
      OBVIOUS
    <3>2. QED
      BY <2>1, <3>1, LeastNumber
  <2>3. i # 0
    BY <1>2, <2>2, EmptySeq DEF LinesOf
  <2>4. i \in 1..Len(text) /\ i - 1 \in 0..Len(text) /\ i - 1 \notin Odd
    BY <2>2, <2>3
  <2>5. TextUpTo(text, i) \in Texts /\ g[i - 1] \in Seq(Texts)
    BY <1>3, <2>4
  <2>6. g[i] = WithLineTo(i, g[i - 1], text)
    BY <1>2, <2>4 DEF LinesOf
  <2>7. Append(g[i - 1], TextUpTo(text, i)) \in Seq(Texts)
    BY <2>5, AppendProperties
  <2>8. QED
    BY <2>2, <2>5, <2>6, <2>7 DEF WithLineTo
<1>5. RefLines(text) \in Seq(Texts)
  <2>1. g[Len(text)] = RefLines(text) /\ Len(text) \in 0..Len(text)
    BY <1>1, <1>2 DEF LinesOf
  <2>2. QED
    BY <1>4, <2>1
<1>6. QED
  BY <1>5, LenProperties, ElementOfSeq DEF ToSet

\* What is matched are texts of the alphabet.
LEMMA GivenTexts ==
  /\ \A given \in Given : given \in Texts /\ Stripped(given) \in Texts
  /\ Names \subseteq Texts
PROOF
<1>1. Names \subseteq Texts
  BY MatchingAssumption DEF Texts
<1>2. ASSUME NEW given \in Given PROVE given \in Texts
  <2>1. CASE given \in Patterns \cup Companions
    BY <2>1, MatchingAssumption DEF Texts
  <2>2. CASE \E text \in Files : given \in ToSet(RefLines(text))
    BY <2>2, LinesAreTexts
  <2>3. QED
    BY <2>1, <2>2 DEF Given
<1>3. ASSUME NEW given \in Given PROVE Stripped(given) \in Texts
  <2>1. given \in Texts /\ Len(given) \in Nat
    BY <1>2, TextFacts
  <2>2. \A i \in 1..(Len(given) - 1) : given[i] \in ToSet(Alphabet)
    BY <2>1, TextFacts
  <2>3. Front(given) \in Texts
    BY <2>1, <2>2, SubSeqProperties DEF Front, Texts
  <2>4. QED
    BY <2>1, <2>3 DEF Stripped
<1>4. QED
  BY <1>1, <1>2, <1>3

\* Only a class that is negated accepts it.
LEMMA OnlyNegatedAcceptsEnd ==
  ASSUME NEW p \in Texts, EndInClass(p)
  PROVE  \E i \in 1..(Len(p) - 1) : p[i] = "[" /\ p[i + 1] \in {"!", "^"}
PROOF
<1>1. PICK i \in DOMAIN p : AcceptsEnd(p, i)
  BY DEF EndInClass
<1> DEFINE end == ClassEnd(p, i + 1)
           list == SubSeq(p, i + 1, end - 1)
<1>2. /\ Len(p) \in Nat /\ i \in 1..Len(p) /\ DOMAIN p = 1..Len(p)
      /\ \A k \in 1..Len(p) : p[k] \in ToSet(Alphabet)
  BY TextFacts
<1>3. CharAt(p, i) = "[" /\ end # 0 /\ pm_list(list, NUL)
  BY <1>1 DEF AcceptsEnd
<1>4. i + 1 \in 1..(Len(p) + 1)
  BY <1>2
<1>5. end \in (i + 1)..Len(p)
  BY <1>3, <1>4, ClassEndFound
<1> HIDE DEF end
<1>6. /\ list \in Texts /\ Len(list) = IF i + 1 <= end - 1 THEN end - (i + 1) ELSE 0
      /\ \A k \in 1..Len(list) : list[k] = p[(i + 1) + k - 1]
  <2>1. i + 1 \in Int /\ end - 1 \in Int
        /\ \A k \in (i + 1)..(end - 1) : p[k] \in ToSet(Alphabet)
    BY <1>2, <1>5
  <2>2. (end - 1) - (i + 1) + 1 = end - (i + 1)
    BY <1>2, <1>5
  <2>3. QED
    BY <2>1, <2>2, SubSeqProperties DEF Texts
<1> HIDE DEF list
<1>7. list # << >> /\ list[1] \in {"!", "^"}
  <2>1. 1 \in 1..(Len(list) + 1)
    BY <1>6, TextFacts
  <2>2. ~pm_items(list, 1, NUL)
    BY <1>6, <2>1, EndInNoItems
  <2>3. QED
    BY <1>3, <2>2 DEF pm_list
<1>8. Len(list) > 0
  <2>1. Len(list) \in Nat /\ list \in Seq(ToSet(Alphabet))
    BY <1>6, TextFacts DEF Texts
  <2>2. Len(list) # 0
    BY <1>7, <2>1, LenProperties, EmptySeq
  <2>3. QED
    BY <2>1, <2>2
<1>9. list[1] = p[i + 1] /\ i < Len(p)
  <2>1. 1 \in 1..Len(list)
    BY <1>8, <1>6, TextFacts
  <2>2. list[1] = p[(i + 1) + 1 - 1] /\ (i + 1) + 1 - 1 = i + 1
    BY <1>2, <1>6, <2>1
  <2>3. QED
    BY <1>2, <1>5, <2>2
<1>10. i \in 1..(Len(p) - 1) /\ p[i] = "["
  BY <1>2, <1>3, <1>9 DEF CharAt
<1>11. QED
  BY <1>7, <1>9, <1>10

\* No pattern there is has a class that the end of a name is in.
EndInNoClass ==
  \A given \in Given : ~EndInClass(Stripped(given))

\* The lists, where what is behind the end of a name never counts.
LEMMA SameAnswer ==
  ASSUME EndInNoClass, ListsTyped, NEW name \in Names
  PROVE  lafe_excluded(name, TRUE) = lafe_excluded(name, FALSE)
PROOF
<1>same. ASSUME NEW p \in Texts, NEW flags \in Flags, ~EndInClass(p)
         PROVE  lafe_pathmatch(p, name, flags, TRUE) = lafe_pathmatch(p, name, flags, FALSE)
  <2>1. name \in Texts
    BY GivenTexts
  <2>2. \A b1, b2 : lafe_pathmatch(p, name, flags, b1) = lafe_pathmatch(p, name, flags, b2)
    BY <1>same, <2>1, EndNotPassed
  <2>3. QED
    BY <2>2
<1>1. ASSUME NEW entry \in Entries
      PROVE  /\ match_inclusion(entry, name, TRUE) = match_inclusion(entry, name, FALSE)
             /\ match_exclusion(entry, name, TRUE) = match_exclusion(entry, name, FALSE)
  <2>1. entry.given \in Given /\ entry.pattern = Stripped(entry.given)
    BY DEF Entries
  <2>2. entry.pattern \in Texts /\ name \in Texts /\ ~EndInClass(entry.pattern)
    BY <2>1, GivenTexts DEF EndInNoClass
  <2>3. {NO_ANCHOR_END} \in Flags /\ {NO_ANCHOR_START, NO_ANCHOR_END} \in Flags
    BY DEF Flags
  <2>4. lafe_pathmatch(entry.pattern, name, {NO_ANCHOR_END}, TRUE)
          = lafe_pathmatch(entry.pattern, name, {NO_ANCHOR_END}, FALSE)
    BY <2>2, <2>3, <1>same
  <2>5. lafe_pathmatch(entry.pattern, name, {NO_ANCHOR_START, NO_ANCHOR_END}, TRUE)
          = lafe_pathmatch(entry.pattern, name, {NO_ANCHOR_START, NO_ANCHOR_END}, FALSE)
    BY <2>2, <2>3, <1>same
  <2>6. QED
    BY <2>4, <2>5 DEF match_inclusion, match_exclusion
<1>2. /\ \A i \in DOMAIN inclusions : inclusions[i] \in Entries
      /\ \A i \in DOMAIN exclusions : exclusions[i] \in Entries
  BY LenProperties, ElementOfSeq DEF ListsTyped
<1>3. /\ \A i \in DOMAIN inclusions : match_inclusion(inclusions[i], name, TRUE)
                                        = match_inclusion(inclusions[i], name, FALSE)
      /\ \A i \in DOMAIN exclusions : match_exclusion(exclusions[i], name, TRUE)
                                        = match_exclusion(exclusions[i], name, FALSE)
  BY <1>1, <1>2
<1>4. QED
  BY <1>3 DEF lafe_excluded


\* The matcher then never goes past the end of a name, whatever is added, read
\* and asked about, and in whichever order.
LEMMA NotBeyond ==
  ASSUME EndInNoClass
  PROVE  Spec => [](~overrun /\ inclusions_unmatched_count = Cardinality(Unmatched))
PROOF
<1> DEFINE Inv == LinesInv /\ ListsTyped /\ ~overrun
<1>1. Init => Inv
  <2>1. Init => ~overrun
    BY DEF Init
  <2>2. QED
    BY <2>1, ListsInitially DEF ListsInv
<1>2. Inv /\ [Next]_vars => Inv'
  <2>1. SUFFICES ASSUME LinesInv, ListsTyped, ~overrun, [Next]_vars
                 PROVE  LinesInv' /\ ListsTyped' /\ ~overrun'
    OBVIOUS
  <2>2. LinesInv'
    BY <2>1, LinesKept
  <2>3. CASE \E name \in Names : Ask(name)
    <3>1. PICK name \in Names : Ask(name)
      BY <2>3
    <3>2. PICK beyond \in BOOLEAN :
            /\ ListsTyped'
            /\ overrun' = (overrun \/ lafe_excluded(name, beyond) # lafe_excluded(name, ~beyond))
      BY <2>1, <3>1, AskedTyped
    <3>3. lafe_excluded(name, TRUE) = lafe_excluded(name, FALSE)
      BY <2>1, SameAnswer
    <3>4. beyond = TRUE \/ beyond = FALSE
      BY <3>2
    <3>5. QED
      BY <2>1, <2>2, <3>2, <3>3, <3>4
  <2>4. CASE ~\E name \in Names : Ask(name)
    BY <2>1, <2>2, <2>4, ListsUnasked
  <2>5. QED
    BY <2>3, <2>4
<1>3. Inv => ~overrun /\ inclusions_unmatched_count = Cardinality(Unmatched)
  BY DEF ListsTyped
<1>4. QED
  BY <1>1, <1>2, <1>3, PTL DEF Spec

\* No pattern has a class that is negated.
NoNegatedClass ==
  \A given \in Given, i \in Nat \ {0} :
    i < Len(given) => ~(given[i] = "[" /\ given[i + 1] \in {"!", "^"})

LEMMA NotNegated ==
  ASSUME NoNegatedClass
  PROVE  EndInNoClass
PROOF
<1>1. SUFFICES ASSUME NEW given \in Given, EndInClass(Stripped(given))
               PROVE  FALSE
  BY DEF EndInNoClass
<1> DEFINE p == Stripped(given)
<1>2. PICK i \in 1..(Len(p) - 1) : p[i] = "[" /\ p[i + 1] \in {"!", "^"}
  BY <1>1, GivenTexts, OnlyNegatedAcceptsEnd
<1>3. /\ Len(given) \in Nat
      /\ \/ p = given
         \/ Len(given) > 0 /\ p = SubSeq(given, 1, Len(given) - 1)
  <2>1. Len(given) \in Nat /\ DOMAIN given = 1..Len(given) /\ given \in Texts
    BY GivenTexts, TextFacts
  <2>2. given # << >> => Len(given) > 0
    BY <2>1, EmptySeq DEF Texts
  <2>3. QED
    BY <2>1, <2>2 DEF Stripped, Front
<1>4. /\ Len(p) \in Nat /\ Len(p) <= Len(given)
      /\ \A k \in 1..Len(p) : p[k] = given[k]
  <2>1. CASE p = given
    BY <1>3, <2>1
  <2>2. CASE Len(given) > 0 /\ p = SubSeq(given, 1, Len(given) - 1)
    <3>1. \A k \in 1..(Len(given) - 1) : given[k] \in ToSet(Alphabet)
      BY <1>3, GivenTexts, TextFacts
    <3>2. 1 \in Int /\ Len(given) - 1 \in Int /\ (Len(given) - 1) - 1 + 1 = Len(given) - 1
      BY <1>3
    <3>3. /\ Len(p) = IF 1 <= Len(given) - 1 THEN (Len(given) - 1) - 1 + 1 ELSE 0
          /\ \A k \in 1..((Len(given) - 1) - 1 + 1) : p[k] = given[1 + k - 1]
      BY <2>2, <3>1, <3>2, SubSeqProperties
    <3>4. Len(p) = Len(given) - 1
      BY <1>3, <2>2, <3>3
    <3>5. ASSUME NEW k \in 1..Len(p) PROVE p[k] = given[k]
      <4>1. k \in 1..((Len(given) - 1) - 1 + 1) /\ 1 + k - 1 = k
        BY <1>3, <3>2, <3>4
      <4>2. p[k] = given[1 + k - 1]
        BY <3>3, <4>1
      <4>3. QED
        BY <4>1, <4>2
    <3>6. QED
      BY <1>3, <2>2, <3>4, <3>5
  <2>3. QED
    BY <1>3, <2>1, <2>2
<1> HIDE DEF p
<1>5. i \in Nat \ {0} /\ i < Len(given) /\ given[i] = "[" /\ given[i + 1] \in {"!", "^"}
  <2>1. i \in 1..Len(p) /\ i + 1 \in 1..Len(p)
    BY <1>2, <1>4
  <2>2. QED
    BY <1>2, <1>3, <1>4, <2>1
<1>6. QED
  BY <1>5 DEF NoNegatedClass

\* Where no pattern has a negated class, the matcher never goes past the end of a
\* name, whatever was added, read and asked about before: what is behind it in
\* memory decides nothing (match_path.c:172).  The inclusions counted as unmatched
\* are then, as always, the ones that are not marked.
THEOREM NeverBeyondNames ==
  ASSUME NoNegatedClass
  PROVE  Spec => [](~overrun /\ inclusions_unmatched_count = Cardinality(Unmatched))
PROOF
  BY NotNegated, NotBeyond

-----------------------------------------------------------------------------
\* Patterns of ordinary characters, `?', `*' and `/', and names, in which there
\* is nothing the matcher skips and no `*' before a `/' or a `?'.
Glob(p) ==
  \A i \in DOMAIN p :
    /\ p[i] \notin {"[", "\\", "^", "$"}
    /\ p[i] \in {"/", "."} => CharAt(p, i + 1) \notin {"/", NUL}
    /\ p[i] = "*" => CharAt(p, i + 1) \notin {"/", "?"}

CleanName(s) ==
  /\ s # << >>
  /\ \A k \in DOMAIN s : /\ s[k] = "." => CharAt(s, k + 1) \notin {"/", NUL}
                         /\ s[k] = "/" => CharAt(s, k + 1) # "/"

\* The item that a character of such a pattern is, and the text of the items.
ItemOf(c) ==
  CASE c = "?" -> ToSet(Alphabet)
    [] c = "*" -> AnyText
    [] c = "/" -> {"/", NUL}
    [] OTHER -> {c}

LEMMA OneItem ==
  ASSUME NEW p \in Texts, Glob(p), NEW i \in 1..Len(p), NEW g
  PROVE  (CASE i > Len(p) -> << >>
            [] i <= Len(p) /\ p[i] = "[" /\ ClassEnd(p, i + 1) # 0 ->
                 LET class == SubSeq(p, i + 1, ClassEnd(p, i + 1) - 1) IN
                 <<{c \in ToSet(Alphabet) : pm_list(class, c)}>>
                   \o g[ClassEnd(p, i + 1) + 1]
            [] i < Len(p) /\ p[i] = "\\" -> <<{p[i + 1]}>> \o g[i + 2]
            [] OTHER ->
                 <<CASE p[i] = "?" -> ToSet(Alphabet)
                     [] p[i] = "*" -> AnyText
                     [] p[i] = "/" -> {"/", NUL}
                     [] OTHER -> {p[i]}>> \o g[i + 1])
         = <<ItemOf(p[i])>> \o g[i + 1]
PROOF
<1>1. i \in DOMAIN p /\ ~(i > Len(p))
  BY TextFacts
<1>2. p[i] # "[" /\ p[i] # "\\"
  BY <1>1 DEF Glob
<1>3. QED
  BY <1>1, <1>2 DEF ItemOf

ItemsOf(p) == [m \in 1..Len(p) |-> ItemOf(p[m])]

LEMMA ItemsOfStep ==
  ASSUME NEW p \in Texts
  PROVE  /\ Len(ItemsOf(p)) = Len(p) /\ DOMAIN ItemsOf(p) = 1..Len(p)
         /\ \A i \in 1..Len(p) :
              SubSeq(ItemsOf(p), i, Len(p))
                = <<ItemOf(p[i])>> \o SubSeq(ItemsOf(p), i + 1, Len(p))
         /\ SubSeq(ItemsOf(p), Len(p) + 1, Len(p)) = << >>
         /\ SubSeq(ItemsOf(p), 1, Len(p)) = ItemsOf(p)
PROOF
<1> DEFINE S == {ItemOf(c) : c \in ToSet(Alphabet)}
<1>1. Len(p) \in Nat /\ \A k \in 1..Len(p) : ItemOf(p[k]) \in S
  BY TextFacts
<1> HIDE DEF S
<1>2. ItemsOf(p) \in [1..Len(p) -> S]
  BY <1>1 DEF ItemsOf
<1>3. ItemsOf(p) \in Seq(S)
  BY <1>1, <1>2, SeqDef
<1>4. DOMAIN ItemsOf(p) = 1..Len(p) /\ Len(ItemsOf(p)) = Len(p)
  <2>1. DOMAIN ItemsOf(p) = 1..Len(p)
    BY DEF ItemsOf
  <2>2. Len(ItemsOf(p)) \in Nat /\ DOMAIN ItemsOf(p) = 1..Len(ItemsOf(p))
    BY <1>3, LenProperties
  <2>3. QED
    BY <1>1, <2>1, <2>2
<1>5. ASSUME NEW i \in 1..Len(p)
      PROVE  SubSeq(ItemsOf(p), i, Len(p))
               = <<ItemOf(p[i])>> \o SubSeq(ItemsOf(p), i + 1, Len(p))
  <2>1. i \in 1..Len(ItemsOf(p)) /\ Len(p) \in i..Len(ItemsOf(p))
    BY <1>1, <1>4
  <2>2. SubSeq(ItemsOf(p), i, Len(p))
          = <<ItemsOf(p)[i]>> \o SubSeq(ItemsOf(p), i + 1, Len(p))
    BY <1>3, <2>1, SubSeqRecursiveFirst
  <2>3. QED
    BY <2>2 DEF ItemsOf
<1>6. SubSeq(ItemsOf(p), Len(p) + 1, Len(p)) = << >>
  BY <1>1, SubSeqEmpty
<1>7. SubSeq(ItemsOf(p), 1, Len(ItemsOf(p))) = ItemsOf(p)
  BY <1>3, SubSeqFull
<1>8. QED
  BY <1>4, <1>5, <1>6, <1>7

LEMMA ItemsMeant ==
  ASSUME NEW p \in Texts, Glob(p)
  PROVE  Items(p) = ItemsOf(p)
PROOF
<1> DEFINE At(g, i) ==
      CASE i > Len(p) -> << >>
        [] i <= Len(p) /\ p[i] = "[" /\ ClassEnd(p, i + 1) # 0 ->
             LET class == SubSeq(p, i + 1, ClassEnd(p, i + 1) - 1) IN
             <<{c \in ToSet(Alphabet) : pm_list(class, c)}>>
               \o g[ClassEnd(p, i + 1) + 1]
        [] i < Len(p) /\ p[i] = "\\" -> <<{p[i + 1]}>> \o g[i + 2]
        [] OTHER ->
             <<CASE p[i] = "?" -> ToSet(Alphabet)
                 [] p[i] = "*" -> AnyText
                 [] p[i] = "/" -> {"/", NUL}
                 [] OTHER -> {p[i]}>> \o g[i + 1]
           D == 1..(Len(p) + 1)
           Onward(i) == SubSeq(ItemsOf(p), i, Len(p))
<1>1. Len(p) \in Nat
  BY TextFacts
<1>2. ASSUME NEW g, NEW i \in 1..Len(p) PROVE At(g, i) = <<ItemOf(p[i])>> \o g[i + 1]
  BY <1>2, OneItem
<1>3. ASSUME NEW g PROVE At(g, Len(p) + 1) = << >>
  BY <1>1
<1>4. \A g : Items(p) = (CHOOSE h : h = [i \in D |-> At(h, i)])[1]
  BY DEF Items
<1> HIDE DEF At
<1>5. \E h : h = [i \in D |-> At(h, i)]
  <2> DEFINE h == [i \in D |-> Onward(i)]
  <2>1. ASSUME NEW i \in D PROVE h[i] = At(h, i)
    <3>1. CASE i = Len(p) + 1
      BY <1>3, <3>1, ItemsOfStep
    <3>2. CASE i # Len(p) + 1
      <4>1. i \in 1..Len(p) /\ i + 1 \in D
        BY <1>1, <3>2
      <4>2. h[i] = Onward(i) /\ h[i + 1] = Onward(i + 1)
        BY <4>1
      <4> HIDE DEF h
      <4>3. At(h, i) = <<ItemOf(p[i])>> \o h[i + 1]
        BY <1>2, <4>1
      <4>4. QED
        BY <4>1, <4>2, <4>3, ItemsOfStep
    <3>3. QED
      BY <3>1, <3>2
  <2>2. h = [i \in D |-> h[i]]
    OBVIOUS
  <2> HIDE DEF h
  <2>3. h = [i \in D |-> At(h, i)]
    BY <2>1, <2>2
  <2>4. QED
    BY <2>3
<1>6. PICK h : h = [i \in D |-> At(h, i)] /\ Items(p) = h[1]
  BY <1>4, <1>5
<1>7. \A i \in D : h[i] = At(h, i)
  BY <1>6
<1> DEFINE Odd == {n \in 0..Len(p) : h[(Len(p) + 1) - n] # Onward((Len(p) + 1) - n)}
<1>8. Odd = {}
  <2>1. SUFFICES ASSUME Odd # {} PROVE FALSE
    OBVIOUS
  <2>2. PICK n \in Odd : \A y \in Odd : n <= y
    <3>1. Odd \in SUBSET Nat
      OBVIOUS
    <3>2. QED
      BY <2>1, <3>1, LeastNumber
  <2> DEFINE i == (Len(p) + 1) - n
  <2>3. i \in D /\ h[i] # Onward(i)
    BY <1>1, <2>2
  <2>4. CASE n = 0
    <3>1. i = Len(p) + 1
      BY <1>1, <2>4
    <3>2. h[Len(p) + 1] = << >>
      BY <1>1, <1>3, <1>7
    <3>3. QED
      BY <2>3, <3>1, <3>2, ItemsOfStep
  <2>5. CASE n # 0
    <3>1. n \in 0..Len(p) /\ \A y \in Odd : n <= y
      BY <2>2
    <3> HIDE DEF Odd
    <3>2. n - 1 \in 0..Len(p) /\ ~(n <= n - 1) /\ i \in 1..Len(p)
          /\ (Len(p) + 1) - (n - 1) = i + 1
      BY <1>1, <2>5, <3>1
    <3>3. n - 1 \notin Odd
      BY <3>1, <3>2
    <3>4. h[i + 1] = Onward(i + 1)
      BY <3>2, <3>3 DEF Odd
    <3> HIDE DEF i
    <3>5. h[i] = <<ItemOf(p[i])>> \o h[i + 1]
      BY <1>2, <1>7, <2>3, <3>2
    <3>6. QED
      BY <2>3, <3>2, <3>4, <3>5, ItemsOfStep
  <2>6. QED
    BY <2>4, <2>5
<1>9. Len(p) \in 0..Len(p) /\ (Len(p) + 1) - Len(p) = 1
  BY <1>1
<1>10. h[1] = Onward(1)
  BY <1>8, <1>9
<1>11. QED
  BY <1>6, <1>10, ItemsOfStep


\* The name's text between two places is divided among the items from one on.
Cut(items, name, i, cut) ==
  \A m \in i..Len(items) :
    /\ cut[m - 1] <= cut[m]
    /\ \/ items[m] = AnyText
       \/ cut[m] = cut[m - 1] + 1 /\ CharAt(name, cut[m]) \in items[m]

Fits(items, name, i, from, to) ==
  \E cut \in [(i - 1)..Len(items) -> 0..to] :
    cut[i - 1] = from /\ cut[Len(items)] = to /\ Cut(items, name, i, cut)

LEMMA DividesFits ==
  ASSUME NEW items, Len(items) \in Nat, DOMAIN items = 1..Len(items), NEW name,
         NEW from \in Nat, NEW to \in Nat
  PROVE  Divides(items, name, from, to) <=> Fits(items, name, 1, from, to)
PROOF
<1>1. ASSUME Divides(items, name, from, to) PROVE Fits(items, name, 1, from, to)
  <2>1. PICK cut \in [0..Len(items) -> from..to] :
          cut[0] = from /\ cut[Len(items)] = to /\ Cut(items, name, 1, cut)
    BY <1>1 DEF Divides, Cut
  <2>2. cut \in [(1 - 1)..Len(items) -> 0..to] /\ 1 - 1 = 0
    OBVIOUS
  <2>3. QED
    BY <2>1, <2>2 DEF Fits
<1>2. ASSUME Fits(items, name, 1, from, to) PROVE Divides(items, name, from, to)
  <2>1. PICK cut \in [0..Len(items) -> 0..to] :
          cut[0] = from /\ cut[Len(items)] = to /\ Cut(items, name, 1, cut)
    <3>1. 1 - 1 = 0
      OBVIOUS
    <3>2. QED
      BY <1>2, <3>1 DEF Fits
  <2> DEFINE Low == {m \in 0..Len(items) : cut[m] < from}
  <2>2. Low = {}
    <3>1. SUFFICES ASSUME Low # {} PROVE FALSE
      OBVIOUS
    <3>2. PICK m \in Low : \A y \in Low : m <= y
      <4>1. Low \in SUBSET Nat
        OBVIOUS
      <4>2. QED
        BY <3>1, <4>1, LeastNumber
    <3>3. m \in 1..Len(items) /\ m - 1 \in 0..Len(items) /\ ~(m <= m - 1) /\ cut[m] < from
      BY <2>1, <3>2
    <3>4. m - 1 \notin Low
      BY <3>2, <3>3, SMTT(30)
    <3>5. cut[m - 1] <= cut[m] /\ cut[m - 1] \in Nat /\ cut[m] \in Nat
      <4>1. cut[m - 1] <= cut[m]
        BY <2>1, <3>3 DEF Cut
      <4>2. cut[m - 1] \in 0..to /\ cut[m] \in 0..to
        BY <2>1, <3>3
      <4>3. QED
        BY <4>1, <4>2
    <3>6. ~(cut[m - 1] < from)
      BY <3>3, <3>4
    <3>7. QED
      BY <3>3, <3>5, <3>6
  <2>3. cut \in [0..Len(items) -> from..to]
    <3>1. \A m \in 0..Len(items) : cut[m] \in 0..to /\ ~(cut[m] < from)
      BY <2>1, <2>2
    <3>2. \A m \in 0..Len(items) : cut[m] \in from..to
      BY <3>1
    <3>3. QED
      BY <3>2
  <2>4. QED
    BY <2>1, <2>3 DEF Divides, Cut
<1>3. QED
  BY <1>1, <1>2

LEMMA FitsNone ==
  ASSUME NEW items, Len(items) \in Nat, NEW name, NEW from \in Nat, NEW to \in Nat
  PROVE  Fits(items, name, Len(items) + 1, from, to) <=> from = to
PROOF
<1> DEFINE n == Len(items)
<1>1. (n + 1) - 1 = n /\ n..n = {n} /\ (n + 1)..n = {}
  OBVIOUS
<1>2. ASSUME from = to PROVE Fits(items, name, n + 1, from, to)
  <2> DEFINE cut == [m \in n..n |-> to]
  <2>1. cut \in [n..n -> 0..to] /\ cut[n] = to
    BY <1>1
  <2>2. Cut(items, name, n + 1, cut)
    BY <1>1 DEF Cut
  <2> HIDE DEF cut
  <2>3. QED
    BY <1>1, <1>2, <2>1, <2>2 DEF Fits
<1>3. ASSUME Fits(items, name, n + 1, from, to) PROVE from = to
  BY <1>1, <1>3 DEF Fits
<1>4. QED
  BY <1>2, <1>3

LEMMA FitsOne ==
  ASSUME NEW items, Len(items) \in Nat, NEW name, NEW i \in 1..Len(items),
         NEW from \in Nat, NEW to \in Nat
  PROVE  Fits(items, name, i, from, to)
           <=> \E k \in Nat :
                 /\ from <= k
                 /\ items[i] = AnyText \/ (k = from + 1 /\ CharAt(name, k) \in items[i])
                 /\ Fits(items, name, i + 1, k, to)
PROOF
<1> DEFINE n == Len(items)
<1>1. (i + 1) - 1 = i /\ i - 1 \in Nat /\ i \in Nat /\ n \in Nat /\ i <= n
  OBVIOUS
<1>2. ASSUME Fits(items, name, i, from, to)
      PROVE  \E k \in Nat :
               /\ from <= k
               /\ items[i] = AnyText \/ (k = from + 1 /\ CharAt(name, k) \in items[i])
               /\ Fits(items, name, i + 1, k, to)
  <2>1. PICK cut \in [(i - 1)..n -> 0..to] :
          cut[i - 1] = from /\ cut[n] = to /\ Cut(items, name, i, cut)
    BY <1>2 DEF Fits
  <2>2. /\ cut[i] \in Nat /\ from <= cut[i]
        /\ items[i] = AnyText \/ (cut[i] = from + 1 /\ CharAt(name, cut[i]) \in items[i])
    <3>1. i \in i..n /\ i \in (i - 1)..n
      BY <1>1
    <3>2. cut[i] \in 0..to
      BY <2>1, <3>1
    <3>3. /\ cut[i - 1] <= cut[i]
          /\ items[i] = AnyText \/ (cut[i] = cut[i - 1] + 1 /\ CharAt(name, cut[i]) \in items[i])
      BY <2>1, <3>1 DEF Cut
    <3>4. QED
      BY <2>1, <3>2, <3>3
  <2> DEFINE rest == [m \in i..n |-> cut[m]]
  <2>3. rest \in [i..n -> 0..to] /\ rest[i] = cut[i] /\ rest[n] = to
    BY <1>1, <2>1
  <2>4. \A m \in (i + 1)..n : rest[m] = cut[m] /\ rest[m - 1] = cut[m - 1] /\ m \in i..n
    BY <1>1
  <2> HIDE DEF rest
  <2>5. Cut(items, name, i + 1, rest)
    BY <2>1, <2>4 DEF Cut
  <2>6. Fits(items, name, i + 1, cut[i], to)
    BY <1>1, <2>3, <2>5 DEF Fits
  <2>7. QED
    BY <2>2, <2>6
<1>3. ASSUME NEW k \in Nat, from <= k,
             items[i] = AnyText \/ (k = from + 1 /\ CharAt(name, k) \in items[i]),
             Fits(items, name, i + 1, k, to)
      PROVE  Fits(items, name, i, from, to)
  <2>1. PICK rest \in [i..n -> 0..to] :
          rest[i] = k /\ rest[n] = to /\ Cut(items, name, i + 1, rest)
    BY <1>1, <1>3 DEF Fits
  <2> DEFINE cut == [m \in (i - 1)..n |-> IF m = i - 1 THEN from ELSE rest[m]]
  <2>2. k \in 0..to /\ from \in 0..to
    BY <1>1, <1>3, <2>1
  <2>3. cut \in [(i - 1)..n -> 0..to]
    <3>1. ASSUME NEW m \in (i - 1)..n PROVE (IF m = i - 1 THEN from ELSE rest[m]) \in 0..to
      <4>1. m # i - 1 => m \in i..n
        BY <1>1
      <4>2. QED
        BY <2>1, <2>2, <4>1
    <3>2. QED
      BY <3>1
  <2>4. /\ cut[i - 1] = from
        /\ \A m \in i..n : cut[m] = rest[m]
        /\ \A m \in (i + 1)..n : cut[m - 1] = rest[m - 1] /\ cut[m] = rest[m]
    BY <1>1
  <2> HIDE DEF cut
  <2>5. cut[i] = k /\ cut[n] = to
    BY <1>1, <2>1, <2>4
  <2>6. Cut(items, name, i, cut)
    <3>1. ASSUME NEW m \in i..n
          PROVE  /\ cut[m - 1] <= cut[m]
                 /\ \/ items[m] = AnyText
                    \/ cut[m] = cut[m - 1] + 1 /\ CharAt(name, cut[m]) \in items[m]
      <4>1. CASE m = i
        BY <1>3, <2>4, <2>5, <4>1
      <4>2. CASE m # i
        <5>1. m \in (i + 1)..n
          BY <1>1, <4>2
        <5>2. QED
          BY <2>1, <2>4, <5>1 DEF Cut
      <4>3. QED
        BY <4>1, <4>2
    <3>2. QED
      BY <3>1 DEF Cut
  <2>7. QED
    BY <2>3, <2>4, <2>5, <2>6 DEF Fits
<1>4. QED
  BY <1>2, <1>3


\* From a place of the pattern on, the name fits from one of its own places to the
\* end of one of its elements.
EndsIn(name) == {k \in 0..(Len(name) + 1) : k >= Len(name) \/ name[k + 1] = "/"}

Means(p, s, i, j) == \E to \in EndsIn(s) : Fits(ItemsOf(p), s, i, j - 1, to)

LEMMA ItemFacts ==
  ASSUME NEW c \in ToSet(Alphabet)
  PROVE  /\ ItemOf(c) = AnyText <=> c = "*"
         /\ ItemOf(c) = {"/", NUL} <=> c = "/"
         /\ c \notin {"*", "?", "/"} => ItemOf(c) = {c}
         /\ ItemOf("?") = ToSet(Alphabet)
         /\ NUL \in ItemOf(c) <=> c = "/"
PROOF
<1>1. NUL \notin ToSet(Alphabet) /\ "any text" \notin ToSet(Alphabet)
  BY MatchingAssumption DEF Characters
<1>2. c # NUL /\ c # "any text" /\ ToSet(Alphabet) # {"any text"} /\ ToSet(Alphabet) # {"/", NUL}
  BY <1>1
<1>3. {"any text"} # {"/", NUL} /\ {c} # {"any text"} /\ {c} # {"/", NUL}
      /\ NUL \notin {"any text"} /\ NUL \notin {c} /\ NUL \in {"/", NUL}
  BY <1>2 DEF NUL
<1>4. CASE c = "*"
  BY <1>1, <1>3, <1>4 DEF ItemOf, AnyText
<1>5. CASE c = "?"
  BY <1>1, <1>2, <1>5 DEF ItemOf, AnyText
<1>6. CASE c = "/"
  BY <1>3, <1>6 DEF ItemOf, AnyText
<1>7. CASE c \notin {"*", "?", "/"}
  BY <1>3, <1>7 DEF ItemOf, AnyText
<1>8. ItemOf("?") = ToSet(Alphabet)
  BY DEF ItemOf
<1>9. QED
  BY <1>4, <1>5, <1>6, <1>7, <1>8

LEMMA EndsFound ==
  ASSUME NEW s \in Texts
  PROVE  /\ EndsIn(s) \subseteq 0..(Len(s) + 1) /\ Len(s) \in EndsIn(s) /\ Len(s) + 1 \in EndsIn(s)
         /\ \A j \in 1..(Len(s) + 2) : j - 1 \in EndsIn(s) <=> CharAt(s, j) \in {"/", NUL}
PROOF
<1>1. /\ Len(s) \in Nat
      /\ \A j \in Nat \ {0} : CharAt(s, j) = NUL <=> j > Len(s)
  BY TextFacts
<1>2. EndsIn(s) \subseteq 0..(Len(s) + 1) /\ Len(s) \in EndsIn(s) /\ Len(s) + 1 \in EndsIn(s)
  BY <1>1 DEF EndsIn
<1>3. ASSUME NEW j \in 1..(Len(s) + 2)
      PROVE  j - 1 \in EndsIn(s) <=> CharAt(s, j) \in {"/", NUL}
  <2>1. j - 1 \in 0..(Len(s) + 1) /\ (j - 1) + 1 = j /\ j \in Nat \ {0}
    BY <1>1
  <2>2. j - 1 \in EndsIn(s) <=> (j - 1 >= Len(s) \/ s[j] = "/")
    BY <2>1 DEF EndsIn
  <2>3. CASE j > Len(s)
    BY <1>1, <2>1, <2>2, <2>3
  <2>4. CASE j <= Len(s)
    <3>1. CharAt(s, j) = s[j] /\ CharAt(s, j) # NUL /\ ~(j - 1 >= Len(s))
      BY <1>1, <2>1, <2>4, TextFacts
    <3>2. QED
      BY <2>2, <3>1
  <2>5. QED
    BY <1>1, <2>3, <2>4
<1>4. QED
  BY <1>2, <1>3

LEMMA MeansNone ==
  ASSUME NEW p \in Texts, NEW s \in Texts, NEW j \in 1..(Len(s) + 2)
  PROVE  Means(p, s, Len(p) + 1, j) <=> CharAt(s, j) \in {"/", NUL}
PROOF
<1>1. Len(ItemsOf(p)) = Len(p) /\ Len(p) \in Nat /\ Len(s) \in Nat
  BY ItemsOfStep, TextFacts
<1>2. j - 1 \in Nat
  BY <1>1
<1>3. \A to \in EndsIn(s) : Fits(ItemsOf(p), s, Len(p) + 1, j - 1, to) <=> j - 1 = to
  <2>1. \A to \in EndsIn(s) : to \in Nat
    BY <1>1, EndsFound
  <2>2. \A to \in Nat : Fits(ItemsOf(p), s, Len(ItemsOf(p)) + 1, j - 1, to) <=> j - 1 = to
    BY <1>1, <1>2, FitsNone
  <2>3. QED
    BY <1>1, <2>1, <2>2
<1>4. QED
  BY <1>3, EndsFound DEF Means

LEMMA MeansOne ==
  ASSUME NEW p \in Texts, NEW s \in Texts, NEW i \in 1..Len(p), NEW j \in Nat \ {0},
         p[i] # "*"
  PROVE  Means(p, s, i, j) <=> CharAt(s, j) \in ItemOf(p[i]) /\ Means(p, s, i + 1, j + 1)
PROOF
<1>1. /\ Len(ItemsOf(p)) = Len(p) /\ Len(p) \in Nat /\ Len(s) \in Nat
      /\ p[i] \in ToSet(Alphabet) /\ ItemsOf(p)[i] = ItemOf(p[i])
  BY ItemsOfStep, TextFacts DEF ItemsOf
<1>2. ItemOf(p[i]) # AnyText
  BY <1>1, ItemFacts
<1>3. j - 1 \in Nat /\ (j - 1) + 1 = j /\ (j + 1) - 1 = j /\ j - 1 <= j /\ j \in Nat
  OBVIOUS
<1>4. ASSUME NEW to \in EndsIn(s)
      PROVE  Fits(ItemsOf(p), s, i, j - 1, to)
               <=> CharAt(s, j) \in ItemOf(p[i]) /\ Fits(ItemsOf(p), s, i + 1, j, to)
  <2>1. to \in Nat
    BY <1>1, EndsFound
  <2>2. Fits(ItemsOf(p), s, i, j - 1, to)
          <=> \E k \in Nat :
                /\ j - 1 <= k
                /\ \/ ItemsOf(p)[i] = AnyText
                   \/ k = (j - 1) + 1 /\ CharAt(s, k) \in ItemsOf(p)[i]
                /\ Fits(ItemsOf(p), s, i + 1, k, to)
    BY <1>1, <1>3, <2>1, FitsOne
  <2>3. QED
    BY <1>1, <1>2, <1>3, <2>2
<1>5. QED
  BY <1>3, <1>4 DEF Means

LEMMA MeansStar ==
  ASSUME NEW p \in Texts, NEW s \in Texts, NEW i \in 1..Len(p), NEW j \in Nat \ {0},
         p[i] = "*"
  PROVE  Means(p, s, i, j) <=> \E k \in Nat \ {0} : j <= k /\ Means(p, s, i + 1, k)
PROOF
<1>1. /\ Len(ItemsOf(p)) = Len(p) /\ Len(p) \in Nat /\ Len(s) \in Nat
      /\ ItemsOf(p)[i] = AnyText
  BY ItemsOfStep, TextFacts DEF ItemsOf, ItemOf
<1>2. ASSUME NEW to \in EndsIn(s)
      PROVE  Fits(ItemsOf(p), s, i, j - 1, to)
               <=> \E k \in Nat \ {0} : j <= k /\ Fits(ItemsOf(p), s, i + 1, k - 1, to)
  <2>1. to \in Nat /\ j - 1 \in Nat
    BY <1>1, EndsFound
  <2>2. Fits(ItemsOf(p), s, i, j - 1, to)
          <=> \E k \in Nat :
                /\ j - 1 <= k
                /\ \/ ItemsOf(p)[i] = AnyText
                   \/ k = (j - 1) + 1 /\ CharAt(s, k) \in ItemsOf(p)[i]
                /\ Fits(ItemsOf(p), s, i + 1, k, to)
    BY <1>1, <2>1, FitsOne
  <2>3. ASSUME NEW k \in Nat, j - 1 <= k, Fits(ItemsOf(p), s, i + 1, k, to)
        PROVE  \E k2 \in Nat \ {0} : j <= k2 /\ Fits(ItemsOf(p), s, i + 1, k2 - 1, to)
    <3>1. k + 1 \in Nat \ {0} /\ j <= k + 1 /\ (k + 1) - 1 = k
      BY <2>3
    <3>2. QED
      BY <2>3, <3>1
  <2>4. ASSUME NEW k \in Nat \ {0}, j <= k, Fits(ItemsOf(p), s, i + 1, k - 1, to)
        PROVE  Fits(ItemsOf(p), s, i, j - 1, to)
    <3>1. k - 1 \in Nat /\ j - 1 <= k - 1
      BY <2>4
    <3>2. QED
      BY <1>1, <2>2, <2>4, <3>1
  <2>5. QED
    BY <2>2, <2>3, <2>4
<1>3. QED
  BY <1>2 DEF Means


\* What the matcher skips in such patterns and names.
LEMMA AfterIs ==
  ASSUME NEW text \in Texts, NEW places \in SUBSET (DOMAIN text), NEW i \in 1..(Len(text) + 1),
         NEW k \in i..(Len(text) + 1), k \notin places, i..(k - 1) \subseteq places
  PROVE  After(places, text, i) = k
PROOF
<1> DEFINE m == After(places, text, i)
<1>1. m \in i..(Len(text) + 1) /\ m \notin places /\ i..(m - 1) \subseteq places
  BY AfterFound
<1>2. Len(text) \in Nat
  BY TextFacts
<1> HIDE DEF m
<1>3. ~(m < k)
  <2>1. m < k => m \in i..(k - 1)
    BY <1>1, <1>2
  <2>2. QED
    BY <1>1, <2>1
<1>4. ~(k < m)
  <2>1. k < m => k \in i..(m - 1)
    BY <1>1, <1>2
  <2>2. QED
    BY <1>1, <2>1
<1>5. m = k
  BY <1>1, <1>2, <1>3, <1>4
<1>6. QED
  BY <1>5 DEF m

LEMMA PastOne ==
  ASSUME NEW text \in Texts, NEW c, c # NUL, NEW i \in 1..(Len(text) + 1)
  PROVE  /\ CharAt(text, i) # c => Past(c, text, i) = i
         /\ CharAt(text, i) = c /\ CharAt(text, i + 1) # c => Past(c, text, i) = i + 1
PROOF
<1> DEFINE places == {k \in DOMAIN text : text[k] = c}
<1>1. /\ Len(text) \in Nat /\ DOMAIN text = 1..Len(text) /\ places \in SUBSET (DOMAIN text)
      /\ \A k \in Nat \ {0} : CharAt(text, k) = c <=> k \in places
  <2>1. NUL # c /\ Len(text) \in Nat /\ DOMAIN text = 1..Len(text)
    BY TextFacts
  <2>2. \A k \in Nat \ {0} : CharAt(text, k) = c <=> k \in places
    BY <2>1 DEF CharAt
  <2>3. QED
    BY <2>1, <2>2
<1> HIDE DEF places
<1>2. ASSUME CharAt(text, i) # c PROVE After(places, text, i) = i
  <2>1. i \in i..(Len(text) + 1) /\ i \notin places /\ i..(i - 1) \subseteq places
    BY <1>1, <1>2
  <2>2. QED
    BY <1>1, <2>1, AfterIs
<1>3. ASSUME CharAt(text, i) = c, CharAt(text, i + 1) # c PROVE After(places, text, i) = i + 1
  <2>1. i \in places /\ i + 1 \notin places /\ i \in 1..Len(text) /\ i..((i + 1) - 1) = {i}
        /\ i + 1 \in i..(Len(text) + 1)
    BY <1>1, <1>3
  <2>2. i..((i + 1) - 1) \subseteq places
    BY <2>1
  <2>3. QED
    BY <1>1, <2>1, <2>2, AfterIs
<1>4. QED
  BY <1>2, <1>3 DEF Past, places

LEMMA SlashskipOne ==
  ASSUME NEW text \in Texts, NEW i \in 1..(Len(text) + 1),
         \A k \in 1..Len(text) :
           text[k] = "." => CharAt(text, k + 1) \notin {"/", NUL}
  PROVE  /\ CharAt(text, i) # "/" => pm_slashskip(text, i) = i
         /\ CharAt(text, i) = "/" /\ CharAt(text, i + 1) # "/" => pm_slashskip(text, i) = i + 1
PROOF
<1> DEFINE places == {k \in DOMAIN text :
                        \/ text[k] = "/"
                        \/ text[k] = "." /\ CharAt(text, k + 1) \in {"/", NUL}}
<1>1. /\ Len(text) \in Nat /\ DOMAIN text = 1..Len(text) /\ places \in SUBSET (DOMAIN text)
      /\ \A k \in Nat \ {0} : CharAt(text, k) = "/" <=> k \in places
  <2>1. Len(text) \in Nat /\ DOMAIN text = 1..Len(text)
    BY TextFacts
  <2>2. \A k \in DOMAIN text : k \in places <=> text[k] = "/"
    BY <2>1
  <2>3. \A k \in Nat \ {0} : CharAt(text, k) = "/" <=> k \in DOMAIN text /\ text[k] = "/"
    BY <2>1 DEF CharAt, NUL
  <2>4. QED
    BY <2>1, <2>2, <2>3
<1> HIDE DEF places
<1>2. ASSUME CharAt(text, i) # "/" PROVE After(places, text, i) = i
  <2>1. i \in i..(Len(text) + 1) /\ i \notin places /\ i..(i - 1) \subseteq places
    BY <1>1, <1>2
  <2>2. QED
    BY <1>1, <2>1, AfterIs
<1>3. ASSUME CharAt(text, i) = "/", CharAt(text, i + 1) # "/"
      PROVE  After(places, text, i) = i + 1
  <2>1. i \in places /\ i + 1 \notin places /\ i \in 1..Len(text) /\ i..((i + 1) - 1) = {i}
        /\ i + 1 \in i..(Len(text) + 1)
    BY <1>1, <1>3
  <2>2. i..((i + 1) - 1) \subseteq places
    BY <2>1
  <2>3. QED
    BY <1>1, <2>1, <2>2, AfterIs
<1>4. QED
  BY <1>2, <1>3 DEF pm_slashskip, places

LEMMA NothingSkipped ==
  ASSUME NEW p \in Texts, Glob(p), NEW s \in Texts, CleanName(s),
         NEW i \in 1..(Len(p) + 1), NEW j \in 1..(Len(s) + 1)
  PROVE  \A loop, flags : pm(loop, p, i, s, j, flags) = loop[<<i, j, flags>>]
PROOF
<1>1. ~(CharAt(p, i) = "." /\ CharAt(p, i + 1) = "/")
  <2>1. CharAt(p, i) = "." => i \in DOMAIN p /\ p[i] = "."
    BY TextFacts DEF CharAt, NUL
  <2>2. QED
    BY <2>1 DEF Glob
<1>2. ~(CharAt(s, j) = "." /\ CharAt(s, j + 1) = "/")
  <2>1. CharAt(s, j) = "." => j \in DOMAIN s /\ s[j] = "."
    BY TextFacts DEF CharAt, NUL
  <2>2. QED
    BY <2>1 DEF CleanName
<1>3. QED
  BY <1>1, <1>2 DEF pm

\* A run of `*' stands for any text, like one.
LEMMA StarRun ==
  ASSUME NEW p \in Texts, Glob(p), NEW s \in Texts, NEW i \in 1..Len(p), p[i] = "*"
  PROVE  LET q == Past("*", p, i) IN
         /\ q \in (i + 1)..(Len(p) + 1) /\ CharAt(p, q) \notin {"*", "/", "?"}
         /\ \A j \in Nat \ {0} :
              Means(p, s, i, j) <=> \E k \in Nat \ {0} : j <= k /\ Means(p, s, q, k)
PROOF
<1> DEFINE q == Past("*", p, i)
           stars == {k \in DOMAIN p : p[k] = "*"}
<1>1. Len(p) \in Nat /\ DOMAIN p = 1..Len(p) /\ stars \in SUBSET (DOMAIN p) /\ i \in stars
  BY TextFacts
<1>2. q = After(stars, p, i)
  BY DEF Past
<1>3. /\ After(stars, p, i) \in i..(Len(p) + 1) /\ After(stars, p, i) \notin stars
      /\ i..(After(stars, p, i) - 1) \subseteq stars /\ After(stars, p, i) > i
  <2>1. i \in 1..(Len(p) + 1)
    BY <1>1
  <2> HIDE DEF stars
  <2>2. QED
    BY <1>1, <2>1, AfterFound
<1> HIDE DEF q
<1>4. q \in (i + 1)..(Len(p) + 1) /\ q \notin stars /\ i..(q - 1) \subseteq stars
  BY <1>1, <1>2, <1>3
<1>5. CharAt(p, q) \notin {"*", "/", "?"}
  <2>1. CharAt(p, q) # "*"
    BY <1>1, <1>4, TextFacts DEF CharAt, NUL
  <2>2. q - 1 \in stars /\ (q - 1) + 1 = q
    BY <1>1, <1>4
  <2>3. q - 1 \in DOMAIN p /\ p[q - 1] = "*"
    BY <2>2
  <2>4. CharAt(p, (q - 1) + 1) \notin {"/", "?"}
    BY <2>3 DEF Glob
  <2>5. QED
    BY <2>1, <2>2, <2>4
<1>6. ASSUME NEW j \in Nat \ {0}
      PROVE  Means(p, s, i, j) <=> \E k \in Nat \ {0} : j <= k /\ Means(p, s, q, k)
  <2> DEFINE Runs(m) == Means(p, s, i, j) <=> \E k \in Nat \ {0} : j <= k /\ Means(p, s, m, k)
             Odd == {m \in (i + 1)..q : ~Runs(m)}
  <2>1. Runs(i + 1)
    BY MeansStar
  <2>2. ASSUME NEW m \in (i + 1)..(q - 1), Runs(m) PROVE Runs(m + 1)
    <3>1. m \in 1..Len(p) /\ p[m] = "*"
      BY <1>1, <1>4, <2>2
    <3>2. \A k \in Nat \ {0} : Means(p, s, m, k)
                                 <=> \E k2 \in Nat \ {0} : k <= k2 /\ Means(p, s, m + 1, k2)
      BY <3>1, MeansStar
    <3>3. (\E k \in Nat \ {0} : j <= k /\ Means(p, s, m, k))
            <=> \E k \in Nat \ {0} : j <= k /\ Means(p, s, m + 1, k)
      <4>1. ASSUME NEW k \in Nat \ {0}, j <= k, NEW k2 \in Nat \ {0}, k <= k2 PROVE j <= k2
        BY <4>1
      <4>2. \A k \in Nat \ {0} : k <= k
        OBVIOUS
      <4>3. QED
        BY <3>2, <4>1, <4>2
    <3>4. QED
      BY <2>2, <3>3
  <2> HIDE DEF Runs
  <2>3. Odd = {}
    <3>1. SUFFICES ASSUME Odd # {} PROVE FALSE
      OBVIOUS
    <3>2. PICK m \in Odd : \A y \in Odd : m <= y
      <4>1. Odd \in SUBSET Nat
        BY <1>1
      <4>2. QED
        BY <3>1, <4>1, LeastNumber
    <3>3. m \in (i + 1)..q /\ ~Runs(m)
      BY <3>2
    <3>4. m # i + 1
      BY <2>1, <3>3
    <3>5. m - 1 \in (i + 1)..(q - 1) /\ (m - 1) + 1 = m /\ ~(m <= m - 1) /\ m - 1 \in (i + 1)..q
      BY <1>1, <1>4, <3>3, <3>4
    <3>6. Runs(m - 1)
      BY <3>2, <3>5
    <3>7. Runs((m - 1) + 1)
      BY <2>2, <3>5, <3>6
    <3>8. QED
      BY <3>3, <3>5, <3>7
  <2>4. q \in (i + 1)..q
    BY <1>1, <1>4
  <2>5. Runs(q)
    BY <2>3, <2>4
  <2>6. QED
    BY <2>5 DEF Runs
<1>7. QED
  BY <1>4, <1>5, <1>6 DEF q

\* Where a slash has stood for the end of the name, what follows it fits behind
\* the end if it fits there.
LEMMA MeansBehind ==
  ASSUME NEW p \in Texts, Glob(p), NEW s \in Texts, NEW i \in 1..(Len(p) + 1),
         CharAt(p, i) # "/"
  PROVE  Means(p, s, i, Len(s) + 2) <=> Means(p, s, i, Len(s) + 1)
PROOF
<1> DEFINE n == Len(s)
<1>1. /\ Len(p) \in Nat /\ n \in Nat /\ n + 1 \in Nat \ {0} /\ n + 2 \in Nat \ {0}
      /\ n + 1 \in 1..(n + 2) /\ n + 2 \in 1..(n + 2)
      /\ CharAt(s, n + 1) = NUL /\ CharAt(s, n + 2) = NUL
  <2>1. Len(p) \in Nat /\ n \in Nat
    BY TextFacts
  <2>2. n + 1 > n /\ n + 2 > n /\ n + 1 \in Nat \ {0} /\ n + 2 \in Nat \ {0}
    BY <2>1
  <2>3. QED
    BY <2>1, <2>2, TextFacts
<1> HIDE DEF n
<1>none. Means(p, s, Len(p) + 1, n + 2) /\ Means(p, s, Len(p) + 1, n + 1)
  BY <1>1, MeansNone DEF n
<1>one. ASSUME NEW k \in 1..Len(p), p[k] \notin {"*", "/"}
        PROVE  ~Means(p, s, k, n + 1) /\ ~Means(p, s, k, n + 2)
  <2>1. p[k] \in ToSet(Alphabet)
    BY TextFacts
  <2>2. NUL \notin ItemOf(p[k])
    BY <1>one, <2>1, ItemFacts
  <2>3. QED
    BY <1>1, <1>one, <2>2, MeansOne
<1>2. CASE i = Len(p) + 1
  BY <1>2, <1>none DEF n
<1>3. CASE i \in 1..Len(p) /\ p[i] # "*"
  <2>1. p[i] \notin {"*", "/"}
    BY <1>3, TextFacts
  <2>2. QED
    BY <1>3, <1>one, <2>1 DEF n
<1>4. CASE i \in 1..Len(p) /\ p[i] = "*"
  <2> DEFINE q == Past("*", p, i)
  <2>1. /\ q \in (i + 1)..(Len(p) + 1) /\ CharAt(p, q) \notin {"*", "/", "?"}
        /\ \A j \in Nat \ {0} :
             Means(p, s, i, j) <=> \E k \in Nat \ {0} : j <= k /\ Means(p, s, q, k)
    BY <1>4, StarRun
  <2> HIDE DEF q
  <2>2. CASE q = Len(p) + 1
    <3>1. Means(p, s, q, n + 2) /\ n + 1 <= n + 2 /\ n + 2 <= n + 2
      BY <1>1, <1>none, <2>2
    <3>2. QED
      BY <1>1, <2>1, <3>1 DEF n
  <2>3. CASE q # Len(p) + 1
    <3>1. q \in 1..Len(p)
      BY <1>1, <2>1, <2>3
    <3>2. p[q] \notin {"*", "/"}
      BY <2>1, <3>1, TextFacts
    <3>3. ~Means(p, s, q, n + 1)
      BY <1>one, <3>1, <3>2
    <3>4. \A k \in Nat \ {0} : n + 1 <= k => (k = n + 1 \/ n + 2 <= k)
      BY <1>1
    <3>5. \A k \in Nat \ {0} : n + 2 <= k => n + 1 <= k
      BY <1>1
    <3>6. QED
      BY <1>1, <2>1, <3>3, <3>4, <3>5 DEF n
  <2>4. QED
    BY <2>2, <2>3
<1>5. i \in 1..Len(p) \/ i = Len(p) + 1
  BY <1>1
<1>6. QED
  BY <1>2, <1>3, <1>4, <1>5


\* What the loop says from a place of the pattern on is what the items mean.
LoopMeans(loop, p, s, from) ==
  \A i \in from..(Len(p) + 1), j \in 1..(Len(s) + 1), flags \in Flags :
    NO_ANCHOR_END \in flags => (loop[<<i, j, flags>>] <=> Means(p, s, i, j))

\* A `*' tries what follows it at every place, if it is unanchored at the starts
\* of the elements from there on: which are places as well.
LEMMA StarMeans ==
  ASSUME NEW p \in Texts, Glob(p), NEW s \in Texts, CleanName(s), NEW loop, NEW b,
         NEW i \in 1..Len(p), p[i] = "*", LoopMeans(loop, p, s, i + 1),
         NEW j \in 1..(Len(s) + 1), NEW flags \in Flags, NO_ANCHOR_END \in flags
  PROVE  pm_turn(loop, p, i, s, j, flags, b) <=> Means(p, s, i, j)
PROOF
<1> DEFINE q == Past("*", p, i)
<1>1. /\ Len(p) \in Nat /\ Len(s) \in Nat /\ DOMAIN s = 1..Len(s)
      /\ CharAt(p, i) = "*" /\ ~(j > Len(s) + 1) /\ j \in Nat \ {0}
      /\ \A k \in Nat \ {0} : CharAt(s, k) = NUL <=> k > Len(s)
  BY TextFacts
<1>2. /\ q \in (i + 1)..(Len(p) + 1) /\ CharAt(p, q) \notin {"*", "/", "?"}
      /\ \A k \in Nat \ {0} :
           Means(p, s, i, k) <=> \E m \in Nat \ {0} : k <= m /\ Means(p, s, q, m)
  BY StarRun
<1> HIDE DEF q
<1>3. q \in Nat \ {0} /\ q \in 1..(Len(p) + 1)
  BY <1>1, <1>2
<1>kept. \A i2 \in 1..(Len(p) + 1), j2 \in 1..(Len(s) + 1) :
           pm(loop, p, i2, s, j2, flags) = loop[<<i2, j2, flags>>]
  BY NothingSkipped
<1>turn. pm_turn(loop, p, i, s, j, flags, b)
           = IF CharAt(p, q) = NUL THEN TRUE
             ELSE \E k \in j..Len(s) : pathmatch(loop, p, q, s, k, flags)
  BY <1>1 DEF pm_turn, q, NUL
<1>4. CASE CharAt(p, q) = NUL
  <2>1. q = Len(p) + 1
    BY <1>1, <1>2, <1>3, <1>4, TextFacts
  <2>2. Len(s) + 1 \in Nat \ {0} /\ Len(s) + 1 \in 1..(Len(s) + 2) /\ j <= Len(s) + 1
        /\ CharAt(s, Len(s) + 1) = NUL
    BY <1>1
  <2>3. Means(p, s, q, Len(s) + 1)
    BY <2>1, <2>2, MeansNone
  <2>4. Means(p, s, i, j)
    BY <1>1, <1>2, <2>2, <2>3
  <2>5. QED
    BY <1>turn, <1>4, <2>4
<1>5. CASE CharAt(p, q) # NUL
  <2>1. q \in 1..Len(p) /\ CharAt(p, q) = p[q]
    BY <1>1, <1>2, <1>3, <1>5, TextFacts
  <2>2. p[q] \notin {"*", "/", "?", "^"} /\ p[q] # NUL /\ p[q] \in ToSet(Alphabet)
    <3>1. q \in DOMAIN p
      BY <2>1, TextFacts
    <3>2. QED
      BY <1>2, <1>5, <2>1, <3>1, TextFacts DEF Glob
  <2>3. ASSUME NEW k \in 1..(Len(s) + 1)
        PROVE  pm(loop, p, q, s, k, flags) <=> Means(p, s, q, k)
    <3>1. pm(loop, p, q, s, k, flags) = loop[<<q, k, flags>>]
      BY <1>3, <1>kept
    <3>2. QED
      BY <1>2, <3>1 DEF LoopMeans
  <2>4. ASSUME NEW k \in Nat \ {0}, Means(p, s, q, k)
        PROVE  k <= Len(s) /\ CharAt(s, k) # "/"
    <3>1. CharAt(s, k) \in ItemOf(p[q])
      BY <2>1, <2>2, <2>4, MeansOne
    <3>2. CharAt(s, k) = p[q]
      BY <2>2, <3>1, ItemFacts
    <3>3. QED
      BY <1>1, <2>2, <3>2
  <2>5. ASSUME NEW k \in j..Len(s)
        PROVE  pathmatch(loop, p, q, s, k, flags)
                 <=> IF NO_ANCHOR_START \in flags
                       THEN \E m \in ElementStarts(s, k) : pm(loop, p, q, s, m, flags)
                       ELSE pm(loop, p, q, s, k, flags)
    BY <1>5, <2>1, <2>2 DEF pathmatch, Anchored
  <2>6. ASSUME NEW k \in j..Len(s)
        PROVE  /\ ElementStarts(s, k) \subseteq k..(Len(s) + 1)
               /\ CharAt(s, k) # "/" => k \in ElementStarts(s, k)
    <3>1. k \in Nat /\ k <= Len(s)
      BY <1>1
    <3>2. {m + 1 : m \in {m \in k..Len(s) : s[m] = "/"}} \subseteq k..(Len(s) + 1)
      BY <1>1, <3>1
    <3>3. QED
      BY <1>1, <3>1, <3>2 DEF ElementStarts
  <2>7. ASSUME NEW k \in j..Len(s), pathmatch(loop, p, q, s, k, flags)
        PROVE  \E m \in Nat \ {0} : j <= m /\ Means(p, s, q, m)
    <3>1. \E m \in k..(Len(s) + 1) : pm(loop, p, q, s, m, flags)
      <4>1. k \in k..(Len(s) + 1)
        BY <1>1
      <4>2. QED
        BY <2>5, <2>6, <2>7, <4>1
    <3>2. PICK m \in k..(Len(s) + 1) : pm(loop, p, q, s, m, flags)
      BY <3>1
    <3>3. m \in Nat \ {0} /\ j <= m /\ m \in 1..(Len(s) + 1)
      BY <1>1
    <3>4. QED
      BY <2>3, <3>2, <3>3
  <2>8. ASSUME NEW k \in Nat \ {0}, j <= k, Means(p, s, q, k)
        PROVE  \E m \in j..Len(s) : pathmatch(loop, p, q, s, m, flags)
    <3>1. k \in j..Len(s) /\ k \in 1..(Len(s) + 1) /\ CharAt(s, k) # "/"
      BY <1>1, <2>4, <2>8
    <3>2. pm(loop, p, q, s, k, flags) /\ k \in ElementStarts(s, k)
      BY <2>3, <2>6, <2>8, <3>1
    <3>3. pathmatch(loop, p, q, s, k, flags)
      BY <2>5, <3>1, <3>2
    <3>4. QED
      BY <3>1, <3>3
  <2>9. Means(p, s, i, j) <=> \E m \in Nat \ {0} : j <= m /\ Means(p, s, q, m)
    BY <1>1, <1>2
  <2>10. QED
    BY <1>turn, <1>5, <2>7, <2>8, <2>9
<1>6. QED
  BY <1>4, <1>5

\* A character, a `?' or a slash stands for one character or, the slash, for the end.
LEMMA TurnMeans ==
  ASSUME NEW p \in Texts, Glob(p), NEW s \in Texts, CleanName(s), NEW loop, NEW b,
         NEW i \in 1..(Len(p) + 1), LoopMeans(loop, p, s, i + 1),
         NEW j \in 1..(Len(s) + 1), NEW flags \in Flags, NO_ANCHOR_END \in flags
  PROVE  pm_turn(loop, p, i, s, j, flags, b) <=> Means(p, s, i, j)
PROOF
<1> DEFINE c == CharAt(p, i)
           d == CharAt(s, j)
<1>1. /\ Len(p) \in Nat /\ Len(s) \in Nat /\ DOMAIN s = 1..Len(s) /\ DOMAIN p = 1..Len(p)
      /\ ~(j > Len(s) + 1) /\ j \in Nat \ {0} /\ j \in 1..(Len(s) + 2)
      /\ d = NUL <=> j > Len(s)
      /\ c = NUL <=> i > Len(p)
  BY TextFacts
<1>next. ASSUME NEW i2 \in (i + 1)..(Len(p) + 1), NEW j2 \in 1..(Len(s) + 1)
         PROVE  loop[<<i2, j2, flags>>] <=> Means(p, s, i2, j2)
  BY DEF LoopMeans
<1>2. CASE c = NUL
  <2>1. pm_turn(loop, p, i, s, j, flags, b) <=> d \in {"/", NUL}
    BY <1>1, <1>2 DEF pm_turn, NUL
  <2>2. i = Len(p) + 1
    BY <1>1, <1>2
  <2>3. QED
    BY <1>1, <2>1, <2>2, MeansNone
<1>3. CASE c = "*"
  <2>1. i \in 1..Len(p) /\ p[i] = "*"
    BY <1>1, <1>3, TextFacts DEF NUL
  <2>2. QED
    BY <2>1, StarMeans
<1>4. ASSUME c # NUL, c # "*"
      PROVE  /\ i \in 1..Len(p) /\ p[i] = c /\ c \in ToSet(Alphabet)
             /\ c \notin {"[", "\\", "^", "$"} /\ i + 1 \in (i + 1)..(Len(p) + 1)
             /\ Means(p, s, i, j) <=> d \in ItemOf(c) /\ Means(p, s, i + 1, j + 1)
  <2>1. i \in 1..Len(p) /\ p[i] = c /\ c \in ToSet(Alphabet) /\ i + 1 \in (i + 1)..(Len(p) + 1)
    BY <1>1, <1>4, TextFacts
  <2>2. c \notin {"[", "\\", "^", "$"}
    BY <1>1, <2>1 DEF Glob
  <2>3. Means(p, s, i, j) <=> d \in ItemOf(c) /\ Means(p, s, i + 1, j + 1)
    BY <1>1, <1>4, <2>1, MeansOne
  <2>4. QED
    BY <2>1, <2>2, <2>3
<1> HIDE DEF c, d
<1>5. CASE c = "/"
  <2>1. /\ i \in 1..Len(p) /\ p[i] = "/" /\ c # NUL /\ c # "*"
        /\ CharAt(p, i + 1) \notin {"/", NUL}
    <3>1. c # NUL /\ c # "*"
      BY <1>5 DEF NUL
    <3>2. i \in DOMAIN p /\ p[i] = "/"
      BY <1>1, <1>4, <1>5, <3>1
    <3>3. QED
      BY <1>1, <1>5, <3>1, <3>2 DEF Glob
  <2>2. pm_slashskip(p, i) = i + 1
    <3>1. CharAt(p, i) = "/" /\ CharAt(p, i + 1) # "/"
      BY <1>5, <2>1 DEF c
    <3>2. \A k \in 1..Len(p) : p[k] = "." => CharAt(p, k + 1) \notin {"/", NUL}
      BY <1>1 DEF Glob
    <3>3. QED
      BY <3>1, <3>2, SlashskipOne
  <2>3. \A k \in 1..Len(s) : s[k] = "." => CharAt(s, k + 1) \notin {"/", NUL}
    BY <1>1 DEF CleanName
  <2> DEFINE k == pm_slashskip(s, j)
  <2>4. d = "/" => k = j + 1 /\ j + 1 \in 1..(Len(s) + 1)
    <3>1. ASSUME d = "/" PROVE CharAt(s, j) = "/" /\ CharAt(s, j + 1) # "/" /\ j \in 1..Len(s)
      <4>1. CharAt(s, j) = "/" /\ j \in 1..Len(s)
        BY <1>1, <3>1 DEF d, NUL
      <4>2. s[j] = "/"
        BY <4>1, TextFacts
      <4>3. QED
        BY <1>1, <4>1, <4>2 DEF CleanName
    <3>2. QED
      BY <1>1, <2>3, <3>1, SlashskipOne
  <2>5. d = NUL => k = Len(s) + 1 /\ j = Len(s) + 1
    <3>1. d = NUL => j = Len(s) + 1 /\ CharAt(s, j) # "/"
      BY <1>1 DEF d, NUL
    <3>2. QED
      BY <2>3, <3>1, SlashskipOne
  <2> HIDE DEF k
  <2>6. pm_turn(loop, p, i, s, j, flags, b)
          <=> d \in {"/", NUL} /\ loop[<<i + 1, k, flags>>]
    BY <1>1, <1>5, <2>1, <2>2 DEF pm_turn, c, d, k, NUL
  <2>7. d \in ItemOf(c) <=> d \in {"/", NUL}
    BY <1>5 DEF ItemOf
  <2>8. CASE d = "/"
    BY <1>4, <1>next, <2>1, <2>4, <2>6, <2>7, <2>8
  <2>9. CASE d = NUL
    <3>1. loop[<<i + 1, Len(s) + 1, flags>>] <=> Means(p, s, i + 1, Len(s) + 1)
      BY <1>1, <1>4, <1>next, <2>1
    <3>2. i + 1 \in 1..(Len(p) + 1) /\ CharAt(p, i + 1) # "/"
      BY <1>1, <2>1
    <3>3. Means(p, s, i + 1, Len(s) + 2) <=> Means(p, s, i + 1, Len(s) + 1)
      BY <3>2, MeansBehind
    <3>4. j + 1 = Len(s) + 2
      BY <1>1, <2>5, <2>9
    <3>5. QED
      BY <1>4, <2>1, <2>5, <2>6, <2>7, <2>9, <3>1, <3>3, <3>4
  <2>10. QED
    BY <1>4, <2>1, <2>6, <2>7, <2>8, <2>9
<1>6. CASE c \notin {NUL, "*", "/"}
  <2>1. /\ i \in 1..Len(p) /\ p[i] = c /\ c \in ToSet(Alphabet)
        /\ c \notin {"[", "\\", "^", "$"} /\ i + 1 \in (i + 1)..(Len(p) + 1)
        /\ Means(p, s, i, j) <=> d \in ItemOf(c) /\ Means(p, s, i + 1, j + 1)
    BY <1>4, <1>6
  <2>2. d # NUL => j + 1 \in 1..(Len(s) + 1)
    BY <1>1
  <2>3. d # NUL => (loop[<<i + 1, j + 1, flags>>] <=> Means(p, s, i + 1, j + 1))
    BY <1>next, <2>1, <2>2
  <2>4. CASE c = "?"
    <3>1. pm_turn(loop, p, i, s, j, flags, b) <=> d # NUL /\ loop[<<i + 1, j + 1, flags>>]
      BY <1>1, <2>4 DEF pm_turn, c, d, NUL
    <3>2. d \in ItemOf(c) <=> d # NUL
      <4>1. d # NUL => d \in ToSet(Alphabet)
        BY <1>1, TextFacts DEF d
      <4>2. NUL \notin ToSet(Alphabet)
        BY MatchingAssumption DEF Characters
      <4>3. QED
        BY <2>4, <4>1, <4>2 DEF ItemOf
    <3>3. QED
      BY <2>1, <2>3, <3>1, <3>2
  <2>5. CASE c # "?"
    <3>1. pm_turn(loop, p, i, s, j, flags, b) <=> c = d /\ loop[<<i + 1, j + 1, flags>>]
      BY <1>1, <1>6, <2>1, <2>5 DEF pm_turn, c, d
    <3>2. ItemOf(c) = {c}
      BY <1>6, <2>1, <2>5, ItemFacts
    <3>3. QED
      BY <1>6, <2>1, <2>3, <3>1, <3>2
  <2>6. QED
    BY <2>4, <2>5
<1>7. QED
  BY <1>2, <1>3, <1>5, <1>6


\* The loop means what the items mean, at every place.
LEMMA LoopAsMeant ==
  ASSUME NEW p \in Texts, Glob(p), NEW s \in Texts, CleanName(s), NEW b
  PROVE  LoopMeans(pm_loop(p, s, b), p, s, 1)
PROOF
<1> DEFINE l == pm_loop(p, s, b)
           Bad == {n \in Nat : n <= Len(p) + 1 /\ ~LoopMeans(l, p, s, (Len(p) + 2) - n)}
<1>1. Len(p) \in Nat /\ Len(s) \in Nat
  BY TextFacts
<1>2. LoopsFrom(l, p, s, b, 1)
  BY LoopKnown
<1> HIDE DEF l
<1>3. Bad = {}
  <2>1. SUFFICES ASSUME Bad # {} PROVE FALSE
    OBVIOUS
  <2>2. PICK n \in Bad : \A y \in Bad : n <= y
    <3>1. Bad \in SUBSET Nat
      OBVIOUS
    <3>2. QED
      BY <2>1, <3>1, LeastNumber
  <2>3. n # 0
    <3>1. ASSUME n = 0 PROVE FALSE
      <4>1. LoopMeans(l, p, s, (Len(p) + 2) - n)
        <5>1. (Len(p) + 2) - n = Len(p) + 2 /\ (Len(p) + 2)..(Len(p) + 1) = {}
          BY <1>1, <3>1
        <5>2. QED
          BY <5>1 DEF LoopMeans
      <4>2. QED
        BY <2>2, <4>1
    <3>2. QED
      BY <3>1
  <2> DEFINE m == (Len(p) + 2) - n
  <2>4. /\ n - 1 \in Nat /\ n - 1 <= Len(p) + 1 /\ n - 1 \notin Bad
        /\ (Len(p) + 2) - (n - 1) = m + 1 /\ m \in 1..(Len(p) + 1)
    <3>1. n \in Nat /\ n <= Len(p) + 1 /\ \A y \in Bad : n <= y
      BY <2>2
    <3> HIDE DEF Bad
    <3>2. n - 1 \in Nat /\ ~(n <= n - 1)
      BY <3>1, <2>3
    <3>3. n - 1 \notin Bad
      BY <3>1, <3>2
    <3>4. QED
      BY <1>1, <3>1, <3>2, <3>3
  <2>5. LoopMeans(l, p, s, m + 1)
    BY <2>4
  <2> HIDE DEF m
  <2>6. ASSUME NEW j \in 1..(Len(s) + 1), NEW g \in Flags, NO_ANCHOR_END \in g
        PROVE  l[<<m, j, g>>] <=> Means(p, s, m, j)
    <3>1. <<m, j, g>> \in Places(p, s) /\ m >= 1
      <4>1. j \in 1..(Len(s) + 2)
        BY <1>1
      <4>2. QED
        BY <2>4, <4>1, PlacesKnown
    <3>2. l[<<m, j, g>>] = pm_turn(l, p, m, s, j, g, b)
      BY <1>2, <3>1 DEF LoopsFrom
    <3>3. pm_turn(l, p, m, s, j, g, b) <=> Means(p, s, m, j)
      BY <2>4, <2>5, <2>6, TurnMeans
    <3>4. QED
      BY <3>2, <3>3
  <2>7. LoopMeans(l, p, s, m)
    <3>1. ASSUME NEW i \in m..(Len(p) + 1), NEW j \in 1..(Len(s) + 1),
                 NEW g \in Flags, NO_ANCHOR_END \in g
          PROVE  l[<<i, j, g>>] <=> Means(p, s, i, j)
      <4>1. CASE i = m
        BY <3>1, <4>1, <2>6
      <4>2. CASE i # m
        <5>1. i \in (m + 1)..(Len(p) + 1)
          BY <1>1, <2>4, <4>2
        <5>2. QED
          BY <2>5, <3>1, <5>1 DEF LoopMeans
      <4>3. QED
        BY <4>1, <4>2
    <3>2. QED
      BY <3>1 DEF LoopMeans
  <2>8. QED
    BY <2>2, <2>7 DEF m
<1>4. LoopMeans(l, p, s, 1)
  <2>1. Len(p) + 1 \in Nat /\ (Len(p) + 2) - (Len(p) + 1) = 1
    BY <1>1
  <2>2. ~(Len(p) + 1 \in Bad)
    BY <1>3
  <2>3. LoopMeans(l, p, s, (Len(p) + 2) - (Len(p) + 1))
    BY <2>1, <2>2
  <2>4. QED
    BY <2>1, <2>3
<1>5. QED
  BY <1>4 DEF l

\* Where a match may begin.
StartsIn(p, s, anchored) ==
  {k \in 0..Len(s) :
     \/ k = 0 /\ (anchored \/ s[1] # "/" \/ p[1] = "/")
     \/ k > 0 /\ s[k] = "/" /\ ~anchored /\ p[1] # "/"}

LEMMA RefMatchMeans ==
  ASSUME NEW given, NEW s \in Texts, CleanName(s), NEW anchored \in BOOLEAN,
         Stripped(given) \in Texts, Glob(Stripped(given)), Stripped(given) # << >>
  PROVE  RefMatch(given, s, anchored)
           <=> \E k \in StartsIn(Stripped(given), s, anchored) :
                 Means(Stripped(given), s, 1, k + 1)
PROOF
<1> DEFINE p == Stripped(given)
<1>1. /\ Len(p) \in Nat \ {0} /\ Len(s) \in Nat /\ DOMAIN p = 1..Len(p)
      /\ \A k \in 1..Len(p) : p[k] \in ToSet(Alphabet) /\ p[k] \notin {"^", "$"}
  <2>1. Len(p) \in Nat /\ Len(s) \in Nat /\ DOMAIN p = 1..Len(p)
        /\ \A k \in 1..Len(p) : p[k] \in ToSet(Alphabet)
    BY TextFacts
  <2>2. Len(p) # 0
    BY EmptySeq DEF Texts
  <2>3. QED
    BY <2>1, <2>2 DEF Glob
<1>2. 1 \in 1..Len(p) /\ Len(p) \in 1..Len(p)
  BY <1>1
<1>3. p[1] # "^" /\ p[Len(p)] # "$" /\ p[1] \in ToSet(Alphabet)
  BY <1>1, <1>2
<1> DEFINE items == ItemsOf(p)
<1>4. /\ Items(SubSeq(p, 1, Len(p))) = items
      /\ Len(items) = Len(p) /\ DOMAIN items = 1..Len(items) /\ items[1] = ItemOf(p[1])
  <2>1. SubSeq(p, 1, Len(p)) = p
    BY SubSeqFull DEF Texts
  <2>2. Items(p) = items
    BY ItemsMeant
  <2>3. QED
    BY <1>2, <2>1, <2>2, ItemsOfStep DEF ItemsOf
<1>5. items[1] = {"/", NUL} <=> p[1] = "/"
  BY <1>3, <1>4, ItemFacts
<1> DEFINE Starts == {k \in 0..Len(s) :
                        \/ k = 0 /\ (anchored \/ s[1] # "/" \/ items[1] = {"/", NUL})
                        \/ k > 0 /\ s[k] = "/" /\ ~anchored /\ items[1] # {"/", NUL}}
           Ends == {k \in 0..(Len(s) + 1) : k >= Len(s) \/ s[k + 1] = "/"}
<1>6. Starts = StartsIn(p, s, anchored) /\ Ends = EndsIn(s)
  BY <1>5 DEF StartsIn, EndsIn
<1>7. RefMatch(given, s, anchored)
        <=> \E from \in Starts, to \in Ends : Divides(items, s, from, to)
  <2>1. Stripped(given) = IF given # << >> /\ given[Len(given)] = "/" THEN Front(given) ELSE given
    BY DEF Stripped
  <2> DEFINE text == IF given # << >> /\ given[Len(given)] = "/" THEN Front(given) ELSE given
             start == text # << >> /\ text[1] = "^"
             end == text # << >> /\ text[Len(text)] = "$"
             items2 == Items(SubSeq(text, IF start THEN 2 ELSE 1,
                                    IF end THEN Len(text) - 1 ELSE Len(text)))
             Starts2 == {k \in 0..Len(s) :
                           \/ k = 0 /\ (anchored \/ start \/ s[1] # "/" \/ items2[1] = {"/", NUL})
                           \/ k > 0 /\ s[k] = "/" /\ ~anchored /\ ~start
                                    /\ items2[1] # {"/", NUL}}
             Ends2 == {k \in 0..(Len(s) + 1) :
                         \/ k >= Len(s)
                         \/ ~end /\ s[k + 1] = "/"}
  <2>2. RefMatch(given, s, anchored)
          <=> text # << >> /\ \E from \in Starts2, to \in Ends2 : Divides(items2, s, from, to)
    BY DEF RefMatch
  <2>3. text = p
    BY <2>1
  <2>4. ~start /\ ~end /\ text # << >>
    BY <1>3, <2>3
  <2>5. items2 = items
    BY <1>4, <2>3, <2>4
  <2> HIDE DEF items2, start, end
  <2>6. Starts2 = Starts /\ Ends2 = Ends
    BY <2>4, <2>5
  <2>7. QED
    BY <2>2, <2>4, <2>5, <2>6
<1>8. \A from \in Starts, to \in Ends : Divides(items, s, from, to)
                                          <=> Fits(items, s, 1, (from + 1) - 1, to)
  <2>1. ASSUME NEW from \in Starts, NEW to \in Ends
        PROVE  from \in Nat /\ to \in Nat /\ (from + 1) - 1 = from
    BY <1>1
  <2>2. \A from \in Nat, to \in Nat : Divides(items, s, from, to) <=> Fits(items, s, 1, from, to)
    BY <1>1, <1>4, DividesFits
  <2> HIDE DEF Starts, Ends
  <2>3. QED
    BY <2>1, <2>2
<1> HIDE DEF Starts, Ends
<1>9. \A k : Means(p, s, 1, k + 1) <=> \E to \in Ends : Fits(items, s, 1, (k + 1) - 1, to)
  BY <1>6 DEF Means
<1>10. QED
  BY <1>6, <1>7, <1>8, <1>9


\* What is tried first: where a match may begin.
LEMMA PathmatchMeans ==
  ASSUME NEW p \in Texts, Glob(p), p # << >>, NEW s \in Texts, CleanName(s), NEW loop,
         LoopMeans(loop, p, s, 1), NEW anchored \in BOOLEAN
  PROVE  pathmatch(loop, p, 1, s, 1,
                   IF anchored THEN {NO_ANCHOR_END} ELSE {NO_ANCHOR_START, NO_ANCHOR_END})
           <=> \E k \in StartsIn(p, s, anchored) : Means(p, s, 1, k + 1)
PROOF
<1> DEFINE g == IF anchored THEN {NO_ANCHOR_END} ELSE {NO_ANCHOR_START, NO_ANCHOR_END}
           n == Len(s)
<1>1. /\ Len(p) \in Nat \ {0} /\ n \in Nat \ {0} /\ DOMAIN p = 1..Len(p) /\ DOMAIN s = 1..n
      /\ CharAt(p, 1) = p[1] /\ CharAt(s, 1) = s[1] /\ p[1] \in ToSet(Alphabet)
      /\ p[1] # NUL /\ s[1] # NUL /\ p[1] # "^"
  <2>1. /\ Len(p) \in Nat /\ n \in Nat /\ DOMAIN p = 1..Len(p) /\ DOMAIN s = 1..n
    BY TextFacts
  <2>2. Len(p) # 0 /\ n # 0
    BY EmptySeq DEF Texts, CleanName
  <2>3. 1 \in 1..Len(p) /\ 1 \in 1..n
    BY <2>1, <2>2
  <2>4. CharAt(p, 1) = p[1] /\ CharAt(s, 1) = s[1] /\ p[1] \in ToSet(Alphabet)
        /\ s[1] \in ToSet(Alphabet)
    BY <2>3, TextFacts
  <2>5. p[1] # "^"
    BY <2>1, <2>3 DEF Glob
  <2>6. NUL \notin ToSet(Alphabet)
    BY MatchingAssumption DEF Characters
  <2>7. QED
    BY <2>1, <2>2, <2>4, <2>5, <2>6
<1>2. g \in Flags /\ NO_ANCHOR_END \in g /\ (NO_ANCHOR_START \in g <=> ~anchored)
  BY DEF Flags, NO_ANCHOR_START, NO_ANCHOR_END
<1>kept. \A i \in 1..(Len(p) + 1), j \in 1..(Len(s) + 1) :
           \A l, flags : pm(l, p, i, s, j, flags) = l[<<i, j, flags>>]
  BY NothingSkipped
<1>3. ASSUME NEW i \in 1..(Len(p) + 1), NEW j \in 1..(n + 1)
      PROVE  pm(loop, p, i, s, j, g) <=> Means(p, s, i, j)
  <2>1. pm(loop, p, i, s, j, g) = loop[<<i, j, g>>]
    BY <1>kept
  <2>2. loop[<<i, j, g>>] <=> Means(p, s, i, j)
    BY <1>2 DEF LoopMeans
  <2>3. QED
    BY <2>1, <2>2
<1> HIDE DEF g, n
<1>4. pathmatch(loop, p, 1, s, 1, g)
        <=> IF p[1] = "/" /\ s[1] # "/" THEN FALSE
            ELSE IF p[1] \in {"*", "/"} THEN pm(loop, p, Past("/", p, 1), s, Past("/", s, 1), g)
            ELSE IF NO_ANCHOR_START \in g
              THEN \E k \in ElementStarts(s, 1) : pm(loop, p, 1, s, k, g)
            ELSE pm(loop, p, 1, s, 1, g)
  BY <1>1 DEF pathmatch, Anchored
<1>5. /\ s[1] = "/" => Past("/", s, 1) = 2
      /\ s[1] # "/" => Past("/", s, 1) = 1
      /\ p[1] = "/" => Past("/", p, 1) = 2 /\ Len(p) >= 2
      /\ p[1] # "/" => Past("/", p, 1) = 1
  <2>1. 1 \in 1..(n + 1) /\ 1 \in 1..(Len(p) + 1) /\ 1 \in 1..n /\ 1 \in 1..Len(p) /\ 1 + 1 = 2
    BY <1>1
  <2>2. /\ s[1] = "/" => CharAt(s, 1 + 1) # "/"
        /\ p[1] = "/" => CharAt(p, 1 + 1) \notin {"/", NUL}
    BY <1>1, <2>1 DEF CleanName, Glob
  <2>3. p[1] = "/" => Len(p) >= 2
    BY <1>1, <2>1, <2>2, TextFacts
  <2>4. \A text \in Texts, i \in Nat :
          i \in 1..(Len(text) + 1) =>
            /\ CharAt(text, i) # "/" => Past("/", text, i) = i
            /\ CharAt(text, i) = "/" /\ CharAt(text, i + 1) # "/" => Past("/", text, i) = i + 1
    BY PastOne DEF NUL
  <2>5. QED
    BY <1>1, <2>1, <2>2, <2>3, <2>4 DEF n
<1>begin. /\ Means(p, s, 1, 0 + 1) <=> Means(p, s, 1, 1)
          /\ 0 \in 0..n /\ 1 \in 1..n /\ 1 \in 1..(Len(p) + 1) /\ 1 \in 1..(n + 1)
          /\ 2 \in 1..(n + 1) /\ 1 \in 0..n /\ 1 \in 1..Len(p)
  BY <1>1
<1>6. CASE p[1] = "/"
  <2>1. StartsIn(p, s, anchored) = {0}
    BY <1>1, <1>6, <1>begin DEF StartsIn, n
  <2>2. Means(p, s, 1, 1) <=> s[1] = "/" /\ Means(p, s, 2, 2)
    <3>1. Means(p, s, 1, 1) <=> CharAt(s, 1) \in ItemOf(p[1]) /\ Means(p, s, 1 + 1, 1 + 1)
      BY <1>6, <1>begin, MeansOne
    <3>2. ItemOf(p[1]) = {"/", NUL}
      BY <1>1, <1>6, ItemFacts
    <3>3. QED
      BY <1>1, <3>1, <3>2
  <2>3. 2 \in 1..(Len(p) + 1)
    BY <1>1, <1>5, <1>6
  <2>4. pm(loop, p, 2, s, 2, g) <=> Means(p, s, 2, 2)
    BY <1>3, <1>begin, <2>3
  <2>5. QED
    BY <1>4, <1>5, <1>6, <1>begin, <2>1, <2>2, <2>4 DEF g
<1>7. CASE p[1] = "*"
  <2> DEFINE start == Past("/", s, 1)
             q == Past("*", p, 1)
  <2>1. start \in 1..(n + 1) /\ start \in {1, 2}
    BY <1>5, <1>begin
  <2>2. pathmatch(loop, p, 1, s, 1, g) <=> Means(p, s, 1, start)
    <3>1. pathmatch(loop, p, 1, s, 1, g) <=> pm(loop, p, 1, s, start, g)
      BY <1>4, <1>5, <1>7
    <3>2. pm(loop, p, 1, s, start, g) <=> Means(p, s, 1, start)
      BY <1>3, <1>begin, <2>1
    <3>3. QED
      BY <3>1, <3>2
  <2>3. /\ q \in 2..(Len(p) + 1) /\ CharAt(p, q) \notin {"*", "/", "?"}
        /\ \A j \in Nat \ {0} :
             Means(p, s, 1, j) <=> \E k \in Nat \ {0} : j <= k /\ Means(p, s, q, k)
    <3>1. 1 + 1 = 2
      OBVIOUS
    <3>2. QED
      BY <1>7, <1>begin, <3>1, StarRun
  <2> HIDE DEF q
  <2>4. ASSUME NEW j \in Nat \ {0}, NEW j2 \in Nat \ {0}, j <= j2, Means(p, s, 1, j2)
        PROVE  Means(p, s, 1, j)
    <3>1. PICK k \in Nat \ {0} : j2 <= k /\ Means(p, s, q, k)
      BY <2>3, <2>4
    <3>2. j <= k
      BY <2>4, <3>1
    <3>3. QED
      BY <2>3, <3>1, <3>2
  <2>5. ASSUME s[1] = "/", Means(p, s, 1, 1) PROVE Means(p, s, 1, 2)
    <3>1. PICK k \in Nat \ {0} : 1 <= k /\ Means(p, s, q, k)
      BY <2>3, <2>5
    <3>2. CASE q = Len(p) + 1
      <4>1. n + 1 \in 1..(n + 2) /\ 2 <= n + 1 /\ n + 1 \in Nat \ {0} /\ n + 1 > n
        BY <1>1
      <4>2. CharAt(s, n + 1) = NUL
        BY <4>1, TextFacts DEF n
      <4>3. Means(p, s, q, n + 1)
        BY <3>2, <4>1, <4>2, MeansNone DEF n
      <4>4. QED
        BY <2>3, <4>1, <4>3
    <3>3. CASE q # Len(p) + 1
      <4>1. q \in 1..Len(p)
        BY <1>1, <2>3, <3>3
      <4>2. p[q] \notin {"*", "/", "?"} /\ p[q] \in ToSet(Alphabet)
        BY <2>3, <4>1, TextFacts
      <4>3. CharAt(s, k) \in ItemOf(p[q]) /\ ItemOf(p[q]) = {p[q]}
        BY <3>1, <4>1, <4>2, MeansOne, ItemFacts
      <4>4. k # 1
        BY <1>1, <2>5, <4>2, <4>3
      <4>5. 2 <= k
        BY <3>1, <4>4
      <4>6. QED
        BY <2>3, <3>1, <4>5
    <3>4. QED
      BY <3>2, <3>3
  <2>6. ASSUME NEW k \in StartsIn(p, s, anchored), Means(p, s, 1, k + 1)
        PROVE  Means(p, s, 1, start)
    <3>1. k \in 0..n /\ (k = 0 \/ k >= 1) /\ k + 1 \in Nat \ {0}
      BY <1>1 DEF StartsIn, n
    <3>2. CASE start <= k + 1
      BY <2>1, <2>4, <2>6, <3>1, <3>2
    <3>3. CASE ~(start <= k + 1)
      <4>1. start = 2 /\ k = 0 /\ k + 1 = 1
        BY <2>1, <3>1, <3>3
      <4>2. s[1] = "/"
        BY <1>5, <4>1
      <4>3. QED
        BY <2>5, <2>6, <4>1, <4>2
    <3>4. QED
      BY <3>2, <3>3
  <2>7. ASSUME Means(p, s, 1, start)
        PROVE  \E k \in StartsIn(p, s, anchored) : Means(p, s, 1, k + 1)
    <3>1. CASE anchored \/ s[1] # "/"
      <4>1. 0 \in StartsIn(p, s, anchored)
        BY <1>begin, <3>1 DEF StartsIn, n
      <4>2. Means(p, s, 1, 1)
        BY <2>1, <2>4, <2>7
      <4>3. QED
        BY <1>begin, <4>1, <4>2
    <3>2. CASE ~anchored /\ s[1] = "/"
      <4>1. 1 \in StartsIn(p, s, anchored)
        BY <1>7, <1>begin, <3>2 DEF StartsIn, n
      <4>2. start = 1 + 1
        BY <1>5, <3>2
      <4>3. QED
        BY <2>7, <4>1, <4>2
    <3>3. QED
      BY <3>1, <3>2
  <2>8. QED
    BY <2>2, <2>6, <2>7 DEF g
<1>8. CASE p[1] \notin {"/", "*"}
  <2>1. CASE anchored
    <3>1. StartsIn(p, s, anchored) = {0}
      BY <1>begin, <2>1 DEF StartsIn, n
    <3>2. pathmatch(loop, p, 1, s, 1, g) <=> pm(loop, p, 1, s, 1, g)
      BY <1>2, <1>4, <1>8, <2>1
    <3>3. pm(loop, p, 1, s, 1, g) <=> Means(p, s, 1, 1)
      BY <1>3, <1>begin
    <3>4. QED
      BY <1>begin, <3>1, <3>2, <3>3 DEF g
  <2>2. CASE ~anchored
    <3>1. pathmatch(loop, p, 1, s, 1, g)
            <=> \E k \in ElementStarts(s, 1) : pm(loop, p, 1, s, k, g)
      BY <1>2, <1>4, <1>8, <2>2
    <3>2. ElementStarts(s, 1) = {k + 1 : k \in StartsIn(p, s, anchored)}
      <4>1. ElementStarts(s, 1) = {IF s[1] = "/" THEN 2 ELSE 1}
                                    \cup {k + 1 : k \in {k \in 1..n : s[k] = "/"}}
        BY <1>1 DEF ElementStarts, n
      <4>2. StartsIn(p, s, anchored)
              = {k \in 0..n : (k = 0 /\ s[1] # "/") \/ (k > 0 /\ s[k] = "/")}
        BY <1>8, <2>2 DEF StartsIn, n
      <4>3. CASE s[1] = "/"
        <5>1. {k \in 0..n : (k = 0 /\ s[1] # "/") \/ (k > 0 /\ s[k] = "/")}
                = {k \in 1..n : s[k] = "/"}
          BY <1>1, <4>3
        <5>2. 2 \in {k + 1 : k \in {k \in 1..n : s[k] = "/"}}
          BY <1>begin, <4>3
        <5>3. QED
          BY <4>1, <4>2, <4>3, <5>1, <5>2
      <4>4. CASE s[1] # "/"
        <5>1. {k \in 0..n : (k = 0 /\ s[1] # "/") \/ (k > 0 /\ s[k] = "/")}
                = {0} \cup {k \in 1..n : s[k] = "/"}
          BY <1>1, <4>4
        <5>2. {k + 1 : k \in {0} \cup {k \in 1..n : s[k] = "/"}}
                = {1} \cup {k + 1 : k \in {k \in 1..n : s[k] = "/"}}
          BY <1>1
        <5>3. QED
          BY <4>1, <4>2, <4>4, <5>1, <5>2
      <4>5. QED
        BY <4>3, <4>4
    <3>3. \A k \in StartsIn(p, s, anchored) : k + 1 \in 1..(n + 1)
      BY <1>1 DEF StartsIn, n
    <3>4. \A k \in StartsIn(p, s, anchored) :
            pm(loop, p, 1, s, k + 1, g) <=> Means(p, s, 1, k + 1)
      BY <1>3, <1>begin, <3>3
    <3>5. QED
      BY <3>1, <3>2, <3>4 DEF g
  <2>3. QED
    BY <2>1, <2>2
<1>9. QED
  BY <1>6, <1>7, <1>8


LEMMA GlobAsMeant ==
  ASSUME NEW given, NEW s \in Texts, CleanName(s), NEW anchored \in BOOLEAN,
         Stripped(given) \in Texts, Glob(Stripped(given))
  PROVE  Matched(given, s, anchored) <=> RefMatch(given, s, anchored)
PROOF
<1> DEFINE p == Stripped(given)
           g == IF anchored THEN {NO_ANCHOR_END} ELSE {NO_ANCHOR_START, NO_ANCHOR_END}
<1>1. Matched(given, s, anchored) <=> pathmatch(pm_loop(p, s, FALSE), p, 1, s, 1, g)
  BY DEF Matched, lafe_pathmatch
<1>2. CASE p = << >>
  <2>1. CharAt(p, 1) = NUL
    BY <1>2, EmptySeq DEF CharAt
  <2>2. CharAt(s, 1) # NUL
    <3>1. Len(s) \in Nat \ {0}
      BY EmptySeq DEF Texts, CleanName
    <3>2. ~(1 > Len(s)) /\ 1 \in Nat \ {0}
      BY <3>1
    <3>3. QED
      BY <3>2, TextFacts
  <2>3. ~pathmatch(pm_loop(p, s, FALSE), p, 1, s, 1, g)
    BY <2>1, <2>2 DEF pathmatch
  <2>4. ~RefMatch(given, s, anchored)
    BY <1>2 DEF RefMatch, Stripped
  <2>5. QED
    BY <1>1, <2>3, <2>4
<1>3. CASE p # << >>
  <2>1. LoopMeans(pm_loop(p, s, FALSE), p, s, 1)
    BY LoopAsMeant
  <2>2. pathmatch(pm_loop(p, s, FALSE), p, 1, s, 1, g)
          <=> \E k \in StartsIn(p, s, anchored) : Means(p, s, 1, k + 1)
    BY <1>3, <2>1, PathmatchMeans
  <2>3. RefMatch(given, s, anchored)
          <=> \E k \in StartsIn(p, s, anchored) : Means(p, s, 1, k + 1)
    BY <1>3, RefMatchMeans
  <2>4. QED
    BY <1>1, <2>2, <2>3
<1>4. QED
  BY <1>2, <1>3

\* All patterns there are, their trailing slash removed, and all names are such.
GlobsOnly ==
  /\ \A given \in Given : Glob(Stripped(given))
  /\ \A name \in Names : CleanName(name)

\* The matcher, which backtracks through the name at each `*' and, for an
\* exclusion, from the start of each element, says of every such pattern and name
\* what the pattern means (MatchesAsMeant): that some way to divide the name among
\* the pattern's items exists.
THEOREM GlobsMeant ==
  ASSUME GlobsOnly
  PROVE  MatchesAsMeant
PROOF
<1>1. SUFFICES ASSUME NEW given \in Given, NEW name \in Names, NEW anchored \in BOOLEAN
      PROVE  lafe_pathmatch(Stripped(given), name,
               {NO_ANCHOR_END} \cup (IF anchored THEN {} ELSE {NO_ANCHOR_START}), FALSE)
                 <=> RefMatch(given, name, anchored)
  BY DEF MatchesAsMeant
<1>2. {NO_ANCHOR_END} \cup (IF anchored THEN {} ELSE {NO_ANCHOR_START})
        = (IF anchored THEN {NO_ANCHOR_END} ELSE {NO_ANCHOR_START, NO_ANCHOR_END})
  OBVIOUS
<1>3. /\ name \in Texts /\ CleanName(name)
      /\ Stripped(given) \in Texts /\ Glob(Stripped(given))
  BY GivenTexts DEF GlobsOnly
<1>4. Matched(given, name, anchored) <=> RefMatch(given, name, anchored)
  BY <1>3, GlobAsMeant
<1>5. QED
  BY <1>2, <1>4 DEF Matched

\* With such patterns and names, and on no other condition, a name is left out
\* if and only if an exclusion matches it by the meaning of its pattern or, where
\* there are inclusions, none does; and the inclusions counted as unmatched are
\* those that mean none of the names asked about.
THEOREM GlobsDecided ==
  ASSUME GlobsOnly
  PROVE  Spec => /\ [][asked' # {} /\ answer' # answer =>
                         answer'.excluded = RefExcluded(answer'.name)]_vars
                 /\ [](UnmatchedCounted /\ ~overrun)
PROOF
<1>1. EndInNoClass
  <2>1. ASSUME NEW given \in Given, EndInClass(Stripped(given)) PROVE FALSE
    <3>1. PICK i \in DOMAIN Stripped(given) : AcceptsEnd(Stripped(given), i)
      BY <2>1 DEF EndInClass
    <3>2. CharAt(Stripped(given), i) = "[" /\ Stripped(given)[i] # "["
      BY <3>1 DEF AcceptsEnd, GlobsOnly, Glob
    <3>3. i \in 1..Len(Stripped(given)) /\ Stripped(given) \in Texts
      BY GivenTexts, TextFacts
    <3>4. QED
      BY <3>2, <3>3, TextFacts
  <2>2. QED
    BY <2>1 DEF EndInNoClass
<1>2. MatchesAsMeant
  BY GlobsMeant
<1>3. Spec => []~overrun
  <2>1. Spec => [](~overrun /\ inclusions_unmatched_count = Cardinality(Unmatched))
    BY <1>1, NotBeyond
  <2>2. QED
    BY <2>1, PTL
<1>4. Spec => []UnmatchedCounted
  BY <1>2, UnmatchedCountedHolds
<1>5. Spec => [][asked' # {} /\ answer' # answer /\ ~overrun' =>
                   answer'.excluded = RefExcluded(answer'.name)]_vars
  BY <1>2, DecidedHolds DEF Decided
<1>6. ~overrun' /\ [asked' # {} /\ answer' # answer /\ ~overrun' =>
                      answer'.excluded = RefExcluded(answer'.name)]_vars
        => [asked' # {} /\ answer' # answer =>
              answer'.excluded = RefExcluded(answer'.name)]_vars
  OBVIOUS
<1>7. QED
  BY <1>3, <1>4, <1>5, <1>6, PTL
=============================================================================
