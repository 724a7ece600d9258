-------------------------- MODULE MemberWriterProofs --------------------------
(***************************************************************************)
(* What the archive written by write_file() and finish() is, for all files *)
(* of all sizes in records of any length, and what a reader makes of it.   *)
(***************************************************************************)
EXTENDS MemberWriter, SequenceTheorems, FiniteSetTheorems,
        WellFoundedInduction, TLAPS

Inputted == UNION {Inputs[e] : e \in Formats}
Strings  == {None, "cut"} \cup {f.name : f \in Inputted} \cup {f.dest : f \in Inputted}
Headers  == [name : Strings, cut : BOOLEAN, size : Nat,
             type : {"0", "1", "2", "5"}, link : Strings, linklen : Nat]
BlockSet ==
  {Zero, Mixed} \cup {Header(n, t, l, m) : n \in Strings, t \in {"0", "1", "2", "5"},
                                    l \in Strings, m \in Nat}
  \cup {Extension(t, m) : t \in {"L", "K", "x"}, m \in Nat}
  \cup {Text(of, i) : of \in Strings \cup Strings \X Strings, i \in Nat}
  \cup {Data(of, i) : of \in Strings, i \in Nat}

RecordOK ==
  /\ data \in [1..Factor -> BlockSet] /\ used \in 0..Factor
  /\ flushed \in Seq(BlockSet)

\* What Taken is made of.
Kept == <<data, used, flushed>>

\* The handle received what was flushed, unless a flush failed half way.
OutputOK ==
  /\ stream \in Seq(BlockSet) /\ shape \in {"whole", "torn", "shifted"}
  /\ intact \in Nat /\ ends \in Seq(Nat)
  /\ shape = "whole" => stream = flushed
  /\ "flush" \notin faults => shape = "whole"

Between == {"begin", "finish", "finished"}

TypeOK ==
  /\ extensions \in Formats /\ faults \in FaultSets
  /\ files \in Seq(Inputs[extensions])
  /\ k \in 1..(Len(files) + 1)
  /\ pc \notin {"finish", "finished"} => k \in DOMAIN files
  /\ pc \in Between \cup {"extension", "long_name", "long_link", "records",
                          "header", "body"}
  /\ header \in Headers \cup {NoHeader}
  /\ pc \notin Between => header \in Headers
  /\ block \in 0..Factor /\ wrlen \in Nat /\ left \in Nat /\ total \in Nat
  /\ cache \in [{f.inode : f \in ToSet(files)} -> Strings]
  /\ err \in {"ok", "warn", "fatal"}
  /\ archived \in Seq(Headers) /\ died \in BOOLEAN

\* A name in the cache is that of a regular file that came before.
CacheInv ==
  \A i \in DOMAIN cache : cache[i] # None =>
    \E j \in DOMAIN files :
      /\ files[j].name = cache[i] /\ files[j].inode = i /\ files[j].type = "0"
      /\ j <= k /\ (pc = "begin" => j < k)

\* No GNU archive is to have a member that needs both a long name and a long link.
OneLongName ==
  "gnu" \in Formats => \A f \in Inputs["gnu"] : f.cut =>
    /\ f.destlen <= 100
    /\ \A g \in Inputs["gnu"] :
         f.inode # 0 /\ f.inode = g.inode /\ f.type = "0" /\ g.type = "0"
           => f = g \/ g.len <= 100

\* Extensions are written of members that need them, if they are enabled.
WhereInv ==
  /\ pc \in {"extension", "long_name", "long_link", "records"} =>
       extensions # "none" /\ (header.cut \/ truncated_link)
  /\ pc = "long_name" => extensions = "gnu" /\ header.cut /\ left <= Blocks(long_len)
  /\ pc = "long_link" =>
       extensions = "gnu" /\ truncated_link /\ left <= Blocks(header.linklen)
  /\ pc = "records" => extensions = "pax" /\ left <= RecordBlocks
  /\ pc = "body" => header.type = "0" /\ left <= header.size

\* A header is that of the file at hand, or a link to one that came before.
HeaderOf(h) ==
  /\ h.name = file.name /\ h.cut = file.cut /\ h.size = file.blocks
  /\ \/ h.type = file.type /\ h.link = file.dest /\ h.linklen = file.destlen
     \/ /\ h.type = "1" /\ IsHardlink
        /\ \E j \in 1..(k - 1) :
             /\ files[j].inode = file.inode /\ files[j].type = "0"
             /\ h.link = files[j].name /\ h.linklen = files[j].len
HeaderInv == pc \notin Between => HeaderOf(header)

\* Room not handed out is zero.
FreshInv == \A b \in (used + 1)..Factor : data[b] = Zero

\* A set of numbers has a least one.
LEMMA LeastNumber ==
  ASSUME NEW S \in SUBSET Nat, S # {}
  PROVE  \E x \in S : \A y \in S : x <= y
PROOF
<1>1. PICK x \in S : \A y \in S : ~(<<y, x>> \in OpToRel(<, Nat))
  BY NatLessThanWellFounded, WFMin
<1>2. \A y \in S : ~(y < x)
  BY <1>1 DEF OpToRel
<1>3. QED
  BY <1>2

-----------------------------------------------------------------------------
\* What the reader knows after each of the first n blocks.
Known(s, n, f) ==
  f = [i \in 0..n |-> IF i = 0 THEN Start ELSE ReadBlock(f[i - 1], s[i])]

LEMMA KnownSteps ==
  ASSUME NEW s, NEW n \in Nat, NEW f
  PROVE  Known(s, n, f) <=>
           /\ f = [i \in 0..n |-> f[i]] /\ f[0] = Start
           /\ \A i \in 1..n : f[i] = ReadBlock(f[i - 1], s[i])
PROOF
<1>1. ASSUME Known(s, n, f)
      PROVE  /\ f = [i \in 0..n |-> f[i]] /\ f[0] = Start
             /\ \A i \in 1..n : f[i] = ReadBlock(f[i - 1], s[i])
  <2>1. DOMAIN f = 0..n
    BY <1>1 DEF Known
  <2>2. \A i \in 0..n : f[i] = IF i = 0 THEN Start ELSE ReadBlock(f[i - 1], s[i])
    BY <1>1 DEF Known
  <2>3. f = [i \in 0..n |-> f[i]]
    BY <1>1, <2>1 DEF Known
  <2>4. QED
    BY <2>2, <2>3
<1>2. ASSUME f = [i \in 0..n |-> f[i]], f[0] = Start,
             \A i \in 1..n : f[i] = ReadBlock(f[i - 1], s[i])
      PROVE  Known(s, n, f)
  <2>1. \A i \in 0..n : f[i] = IF i = 0 THEN Start ELSE ReadBlock(f[i - 1], s[i])
    <3> TAKE i \in 0..n
    <3>1. CASE i = 0
      BY <3>1, <1>2
    <3>2. CASE i \in 1..n
      BY <3>2, <1>2
    <3>3. QED
      BY <3>1, <3>2
  <2>2. [i \in 0..n |-> f[i]]
          = [i \in 0..n |-> IF i = 0 THEN Start ELSE ReadBlock(f[i - 1], s[i])]
    BY <2>1
  <2>3. QED
    BY <1>2, <2>2 DEF Known
<1>3. QED
  BY <1>1, <1>2

LEMMA KnownExists ==
  ASSUME NEW s, NEW n \in Nat
  PROVE  \E f : Known(s, n, f)
PROOF
<1> DEFINE Bad == {m \in Nat : ~\E f : Known(s, m, f)}
<1>1. SUFFICES ASSUME Bad # {} PROVE FALSE
  OBVIOUS
<1>2. PICK m \in Bad : \A y \in Bad : m <= y
  BY <1>1, LeastNumber
<1>3. CASE m = 0
  <2> DEFINE g == [i \in 0..0 |-> Start]
  <2>1. g = [i \in 0..0 |-> IF i = 0 THEN Start ELSE ReadBlock(g[i - 1], s[i])]
    OBVIOUS
  <2>2. QED
    BY <1>2, <1>3, <2>1 DEF Known
<1>4. CASE m # 0
  <2>1. m - 1 \in Nat /\ m - 1 \notin Bad
    BY <1>2, <1>4
  <2>2. PICK f : Known(s, m - 1, f)
    BY <2>1
  <2> DEFINE g == [i \in 0..m |-> IF i < m THEN f[i] ELSE ReadBlock(f[m - 1], s[m])]
  <2>3. g = [i \in 0..m |-> g[i]]
    OBVIOUS
  <2>4. g[0] = Start
    <3>1. f[0] = Start
      BY <2>1, <2>2, KnownSteps
    <3>2. QED
      BY <3>1, <1>2, <1>4
  <2>5. \A i \in 1..m : g[i] = ReadBlock(g[i - 1], s[i])
    <3> TAKE i \in 1..m
    <3>1. CASE i < m
      <4>1. i \in 1..(m - 1) /\ i \in 0..m /\ i - 1 \in 0..m /\ i - 1 < m
        BY <3>1, <1>2
      <4>2. f[i] = ReadBlock(f[i - 1], s[i])
        BY <4>1, <2>1, <2>2, KnownSteps
      <4>3. QED
        BY <4>1, <4>2, <3>1
    <3>2. CASE i = m
      BY <3>2, <1>2, <1>4
    <3>3. QED
      BY <3>1, <3>2, <1>2
  <2>6. Known(s, m, g)
    <3> HIDE DEF g
    <3> QED BY <2>3, <2>4, <2>5, <1>2, KnownSteps
  <2>7. QED
    BY <1>2, <2>6
<1>5. QED
  BY <1>3, <1>4

\* It is the same of two streams as far as they are the same.
LEMMA KnownSame ==
  ASSUME NEW s, NEW t, NEW m \in Nat, NEW n \in Nat, NEW f, NEW g,
         Known(s, m, f), Known(t, n, g), m <= n,
         \A i \in 1..m : s[i] = t[i]
  PROVE  f[m] = g[m]
PROOF
<1> DEFINE Bad == {i \in 0..m : f[i] # g[i]}
<1>1. SUFFICES ASSUME Bad # {} PROVE FALSE
  OBVIOUS
<1>2. PICK i \in Bad : \A y \in Bad : i <= y
  <2>1. Bad \in SUBSET Nat
    OBVIOUS
  <2>2. QED
    BY <1>1, <2>1, LeastNumber
<1>3. i # 0
  BY <1>2, KnownSteps
<1>4. i - 1 \in 0..m /\ i - 1 \notin Bad
  BY <1>2, <1>3
<1>5. f[i] = ReadBlock(f[i - 1], s[i])
  <2>1. i \in 1..m
    BY <1>2, <1>3
  <2>2. QED
    BY <2>1, KnownSteps
<1>6. g[i] = ReadBlock(g[i - 1], t[i])
  <2>1. i \in 1..n
    BY <1>2, <1>3
  <2>2. QED
    BY <2>1, KnownSteps
<1>7. f[i - 1] = g[i - 1] /\ s[i] = t[i]
  BY <1>2, <1>3, <1>4
<1>8. QED
  BY <1>2, <1>5, <1>6, <1>7

LEMMA ReadingKnown ==
  ASSUME NEW s, Len(s) \in Nat
  PROVE  \E f : Known(s, Len(s), f) /\ Reading(s) = f[Len(s)]
PROOF
<1>1. \E f : f = [i \in 0..Len(s) |->
                    IF i = 0 THEN Start ELSE ReadBlock(f[i - 1], s[i])]
  BY KnownExists DEF Known
<1>2. QED
  BY <1>1 DEF Reading, Known

\* A reader goes through the stream block by block.
LEMMA ReadingEmpty == Reading(<<>>) = Start
PROOF
<1>1. Len(<<>>) = 0
  BY EmptySeq
<1>2. PICK f : Known(<<>>, 0, f) /\ Reading(<<>>) = f[0]
  BY <1>1, ReadingKnown
<1>3. QED
  BY <1>2, KnownSteps

LEMMA ReadingAppend ==
  ASSUME NEW S, NEW s \in Seq(S), NEW b \in S
  PROVE  Reading(Append(s, b)) = ReadBlock(Reading(s), b)
PROOF
<1> DEFINE t == Append(s, b)
<1>1. /\ Len(s) \in Nat /\ Len(t) = Len(s) + 1
      /\ t[Len(s) + 1] = b /\ \A i \in 1..Len(s) : t[i] = s[i]
  BY AppendProperties, LenProperties
<1> HIDE DEF t
<1>2. PICK f : Known(s, Len(s), f) /\ Reading(s) = f[Len(s)]
  BY <1>1, ReadingKnown
<1>3. PICK g : Known(t, Len(t), g) /\ Reading(t) = g[Len(t)]
  BY <1>1, ReadingKnown
<1>4. f[Len(s)] = g[Len(s)]
  BY <1>1, <1>2, <1>3, KnownSame
<1>5. g[Len(s) + 1] = ReadBlock(g[Len(s)], b)
  <2>1. Len(s) + 1 \in 1..Len(t) /\ (Len(s) + 1) - 1 = Len(s)
    BY <1>1
  <2>2. Len(t) \in Nat /\ Known(t, Len(t), g)
    BY <1>1, <1>3
  <2>3. \A i \in 1..Len(t) : g[i] = ReadBlock(g[i - 1], t[i])
    BY <2>2, KnownSteps
  <2>4. g[Len(s) + 1] = ReadBlock(g[(Len(s) + 1) - 1], t[Len(s) + 1])
    BY <2>1, <2>3
  <2>5. QED
    BY <1>1, <2>1, <2>4
<1>6. QED
  BY <1>1, <1>2, <1>3, <1>4, <1>5 DEF t

-----------------------------------------------------------------------------
\* What each use of the record adds to what has been put into the archive.
Parts(d, u, s, t) ==
  /\ d \in Seq(BlockSet) /\ Len(d) = Factor /\ Len(s) \in Nat /\ u \in Nat
  /\ t \in Seq(BlockSet) /\ Len(t) = Len(s) + u
  /\ \A i \in 1..Len(s) : t[i] = s[i]
  /\ \A i \in 1..u : t[Len(s) + i] = d[i]

LEMMA TakenParts ==
  ASSUME NEW d \in [1..Factor -> BlockSet], NEW u \in 0..Factor,
         NEW s \in Seq(BlockSet), NEW t, t = s \o SubSeq(d, 1, u)
  PROVE  Parts(d, u, s, t)
PROOF
<1>1. d \in Seq(BlockSet) /\ Len(d) = Factor
  BY MemberWriterAssumption
<1>2. \A i \in 1..u : d[i] \in BlockSet
  BY MemberWriterAssumption
<1> DEFINE part == SubSeq(d, 1, u)
<1>3. /\ part \in Seq(BlockSet) /\ Len(part) = u
      /\ \A i \in 1..u : part[i] = d[i]
  BY <1>2, SubSeqProperties
<1>4. Len(s) \in Nat /\ u \in Nat
  BY LenProperties
<1> HIDE DEF part
<1>5. /\ s \o part \in Seq(BlockSet) /\ Len(s \o part) = Len(s) + u
      /\ \A i \in 1..(Len(s) + u) :
           (s \o part)[i] = IF i <= Len(s) THEN s[i] ELSE part[i - Len(s)]
  BY <1>3, <1>4, ConcatProperties
<1>6. t = s \o part
  BY DEF part
<1>7. \A i \in 1..u : t[Len(s) + i] = d[i]
  BY <1>3, <1>4, <1>5, <1>6
<1>8. \A i \in 1..Len(s) : t[i] = s[i]
  BY <1>4, <1>5, <1>6
<1>9. QED
  BY <1>1, <1>4, <1>5, <1>6, <1>7, <1>8 DEF Parts

LEMMA TakenSeq ==
  ASSUME RecordOK
  PROVE  /\ Len(flushed) \in Nat /\ used \in Nat
         /\ Taken \in Seq(BlockSet) /\ Len(Taken) = Len(flushed) + used
         /\ \A i \in 1..Len(flushed) : Taken[i] = flushed[i]
         /\ \A i \in 1..used : Taken[Len(flushed) + i] = data[i]
PROOF
<1>1. Taken = flushed \o SubSeq(data, 1, used)
  BY DEF Taken
<1>2. data \in [1..Factor -> BlockSet] /\ used \in 0..Factor /\ flushed \in Seq(BlockSet)
  BY DEF RecordOK
<1>3. Parts(data, used, flushed, Taken)
  BY <1>1, <1>2, TakenParts
<1>4. QED
  BY <1>3 DEF Parts

LEMMA TakenSeqNext ==
  ASSUME RecordOK'
  PROVE  /\ Len(flushed') \in Nat /\ used' \in Nat
         /\ Taken' \in Seq(BlockSet) /\ Len(Taken') = Len(flushed') + used'
         /\ \A i \in 1..Len(flushed') : Taken'[i] = flushed'[i]
         /\ \A i \in 1..used' : Taken'[Len(flushed') + i] = data'[i]
PROOF
<1>1. Taken' = flushed' \o SubSeq(data', 1, used')
  BY DEF Taken
<1>2. data' \in [1..Factor -> BlockSet] /\ used' \in 0..Factor /\ flushed' \in Seq(BlockSet)
  BY DEF RecordOK
<1>3. Parts(data', used', flushed', Taken')
  BY <1>1, <1>2, TakenParts
<1>4. QED
  BY <1>3 DEF Parts

LEMMA TakeBlock ==
  ASSUME RecordOK, NEW b \in BlockSet, used < Factor, used' = used + 1,
         data' = [data EXCEPT ![used + 1] = b], UNCHANGED flushed
  PROVE  RecordOK' /\ Taken' = Append(Taken, b) /\ (FreshInv => FreshInv')
PROOF
<1>1. RecordOK'
  BY MemberWriterAssumption DEF RecordOK
<1>2. /\ Taken' \in Seq(BlockSet) /\ Len(Taken') = Len(flushed) + (used + 1)
      /\ \A i \in 1..Len(flushed) : Taken'[i] = flushed[i]
      /\ \A i \in 1..(used + 1) : Taken'[Len(flushed) + i] = data'[i]
  BY <1>1, TakenSeqNext
<1> DEFINE a == Append(Taken, b)
<1>3. Len(flushed) \in Nat /\ used \in Nat
  BY LenProperties DEF RecordOK
<1>4. /\ Taken \in Seq(BlockSet) /\ Len(Taken) = Len(flushed) + used
      /\ \A i \in 1..Len(flushed) : Taken[i] = flushed[i]
      /\ \A i \in 1..used : Taken[Len(flushed) + i] = data[i]
  BY TakenSeq
<1>5. /\ a \in Seq(BlockSet) /\ Len(a) = Len(Taken) + 1
      /\ \A i \in 1..Len(Taken) : a[i] = Taken[i]
      /\ a[Len(Taken) + 1] = b
  BY <1>4, AppendProperties
<1> HIDE DEF a
<1>6. ASSUME NEW i \in 1..Len(Taken') PROVE Taken'[i] = a[i]
  <2>1. CASE i \in 1..Len(flushed)
    BY <2>1, <1>2, <1>3, <1>4, <1>5
  <2>2. CASE i \in (Len(flushed) + 1)..(Len(flushed) + used)
    <3>1. i - Len(flushed) \in 1..used /\ Len(flushed) + (i - Len(flushed)) = i
      BY <2>2, <1>3
    <3>2. data'[i - Len(flushed)] = data[i - Len(flushed)]
      BY <3>1, <1>3 DEF RecordOK
    <3>3. Taken'[i] = data'[i - Len(flushed)]
      <4>1. i - Len(flushed) \in 1..(used + 1)
        BY <3>1, <1>3
      <4>2. Taken'[Len(flushed) + (i - Len(flushed))] = data'[i - Len(flushed)]
        BY <4>1, <1>2
      <4>3. QED
        BY <4>2, <3>1
    <3>4. Taken[i] = data[i - Len(flushed)]
      BY <3>1, <1>4
    <3>5. a[i] = Taken[i]
      BY <2>2, <1>3, <1>4, <1>5, SMTT(30)
    <3>6. QED
      BY <3>2, <3>3, <3>4, <3>5
  <2>3. CASE i = Len(flushed) + used + 1
    <3>1. data'[used + 1] = b
      <4>1. used + 1 \in 1..Factor
        BY <1>3, MemberWriterAssumption DEF RecordOK
      <4>2. QED
        BY <4>1 DEF RecordOK
    <3>2. Taken'[i] = data'[used + 1]
      BY <2>3, <1>2, <1>3
    <3>3. QED
      BY <3>1, <3>2, <2>3, <1>3, <1>4, <1>5
  <2>4. i \in Nat /\ 1 <= i /\ i <= Len(flushed) + (used + 1)
    BY <1>2, <1>3
  <2>5. QED
    BY <2>1, <2>2, <2>3, <2>4, <1>3
<1>7. Taken' = a
  <2>1. Len(Taken') = Len(a)
    BY <1>2, <1>3, <1>4, <1>5
  <2>2. QED
    BY <2>1, <1>2, <1>5, <1>6, SeqEqual
<1>8. FreshInv => FreshInv'
  BY <1>3 DEF FreshInv, RecordOK
<1>9. QED
  BY <1>1, <1>7, <1>8 DEF a

\* More blocks follow those of s.
Extends(s, t) ==
  /\ s \in Seq(BlockSet) /\ t \in Seq(BlockSet)
  /\ Len(s) \in Nat /\ Len(t) \in Nat /\ Len(s) <= Len(t)
  /\ \A i \in 1..Len(s) : t[i] = s[i]

LEMMA TakeBlocks ==
  ASSUME RecordOK, NEW n \in 0..(Factor - used), used' = used + n,
         data' \in [1..Factor -> BlockSet], UNCHANGED flushed,
         \A b \in 1..Factor : b \notin (used + 1)..(used + n) => data'[b] = data[b]
  PROVE  /\ RecordOK' /\ Extends(Taken, Taken') /\ Len(Taken') = Len(Taken) + n
         /\ \A i \in 1..n : Taken'[Len(Taken) + i] = data'[used + i]
         /\ FreshInv => FreshInv'
PROOF
<1>1. used \in 0..Factor /\ used + n \in 0..Factor
  BY MemberWriterAssumption DEF RecordOK
<1>2. RecordOK'
  BY <1>1 DEF RecordOK
<1>3. /\ Len(flushed) \in Nat /\ used \in Nat
      /\ Taken \in Seq(BlockSet) /\ Len(Taken) = Len(flushed) + used
      /\ \A i \in 1..Len(flushed) : Taken[i] = flushed[i]
      /\ \A i \in 1..used : Taken[Len(flushed) + i] = data[i]
  BY TakenSeq
<1>4. /\ Taken' \in Seq(BlockSet) /\ Len(Taken') = Len(flushed) + (used + n)
      /\ \A i \in 1..Len(flushed) : Taken'[i] = flushed[i]
      /\ \A i \in 1..(used + n) : Taken'[Len(flushed) + i] = data'[i]
  BY <1>2, TakenSeqNext
<1>5. Len(Taken') = Len(Taken) + n
  BY <1>1, <1>3, <1>4
<1>6. ASSUME NEW i \in 1..n PROVE Taken'[Len(Taken) + i] = data'[used + i]
  <2>1. used + i \in 1..(used + n) /\ Len(Taken) + i = Len(flushed) + (used + i)
    BY <1>1, <1>3
  <2>2. QED
    BY <2>1, <1>4
<1>7. ASSUME NEW i \in 1..Len(Taken) PROVE Taken'[i] = Taken[i]
  <2>1. CASE i \in 1..Len(flushed)
    BY <2>1, <1>3, <1>4
  <2>2. CASE i \in (Len(flushed) + 1)..(Len(flushed) + used)
    <3> DEFINE j == i - Len(flushed)
    <3>1. /\ j \in 1..used /\ j \in 1..(used + n) /\ Len(flushed) + j = i
          /\ j \in 1..Factor /\ j \notin (used + 1)..(used + n)
      BY <2>2, <1>1, <1>3, MemberWriterAssumption
    <3> HIDE DEF j
    <3>2. data'[j] = data[j]
      BY <3>1
    <3>3. Taken'[Len(flushed) + j] = data'[j] /\ Taken[Len(flushed) + j] = data[j]
      BY <3>1, <1>3, <1>4
    <3>4. QED
      BY <3>1, <3>2, <3>3
  <2>3. QED
    BY <2>1, <2>2, <1>3
<1>8. Extends(Taken, Taken')
  BY <1>1, <1>3, <1>4, <1>5, <1>7 DEF Extends
<1>9. FreshInv => FreshInv'
  <2>1. SUFFICES ASSUME FreshInv, NEW b \in (used + n + 1)..Factor
                 PROVE  data'[b] = Zero
    BY DEF FreshInv
  <2>2. /\ b \in 1..Factor /\ b \notin (used + 1)..(used + n)
        /\ b \in (used + 1)..Factor
    BY <1>1, MemberWriterAssumption
  <2>3. QED
    BY <2>1, <2>2 DEF FreshInv
<1>10. QED
  BY <1>2, <1>5, <1>6, <1>8, <1>9

LEMMA WroteOut ==
  ASSUME RecordOK, WriteOut
  PROVE  /\ RecordOK' /\ FreshInv' /\ Extends(Taken, Taken')
         /\ Len(flushed') = Len(flushed) + Factor /\ used' = 0
         /\ used = Factor => Taken' = Taken
         /\ FreshInv => \A i \in (Len(Taken) + 1)..Len(Taken') : Taken'[i] = Zero
PROOF
<1>1. /\ Len(flushed) \in Nat /\ used \in Nat /\ used \in 0..Factor
      /\ Taken \in Seq(BlockSet) /\ Len(Taken) = Len(flushed) + used
      /\ \A i \in 1..Len(flushed) : Taken[i] = flushed[i]
      /\ \A i \in 1..used : Taken[Len(flushed) + i] = data[i]
  BY TakenSeq DEF RecordOK
<1>2. /\ data \in Seq(BlockSet) /\ Len(data) = Factor /\ flushed \in Seq(BlockSet)
      /\ Factor \in Nat \ {0}
  BY MemberWriterAssumption DEF RecordOK
<1>3. /\ flushed' \in Seq(BlockSet) /\ Len(flushed') = Len(flushed) + Factor
      /\ \A i \in 1..(Len(flushed) + Factor) :
           flushed'[i] = IF i <= Len(flushed) THEN flushed[i] ELSE data[i - Len(flushed)]
  <2>1. flushed' = flushed \o data
    BY DEF WriteOut
  <2>2. /\ flushed \o data \in Seq(BlockSet)
        /\ Len(flushed \o data) = Len(flushed) + Factor
        /\ \A i \in 1..(Len(flushed) + Factor) :
             (flushed \o data)[i] =
               IF i <= Len(flushed) THEN flushed[i] ELSE data[i - Len(flushed)]
    BY <1>2, ConcatProperties
  <2>3. QED
    BY <2>1, <2>2
<1>4. RecordOK' /\ used' = 0
  <2>1. Blank \in [1..Factor -> BlockSet]
    BY DEF Blank, BlockSet
  <2>2. QED
    BY <1>2, <1>3, <2>1 DEF WriteOut, RecordOK
<1>5. FreshInv'
  BY <1>2 DEF WriteOut, Blank, FreshInv
<1>6. /\ Taken' \in Seq(BlockSet) /\ Len(Taken') = Len(flushed) + Factor
      /\ \A i \in 1..(Len(flushed) + Factor) : Taken'[i] = flushed'[i]
  <2>1. /\ Taken' \in Seq(BlockSet) /\ Len(Taken') = Len(flushed') + used'
        /\ \A i \in 1..Len(flushed') : Taken'[i] = flushed'[i]
    BY <1>4, TakenSeqNext
  <2>2. Len(flushed') + used' = Len(flushed) + Factor
    BY <1>1, <1>2, <1>3, <1>4
  <2>3. \A i \in 1..(Len(flushed) + Factor) : Taken'[i] = flushed'[i]
    BY <2>1, <1>3
  <2>4. QED
    BY <2>1, <2>2, <2>3
<1>7. ASSUME NEW i \in 1..Len(Taken) PROVE Taken'[i] = Taken[i]
  <2>1. CASE i \in 1..Len(flushed)
    <3>1. i \in 1..(Len(flushed) + Factor) /\ i <= Len(flushed)
      BY <2>1, <1>1, <1>2
    <3>2. QED
      BY <3>1, <2>1, <1>1, <1>3, <1>6
  <2>2. CASE i \in (Len(flushed) + 1)..(Len(flushed) + used)
    <3> DEFINE j == i - Len(flushed)
    <3>1. j \in 1..used /\ Len(flushed) + j = i /\ i \in 1..(Len(flushed) + Factor)
          /\ ~(i <= Len(flushed))
      BY <2>2, <1>1, <1>2
    <3>2. Taken'[i] = data[j]
      BY <3>1, <1>3, <1>6
    <3> HIDE DEF j
    <3>3. Taken[Len(flushed) + j] = data[j]
      BY <3>1, <1>1
    <3>4. QED
      BY <3>1, <3>2, <3>3
  <2>3. QED
    BY <2>1, <2>2, <1>1
<1>8. Extends(Taken, Taken')
  <2>1. Len(Taken) \in Nat /\ Len(Taken') \in Nat /\ Len(Taken) <= Len(Taken')
    BY <1>1, <1>2, <1>6
  <2>2. QED
    BY <2>1, <1>1, <1>6, <1>7 DEF Extends
<1>9. used = Factor => Taken' = Taken
  <2>1. SUFFICES ASSUME used = Factor PROVE Taken' = Taken
    OBVIOUS
  <2>2. Len(Taken) = Len(Taken') /\ \A i \in 1..Len(Taken) : Taken[i] = Taken'[i]
    BY <2>1, <1>1, <1>6, <1>7
  <2>3. QED
    BY <2>2, <1>1, <1>6, SeqEqual
<1>10. FreshInv => \A i \in (Len(Taken) + 1)..Len(Taken') : Taken'[i] = Zero
  <2>1. SUFFICES ASSUME FreshInv, NEW i \in (Len(Taken) + 1)..Len(Taken')
                 PROVE  Taken'[i] = Zero
    OBVIOUS
  <2>2. /\ i \in 1..(Len(flushed) + Factor) /\ ~(i <= Len(flushed))
        /\ i - Len(flushed) \in (used + 1)..Factor
    BY <1>1, <1>2, <1>6
  <2>3. Taken'[i] = data[i - Len(flushed)]
    BY <2>2, <1>3, <1>6
  <2>4. QED
    BY <2>1, <2>2, <2>3 DEF FreshInv
<1>11. QED
  BY <1>3, <1>4, <1>5, <1>8, <1>9, <1>10

-----------------------------------------------------------------------------
\* Lengths in blocks.
LEMMA BlocksOf ==
  ASSUME NEW n \in Nat
  PROVE  Blocks(n) \in Nat /\ (n > 0 => Blocks(n) > 0)
PROOF
<1>1. /\ padded_size(n) \in Nat /\ n <= padded_size(n)
      /\ padded_size(n) % 512 = 0
  BY DEF padded_size, BLOCK
<1> DEFINE p == padded_size(n)
<1> HIDE DEF p
<1>2. p \in Nat /\ n <= p /\ p % 512 = 0
  BY <1>1 DEF p
<1>3. p \div 512 \in Nat /\ (p > 0 => p \div 512 > 0)
  BY <1>2
<1>4. Blocks(n) = p \div 512
  BY DEF Blocks, BLOCK, p
<1>5. QED
  BY <1>2, <1>3, <1>4

LEMMA DigitsOf ==
  ASSUME NEW n \in Nat
  PROVE  Digits(n) \in Nat /\ Digits(n) > 0
PROOF
<1> DEFINE S == {p \in {10, 100, 1000, 10000} : p <= n}
<1>1. IsFiniteSet({10, 100, 1000, 10000})
  <2>1. IsFiniteSet({}) /\ IsFiniteSet({} \cup {10})
    BY FS_EmptySet, FS_AddElement
  <2>2. IsFiniteSet(({} \cup {10}) \cup {100})
    BY <2>1, FS_AddElement
  <2>3. IsFiniteSet((({} \cup {10}) \cup {100}) \cup {1000})
    BY <2>2, FS_AddElement
  <2>4. IsFiniteSet(((({} \cup {10}) \cup {100}) \cup {1000}) \cup {10000})
    BY <2>3, FS_AddElement
  <2>5. {10, 100, 1000, 10000} = ((({} \cup {10}) \cup {100}) \cup {1000}) \cup {10000}
    OBVIOUS
  <2>6. QED
    BY <2>4, <2>5
<1>2. S \subseteq {10, 100, 1000, 10000}
  OBVIOUS
<1>3. IsFiniteSet(S)
  BY <1>1, <1>2, FS_Subset
<1>4. Cardinality(S) \in Nat
  BY <1>3, FS_CardinalityType
<1>5. Digits(n) = 1 + Cardinality(S)
  BY DEF Digits
<1> HIDE DEF S
<1>6. QED
  BY <1>4, <1>5

LEMMA PaxLengthOf ==
  ASSUME NEW len \in Nat, NEW key \in Nat
  PROVE  compute_pax_length(len, key) \in Nat /\ compute_pax_length(len, key) > 0
PROOF
<1> DEFINE rest == 3 + key + len
           Once(n) == rest + Digits(n)
<1>1. rest \in Nat
  OBVIOUS
<1>2. ASSUME NEW n \in Nat PROVE Once(n) \in Nat /\ Once(n) > 0
  BY <1>1, DigitsOf
<1>3. compute_pax_length(len, key) = Once(Once(Once(len)))
  BY DEF compute_pax_length
<1> HIDE DEF Once
<1>4. QED
  BY <1>2, <1>3

-----------------------------------------------------------------------------
\* The file at hand, and what is written of it.
LEMMA FileFacts ==
  ASSUME TypeOK, NEW j \in DOMAIN files
  PROVE  /\ files[j] \in Inputs[extensions] /\ IsFile(files[j])
         /\ files[j].name \in Strings \ {None} /\ files[j].dest \in Strings
         /\ files[j].inode \in DOMAIN cache
         /\ \A g \in Inputs[extensions] : g.name = files[j].name => g = files[j]
PROOF
<1>1. files[j] \in Inputs[extensions] /\ extensions \in Formats
  BY ElementOfSeq, LenProperties DEF TypeOK
<1>2. files[j] \in Inputted
  BY <1>1 DEF Inputted
<1>3. files[j] \in ToSet(files)
  BY DEF ToSet
<1>4. QED
  BY <1>1, <1>2, <1>3, MemberWriterAssumption DEF Strings, TypeOK, IsFile

LEMMA HeaderBuilt ==
  ASSUME TypeOK, CacheInv, pc = "begin"
  PROVE  header_for_file \in Headers /\ HeaderOf(header_for_file)
PROOF
<1> DEFINE first == CHOOSE f \in ToSet(files) : f.name = cache[file.inode]
<1>1. k \in DOMAIN files /\ k \in Nat
  BY DEF TypeOK
<1>2. /\ IsFile(file) /\ file.name \in Strings /\ file.dest \in Strings
      /\ file.inode \in DOMAIN cache
  BY <1>1, FileFacts DEF file
<1>3. CASE ~Linked
  <2>1. header_for_file = [name |-> file.name, cut |-> file.cut, size |-> file.blocks,
                           type |-> file.type, link |-> file.dest,
                           linklen |-> file.destlen]
    BY <1>3 DEF header_for_file
  <2>2. QED
    BY <2>1, <1>2 DEF Headers, HeaderOf, IsFile
<1>4. CASE Linked
  <2>1. PICK j \in DOMAIN files :
               /\ files[j].name = cache[file.inode] /\ files[j].inode = file.inode
               /\ files[j].type = "0" /\ j < k
    BY <1>2, <1>4 DEF TypeOK, CacheInv, Linked
  <2>2. first \in ToSet(files) /\ first.name = cache[file.inode]
    BY <2>1 DEF ToSet
  <2>3. PICK i \in DOMAIN files : first = files[i]
    BY <2>2 DEF ToSet
  <2>4. first = files[j]
    BY <2>1, <2>2, <2>3, FileFacts
  <2>5. header_for_file = [name |-> file.name, cut |-> file.cut, size |-> file.blocks,
                           type |-> "1", link |-> files[j].name,
                           linklen |-> files[j].len]
    BY <1>4, <2>4 DEF header_for_file
  <2>6. files[j].name \in Strings /\ files[j].len \in Nat
    BY FileFacts DEF IsFile
  <2>7. j \in 1..(k - 1)
    BY <1>1, <2>1, LenProperties DEF TypeOK
  <2>8. QED
    BY <1>2, <1>4, <2>1, <2>5, <2>6, <2>7 DEF Headers, HeaderOf, IsFile, Linked
<1>5. QED
  BY <1>3, <1>4

LEMMA LengthsOf ==
  ASSUME TypeOK, k \in DOMAIN files, header \in Headers
  PROVE  /\ Blocks(long_len) \in Nat \ {0} /\ RecordBlocks \in Nat \ {0}
         /\ Blocks(header.linklen) \in Nat
         /\ header.linklen > 0 => Blocks(header.linklen) > 0
PROOF
<1>1. IsFile(file)
  BY FileFacts DEF file
<1>2. long_len \in Nat /\ long_len > 0
  BY <1>1 DEF long_len, IsFile
<1>3. header.linklen \in Nat
  BY DEF Headers
<1>4. /\ Blocks(long_len) \in Nat \ {0} /\ Blocks(header.linklen) \in Nat
      /\ header.linklen > 0 => Blocks(header.linklen) > 0
  BY <1>2, <1>3, BlocksOf
<1> DEFINE n == compute_pax_length(long_len, 4)
           m == IF header.link = None THEN 0 ELSE compute_pax_length(header.linklen, 8)
<1>5. n \in Nat /\ n > 0 /\ m \in Nat
  BY <1>2, <1>3, PaxLengthOf
<1>6. RecordBlocks = Blocks(n + m)
  BY DEF RecordBlocks
<1> HIDE DEF n, m
<1>7. RecordBlocks \in Nat \ {0}
  BY <1>5, <1>6, BlocksOf
<1>8. QED
  BY <1>4, <1>7

-----------------------------------------------------------------------------
\* write_file() returns to the walk, which goes on with the next file or ends.
LEMMA Returned ==
  ASSUME TypeOK, k \in DOMAIN files, NEW e \in {"ok", "warn", "fatal"}, Return(e),
         UNCHANGED files
  PROVE  /\ k' = k + 1 /\ k' \in 1..(Len(files) + 1) /\ err' = e
         /\ pc' \in {"begin", "finish"} /\ (pc' = "begin" => k' \in DOMAIN files)
         /\ died' \in BOOLEAN
PROOF
<1>1. k \in 1..Len(files) /\ Len(files) \in Nat /\ DOMAIN files = 1..Len(files)
  BY LenProperties DEF TypeOK
<1>2. k' = k + 1 /\ err' = e /\ pc' \in {"begin", "finish"} /\ died' \in BOOLEAN
  BY DEF Return, TypeOK
<1>3. pc' = "begin" => k # Len(files)
  BY DEF Return
<1>4. QED
  BY <1>1, <1>2, <1>3

LEMMA FailedType ==
  ASSUME TypeOK, pc \notin {"finish", "finished"},
         NEW e \in {"ok", "warn", "fatal"}, Return(e),
         UNCHANGED <<input, header, block, wrlen, left, total, archived>>,
         cache' \in [{f.inode : f \in ToSet(files)} -> Strings]
  PROVE  TypeOK'
PROOF
<1>1. k \in DOMAIN files
  BY DEF TypeOK
<1>2. /\ k' \in 1..(Len(files) + 1) /\ err' \in {"ok", "warn", "fatal"}
      /\ pc' \in {"begin", "finish"} /\ (pc' = "begin" => k' \in DOMAIN files)
      /\ died' \in BOOLEAN
  BY <1>1, Returned DEF input
<1>3. QED
  BY <1>2 DEF TypeOK, Between, input

\* The name of a regular file goes into the cache before anything is written.
LEMMA BegunCache ==
  ASSUME TypeOK, CacheInv, Begin, pc' # "begin" \/ k' = k + 1, k' \in {k, k + 1}
  PROVE  /\ cache' \in [{f.inode : f \in ToSet(files)} -> Strings]
         /\ CacheInv'
PROOF
<1>1. k \in DOMAIN files /\ k \in Nat
  BY DEF TypeOK, Begin
<1>2. /\ file.name \in Strings /\ file.inode \in DOMAIN cache
      /\ files' = files /\ cache \in [{f.inode : f \in ToSet(files)} -> Strings]
  BY <1>1, FileFacts DEF file, Begin, input, TypeOK
<1>3. cache' = cache \/ cache' = [cache EXCEPT ![file.inode] = file.name]
  BY DEF Begin
<1>4. cache' = cache \/ file.type = "0"
  BY DEF Begin, IsHardlink
<1>5. cache' \in [{f.inode : f \in ToSet(files)} -> Strings]
  BY <1>2, <1>3
<1>6. ASSUME NEW i \in DOMAIN cache', cache'[i] # None
      PROVE  \E j \in DOMAIN files :
               /\ files[j].name = cache'[i] /\ files[j].inode = i
               /\ files[j].type = "0" /\ j <= k' /\ (pc' = "begin" => j < k')
  <2>1. CASE cache'[i] = cache[i]
    <3>1. i \in DOMAIN cache
      BY <1>2, <1>5
    <3>2. PICK j \in DOMAIN files :
             /\ files[j].name = cache[i] /\ files[j].inode = i
             /\ files[j].type = "0" /\ j <= k
      BY <1>6, <2>1, <3>1 DEF CacheInv
    <3>3. j \in Nat
      BY LenProperties DEF TypeOK
    <3>4. QED
      BY <1>1, <2>1, <3>2, <3>3
  <2>2. CASE cache'[i] # cache[i]
    <3>1. i = file.inode /\ cache'[i] = file.name /\ file.type = "0"
      BY <1>2, <1>3, <1>4, <1>5, <2>2
    <3>2. QED
      BY <1>1, <3>1 DEF file
  <2>3. QED
    BY <2>1, <2>2
<1>7. QED
  BY <1>2, <1>5, <1>6 DEF CacheInv

LEMMA SameCache ==
  ASSUME TypeOK, CacheInv, UNCHANGED <<files, cache>>,
         (k' = k /\ (pc' = "begin" => pc = "begin")) \/ k' = k + 1
  PROVE  CacheInv'
PROOF
<1>1. k \in Nat /\ \A j \in DOMAIN files : j \in Nat
  BY LenProperties DEF TypeOK
<1>2. QED
  BY <1>1 DEF CacheInv

LEMMA ExtensionCases ==
  ASSUME TypeOK, WhereInv, TakeExtension
  PROVE  \/ /\ extensions = "pax" /\ pc' = "records" /\ left' = RecordBlocks
            /\ data' = [data EXCEPT ![used + 1] = Extension("x", RecordBlocks)]
            /\ total' = total + 1
         \/ /\ extensions = "gnu" /\ header.cut
            /\ pc' = "long_name" /\ left' = Blocks(long_len)
            /\ data' = [data EXCEPT ![used + 1] = Extension("L", Blocks(long_len))]
            /\ total' = total + 1
         \/ /\ extensions = "gnu" /\ ~header.cut /\ truncated_link
            /\ pc' = "long_link" /\ left' = Blocks(header.linklen)
            /\ data' = [data EXCEPT ![used + 1] =
                          Extension("K", Blocks(header.linklen))]
            /\ total' = total + 1
PROOF
<1>1. /\ pc = "extension" /\ extensions # "none" /\ (header.cut \/ truncated_link)
      /\ extensions \in {"none", "gnu", "pax"}
  BY MemberWriterAssumption DEF TakeExtension, WhereInv, TypeOK
<1>2. CASE extensions = "pax"
  BY <1>2 DEF TakeExtension, Encode
<1>3. CASE extensions = "gnu" /\ header.cut
  BY <1>3 DEF TakeExtension, Encode
<1>4. CASE extensions = "gnu" /\ ~header.cut
  BY <1>1, <1>4 DEF TakeExtension, Encode
<1>5. QED
  BY <1>1, <1>2, <1>3, <1>4

LEMMA CacheStep ==
  ASSUME TypeOK, WhereInv, CacheInv, [Next]_vars
  PROVE  CacheInv'
PROOF
<1>1. CASE Proceed
  <2>1. pc' # "begin" /\ k' = k
    BY <1>1 DEF Proceed
  <2>2. QED
    BY <1>1, <2>1, BegunCache DEF Proceed, TypeOK
<1>2. CASE NameTooLong
  BY <1>2, BegunCache DEF NameTooLong, Return, TypeOK
<1>3. CASE UserLookupFails
  BY <1>3, BegunCache DEF UserLookupFails, Return, TypeOK
<1>4. ASSUME ~Proceed, ~NameTooLong, ~UserLookupFails PROVE CacheInv'
  <2>1. UNCHANGED <<files, cache>>
    BY <1>4 DEF Next, Step, Fault, Terminated, vars, ReadlinkFails, FlushForRoom,
      FlushForRoomFails, TakeExtension, TakeLongName, TakeLongLink, TakeRecords,
      LongNameDone, TextDone, TakeHeader, FlushInBody, TakeBody, BodyDone,
      BodyFlushFails, ReadFails, Finish, FinishFlushFails, member, input, verdict
  <2>2. (k' = k /\ (pc' = "begin" => pc = "begin")) \/ k' = k + 1
    <3>1. ASSUME ReadlinkFails \/ FlushForRoomFails \/ BodyFlushFails \/ ReadFails
                 \/ BodyDone
          PROVE  k' = k + 1
      BY <3>1 DEF ReadlinkFails, FlushForRoomFails, BodyFlushFails, ReadFails,
        BodyDone, Success, Return
    <3>2. ASSUME TakeHeader PROVE k' = k + 1 \/ (k' = k /\ pc' = "body")
      BY <3>2 DEF TakeHeader, Success, Return
    <3>3. ASSUME FlushForRoom \/ TakeLongName \/ TakeLongLink \/ TakeRecords
                 \/ FlushInBody \/ TakeBody
          PROVE  k' = k /\ pc' = pc
      BY <3>3 DEF FlushForRoom, TakeLongName, TakeLongLink, TakeRecords,
        FlushInBody, TakeBody, member
    <3>4. ASSUME TakeExtension \/ LongNameDone \/ TextDone
          PROVE  k' = k /\ pc' # "begin"
      <4>1. CASE TakeExtension
        BY <4>1, ExtensionCases DEF TakeExtension
      <4>2. CASE LongNameDone \/ TextDone
        BY <4>2 DEF LongNameDone, TextDone, Encode
      <4>3. QED
        BY <3>4, <4>1, <4>2
    <3>5. ASSUME Finish \/ FinishFlushFails PROVE k' = k /\ pc' # "begin"
      BY <3>5 DEF Finish, FinishFlushFails, member
    <3>6. QED
      BY <1>4, <3>1, <3>2, <3>3, <3>4, <3>5 DEF Next, Step, Fault, Terminated, vars
  <2>3. QED
    BY <2>1, <2>2, SameCache
<1>5. QED
  BY <1>1, <1>2, <1>3, <1>4

-----------------------------------------------------------------------------
\* The blocks that are written are blocks.
LEMMA BlocksInSet ==
  /\ \A n, l \in Strings : \A t \in {"0", "1", "2", "5"} : \A m \in Nat :
       Header(n, t, l, m) \in BlockSet
  /\ \A t \in {"L", "K", "x"} : \A m \in Nat : Extension(t, m) \in BlockSet
  /\ \A of \in Strings \cup Strings \X Strings : \A i \in Nat : Text(of, i) \in BlockSet
  /\ \A of \in Strings : \A i \in Nat : Data(of, i) \in BlockSet
  /\ Zero \in BlockSet
BY DEF BlockSet

LEMMA HeaderBlockInSet ==
  ASSUME header \in Headers
  PROVE  HeaderBlock \in BlockSet
PROOF
<1>1. /\ header.name \in Strings /\ header.link \in Strings
      /\ header.type \in {"0", "1", "2", "5"} /\ header.size \in Nat
  BY DEF Headers
<1>2. \A s \in Strings : \A c : Fitting(s, c) \in Strings
  BY DEF Fitting, Strings
<1>3. QED
  BY <1>1, <1>2, BlocksInSet DEF HeaderBlock

LEMMA TookBlock ==
  ASSUME RecordOK, NEW b \in BlockSet, Take(b)
  PROVE  RecordOK' /\ Taken' = Append(Taken, b) /\ (FreshInv => FreshInv')
BY TakeBlock DEF Take, output

\* The next block of a long name, and of a body.
LEMMA TookText ==
  ASSUME RecordOK, left \in Nat, NEW of \in Strings \cup Strings \X Strings,
         NEW n \in Nat, left <= n, TakeText(of, n)
  PROVE  /\ RecordOK' /\ (FreshInv => FreshInv')
         /\ Taken' = Append(Taken, Text(of, n - left + 1))
         /\ Text(of, n - left + 1) \in BlockSet /\ left > 0 /\ left' = left - 1
PROOF
<1>1. n - left + 1 \in Nat /\ left > 0 /\ left' = left - 1
  BY DEF TakeText
<1>2. Text(of, n - left + 1) \in BlockSet
  BY <1>1, BlocksInSet
<1>3. Take(Text(of, n - left + 1))
  BY DEF TakeText
<1>4. QED
  BY <1>1, <1>2, <1>3, TookBlock

LEMMA TookBody ==
  ASSUME TypeOK, RecordOK, WhereInv, TakeBody,
         NEW n, n = Smaller(left, Factor - used)
  PROVE  /\ RecordOK' /\ (FreshInv => FreshInv') /\ Extends(Taken, Taken')
         /\ n \in Nat \ {0} /\ n <= left /\ left' = left - n /\ left <= header.size
         /\ used' = used + n
         /\ Len(Taken') = Len(Taken) + n
         /\ \A i \in 1..n : /\ Taken'[Len(Taken) + i]
                                = Data(header.name, header.size - left + i)
                            /\ Data(header.name, header.size - left + i) \in BlockSet
PROOF
<1>1. /\ left \in Nat /\ left > 0 /\ left <= header.size /\ header.size \in Nat
      /\ used \in 0..Factor /\ used < Factor /\ Factor \in Nat
      /\ header.name \in Strings
  BY MemberWriterAssumption DEF TypeOK, RecordOK, WhereInv, TakeBody, Between, Headers
<1>2. n \in Nat \ {0} /\ n <= left /\ n \in 0..(Factor - used)
  BY <1>1 DEF Smaller
<1>3. /\ data' = [b \in 1..Factor |->
                   IF b \in (used + 1)..(used + n)
                     THEN Data(header.name, header.size - left + (b - used))
                     ELSE data[b]]
      /\ used' = used + n /\ left' = left - n /\ flushed' = flushed
  BY DEF TakeBody, output
<1>4. ASSUME NEW i \in 1..n
      PROVE  Data(header.name, header.size - left + i) \in BlockSet
  <2>1. header.size - left + i \in Nat
    BY <1>1, <1>2
  <2>2. QED
    BY <2>1, <1>1, BlocksInSet
<1>5. data' \in [1..Factor -> BlockSet]
  <2>1. ASSUME NEW b \in 1..Factor, b \in (used + 1)..(used + n)
        PROVE  Data(header.name, header.size - left + (b - used)) \in BlockSet
    <3>1. b - used \in 1..n
      BY <2>1, <1>1, <1>2
    <3>2. QED
      BY <3>1, <1>4
  <2>2. \A b \in 1..Factor : data[b] \in BlockSet
    BY DEF RecordOK
  <2>3. QED
    BY <1>3, <2>1, <2>2
<1>6. \A b \in 1..Factor : b \notin (used + 1)..(used + n) => data'[b] = data[b]
  BY <1>3
<1>7. /\ RecordOK' /\ Extends(Taken, Taken') /\ Len(Taken') = Len(Taken) + n
      /\ \A i \in 1..n : Taken'[Len(Taken) + i] = data'[used + i]
      /\ FreshInv => FreshInv'
  BY <1>2, <1>3, <1>5, <1>6, TakeBlocks
<1>8. ASSUME NEW i \in 1..n
      PROVE  data'[used + i] = Data(header.name, header.size - left + i)
  <2>1. /\ used + i \in 1..Factor /\ used + i \in (used + 1)..(used + n)
        /\ (used + i) - used = i
    BY <1>1, <1>2
  <2>2. QED
    BY <1>3, <2>1
<1>9. QED
  BY <1>1, <1>2, <1>3, <1>4, <1>7, <1>8

-----------------------------------------------------------------------------
\* Each step that takes blocks, with what it needs to know.
LEMMA InMember ==
  ASSUME TypeOK, pc \notin Between
  PROVE  /\ header \in Headers /\ k \in DOMAIN files
         /\ header.name \in Strings /\ header.link \in Strings
         /\ <<header.name, header.link>> \in Strings \X Strings
         /\ header.size \in Nat /\ header.linklen \in Nat
BY DEF TypeOK, Headers, Between

LEMMA LongNameStep ==
  ASSUME TypeOK, RecordOK, WhereInv, TakeLongName
  PROVE  /\ RecordOK' /\ (FreshInv => FreshInv')
         /\ Taken' = Append(Taken, Text(header.name, Blocks(long_len) - left + 1))
         /\ Text(header.name, Blocks(long_len) - left + 1) \in BlockSet
         /\ left \in Nat /\ left > 0 /\ left <= Blocks(long_len) /\ left' = left - 1
PROOF
<1>1. pc = "long_name" /\ TakeText(header.name, Blocks(long_len))
  BY DEF TakeLongName
<1>2. /\ left \in Nat /\ left <= Blocks(long_len) /\ Blocks(long_len) \in Nat
      /\ header.name \in Strings \cup Strings \X Strings
  BY <1>1, InMember, LengthsOf DEF TypeOK, WhereInv, Between
<1>3. QED
  BY <1>1, <1>2, TookText

LEMMA LongLinkStep ==
  ASSUME TypeOK, RecordOK, WhereInv, TakeLongLink
  PROVE  /\ RecordOK' /\ (FreshInv => FreshInv')
         /\ Taken' = Append(Taken, Text(header.link, Blocks(header.linklen) - left + 1))
         /\ Text(header.link, Blocks(header.linklen) - left + 1) \in BlockSet
         /\ left \in Nat /\ left > 0 /\ left <= Blocks(header.linklen)
         /\ left' = left - 1
PROOF
<1>1. pc = "long_link" /\ TakeText(header.link, Blocks(header.linklen))
  BY DEF TakeLongLink
<1>2. /\ left \in Nat /\ left <= Blocks(header.linklen)
      /\ Blocks(header.linklen) \in Nat
      /\ header.link \in Strings \cup Strings \X Strings
  BY <1>1, InMember, LengthsOf DEF TypeOK, WhereInv, Between
<1>3. QED
  BY <1>1, <1>2, TookText

LEMMA RecordsStep ==
  ASSUME TypeOK, RecordOK, WhereInv, TakeRecords
  PROVE  /\ RecordOK' /\ (FreshInv => FreshInv')
         /\ Taken' = Append(Taken, Text(<<header.name, header.link>>,
                                        RecordBlocks - left + 1))
         /\ Text(<<header.name, header.link>>, RecordBlocks - left + 1) \in BlockSet
         /\ left \in Nat /\ left > 0 /\ left <= RecordBlocks /\ left' = left - 1
PROOF
<1>1. pc = "records" /\ TakeText(<<header.name, header.link>>, RecordBlocks)
  BY DEF TakeRecords
<1>2. /\ left \in Nat /\ left <= RecordBlocks /\ RecordBlocks \in Nat
      /\ <<header.name, header.link>> \in Strings \cup Strings \X Strings
  BY <1>1, InMember, LengthsOf DEF TypeOK, WhereInv, Between
<1>3. QED
  BY <1>1, <1>2, TookText

LEMMA HeaderTaken ==
  ASSUME TypeOK, RecordOK, TakeHeader
  PROVE  /\ RecordOK' /\ (FreshInv => FreshInv')
         /\ Taken' = Append(Taken, HeaderBlock) /\ HeaderBlock \in BlockSet
PROOF
<1>1. pc = "header" /\ Take(HeaderBlock)
  BY DEF TakeHeader
<1>2. HeaderBlock \in BlockSet
  BY <1>1, InMember, HeaderBlockInSet DEF Between
<1>3. QED
  BY <1>1, <1>2, TookBlock

ExtensionBlock(t, n) ==
  /\ Extension(t, n) \in BlockSet /\ n \in Nat \ {0} /\ left' = n
  /\ Taken' = Append(Taken, Extension(t, n))

LEMMA ExtensionTaken ==
  ASSUME TypeOK, RecordOK, WhereInv, TakeExtension
  PROVE  /\ RecordOK' /\ (FreshInv => FreshInv') /\ total' = total + 1
         /\ \/ /\ extensions = "pax" /\ pc' = "records"
               /\ ExtensionBlock("x", RecordBlocks)
            \/ /\ extensions = "gnu" /\ header.cut /\ pc' = "long_name"
               /\ ExtensionBlock("L", Blocks(long_len))
            \/ /\ extensions = "gnu" /\ ~header.cut /\ truncated_link
               /\ pc' = "long_link" /\ ExtensionBlock("K", Blocks(header.linklen))
PROOF
<1>1. pc = "extension" /\ used < Factor /\ used' = used + 1 /\ flushed' = flushed
  BY DEF TakeExtension, output
<1>2. /\ RecordBlocks \in Nat \ {0} /\ Blocks(long_len) \in Nat \ {0}
      /\ truncated_link => Blocks(header.linklen) \in Nat \ {0}
  BY <1>1, InMember, LengthsOf DEF Between, truncated_link
<1>3. ASSUME NEW t \in {"L", "K", "x"}, NEW n \in Nat \ {0}, left' = n,
             data' = [data EXCEPT ![used + 1] = Extension(t, n)]
      PROVE  RecordOK' /\ (FreshInv => FreshInv') /\ ExtensionBlock(t, n)
  <2>1. Extension(t, n) \in BlockSet
    BY BlocksInSet
  <2>2. QED
    BY <2>1, <1>1, <1>3, TakeBlock DEF ExtensionBlock
<1>4. CASE extensions = "pax" /\ pc' = "records" /\ left' = RecordBlocks
           /\ data' = [data EXCEPT ![used + 1] = Extension("x", RecordBlocks)]
           /\ total' = total + 1
  BY <1>2, <1>3, <1>4
<1>5. CASE extensions = "gnu" /\ header.cut
           /\ pc' = "long_name" /\ left' = Blocks(long_len)
           /\ data' = [data EXCEPT ![used + 1] = Extension("L", Blocks(long_len))]
           /\ total' = total + 1
  BY <1>2, <1>3, <1>5
<1>6. CASE extensions = "gnu" /\ ~header.cut /\ truncated_link
           /\ pc' = "long_link" /\ left' = Blocks(header.linklen)
           /\ data' = [data EXCEPT ![used + 1] = Extension("K", Blocks(header.linklen))]
           /\ total' = total + 1
  BY <1>2, <1>3, <1>6
<1>7. QED
  BY ExtensionCases, <1>4, <1>5, <1>6

\* A read that fails leaves the room that was handed out taken, and zero.
LEMMA ReadFailed ==
  ASSUME RecordOK, ReadFails
  PROVE  /\ RecordOK' /\ (FreshInv => FreshInv') /\ Extends(Taken, Taken')
PROOF
<1>1. /\ used < Factor /\ used' = Factor /\ used \in Nat /\ Factor \in Nat
      /\ UNCHANGED <<data, flushed>>
  BY MemberWriterAssumption DEF ReadFails, RecordOK, output
<1> DEFINE n == Factor - used
<1>2. n \in 0..(Factor - used) /\ used' = used + n
  BY <1>1
<1>3. data' \in [1..Factor -> BlockSet]
  BY <1>1 DEF RecordOK
<1> HIDE DEF n
<1>4. QED
  BY <1>1, <1>2, <1>3, TakeBlocks

-----------------------------------------------------------------------------
\* The record keeps its type.
LEMMA RecordStep ==
  ASSUME TypeOK, RecordOK, WhereInv, [Next]_vars
  PROVE  RecordOK'
PROOF
<1>1. CASE UNCHANGED Kept
  BY <1>1 DEF Kept, RecordOK
<1>2. CASE WriteOut
  BY <1>2, WroteOut
<1>3. CASE TakeExtension
  BY <1>3, ExtensionTaken
<1>4. CASE TakeLongName
  BY <1>4, LongNameStep
<1>5. CASE TakeLongLink
  BY <1>5, LongLinkStep
<1>6. CASE TakeRecords
  BY <1>6, RecordsStep
<1>7. CASE TakeHeader
  BY <1>7, HeaderTaken
<1>8. CASE TakeBody
  BY <1>8, TookBody
<1>9. CASE ReadFails
  BY <1>9, ReadFailed
<1>10. CASE LongNameDone
  <2>1. UNCHANGED <<used, flushed>> /\ pc = "long_name"
    BY <1>10 DEF LongNameDone, output
  <2>2. data' = data \/ data' = [data EXCEPT ![block] =
                                   Extension("K", Blocks(header.linklen))]
    BY <1>10 DEF LongNameDone, Encode
  <2>3. Extension("K", Blocks(header.linklen)) \in BlockSet
    BY <2>1, InMember, LengthsOf, BlocksInSet DEF Between
  <2>4. QED
    BY <2>1, <2>2, <2>3 DEF RecordOK
<1>11. CASE Proceed \/ NameTooLong \/ UserLookupFails
  BY <1>1, <1>11 DEF Proceed, NameTooLong, UserLookupFails, Begin, record, output, Kept
<1>12. CASE FlushForRoom \/ FlushInBody
  BY <1>2, <1>12 DEF FlushForRoom, FlushInBody
<1>13. CASE Finish
  BY <1>1, <1>2, <1>13 DEF Finish, record, output, Kept
<1>14. CASE TextDone \/ BodyDone
  BY <1>1, <1>14 DEF TextDone, BodyDone, record, output, Kept
<1>15. CASE ReadlinkFails \/ FlushForRoomFails \/ BodyFlushFails \/ FinishFlushFails
  BY <1>1, <1>15 DEF ReadlinkFails, FlushForRoomFails, BodyFlushFails, FinishFlushFails,
    PartlySent, record, output, Kept
<1>16. CASE UNCHANGED vars
  BY <1>1, <1>16 DEF vars, Kept
<1>17. QED
  BY <1>3, <1>4, <1>5, <1>6, <1>7, <1>8, <1>9, <1>10, <1>11, <1>12, <1>13, <1>14,
     <1>15, <1>16 DEF Next, Step, Fault, Terminated

\* The state keeps its type.
LEMMA TypeStep ==
  ASSUME TypeOK, RecordOK, WhereInv, CacheInv, [Next]_vars
  PROVE  TypeOK'
PROOF
<1>1. ASSUME Begin
      PROVE  /\ header' \in Headers
             /\ cache' \in [{f.inode : f \in ToSet(files)} -> Strings]
             /\ UNCHANGED <<input, record, block, wrlen, left, total, archived>>
             /\ pc = "begin" /\ k \in DOMAIN files
  <2>1. pc = "begin" /\ header' = header_for_file /\ k \in DOMAIN files
    BY <1>1 DEF Begin, TypeOK
  <2>2. header' \in Headers
    BY <2>1, HeaderBuilt
  <2>3. file.name \in Strings /\ file.inode \in DOMAIN cache
    BY <2>1, FileFacts DEF file
  <2>4. cache' = cache \/ cache' = [cache EXCEPT ![file.inode] = file.name]
    BY <1>1 DEF Begin
  <2>5. QED
    BY <1>1, <2>1, <2>2, <2>3, <2>4 DEF Begin, TypeOK
<1>2. CASE Proceed
  BY <1>1, <1>2 DEF Proceed, TypeOK, input, Between
<1>3. ASSUME NEW e \in {"ok", "warn", "fatal"}, Begin, Return(e)
      PROVE  TypeOK'
  <2>1. k' \in 1..(Len(files) + 1) /\ err' = e /\ pc' \in {"begin", "finish"}
        /\ (pc' = "begin" => k' \in DOMAIN files) /\ died' \in BOOLEAN
    BY <1>1, <1>3, Returned DEF input
  <2>2. QED
    BY <1>1, <1>3, <2>1 DEF TypeOK, input, Between
<1>4. CASE NameTooLong \/ UserLookupFails
  BY <1>3, <1>4 DEF NameTooLong, UserLookupFails
<1>5. CASE ReadlinkFails \/ BodyFlushFails \/ ReadFails
  <2>1. PICK e \in {"warn", "fatal"} : Return(e)
    BY <1>5 DEF ReadlinkFails, BodyFlushFails, ReadFails
  <2>2. /\ pc \notin {"finish", "finished"}
        /\ UNCHANGED <<input, header, block, wrlen, left, total, archived, cache>>
    BY <1>5 DEF ReadlinkFails, BodyFlushFails, ReadFails
  <2>3. QED
    BY <2>1, <2>2, FailedType DEF TypeOK
<1>6. CASE FlushForRoomFails
  <2>1. PICK e \in {"ok", "warn", "fatal"} : Return(e)
    BY <1>6 DEF FlushForRoomFails, TypeOK
  <2>2. /\ pc \notin {"finish", "finished"}
        /\ UNCHANGED <<input, header, block, wrlen, left, total, archived, cache>>
    BY <1>6 DEF FlushForRoomFails, Needing
  <2>3. QED
    BY <2>1, <2>2, FailedType DEF TypeOK
<1>7. CASE FlushForRoom \/ FlushInBody
  BY <1>7 DEF FlushForRoom, FlushInBody, TypeOK, member, input, verdict
<1>8. CASE TakeExtension
  <2>1. pc' \in {"records", "long_name", "long_link"} /\ left' \in Nat /\ total' \in Nat
    BY <1>8, ExtensionTaken DEF ExtensionBlock, TypeOK
  <2>2. pc = "extension" /\ block' = used + 1 /\ wrlen' = 1 /\ used < Factor
        /\ UNCHANGED <<input, k, header, verdict>>
    BY <1>8 DEF TakeExtension
  <2>3. block' \in 0..Factor /\ used \in Nat
    BY <2>2, MemberWriterAssumption DEF RecordOK
  <2>4. QED
    BY <2>1, <2>2, <2>3 DEF TypeOK, Between, input, verdict
<1>9. CASE TakeLongName
  BY <1>9, LongNameStep DEF TakeLongName, TypeOK, input, verdict
<1>10. CASE TakeLongLink
  BY <1>10, LongLinkStep DEF TakeLongLink, TypeOK, input, verdict
<1>11. CASE TakeRecords
  BY <1>11, RecordsStep DEF TakeRecords, TypeOK, input, verdict
<1>12. CASE LongNameDone
  <2>1. pc = "long_name" /\ UNCHANGED <<input, k, header, block, verdict>>
        /\ wrlen' = Blocks(long_len)
    BY <1>12 DEF LongNameDone
  <2>2. Blocks(long_len) \in Nat /\ Blocks(header.linklen) \in Nat
    BY <2>1, InMember, LengthsOf DEF Between
  <2>3. pc' \in {"long_link", "header"}
        /\ (left' = left \/ left' = Blocks(header.linklen))
        /\ (total' = total + Blocks(long_len)
            \/ total' = total + (Blocks(long_len) + Blocks(long_len)))
    BY <1>12 DEF LongNameDone, Encode
  <2>4. left' \in Nat /\ total' \in Nat
    BY <2>2, <2>3 DEF TypeOK
  <2>5. QED
    BY <2>1, <2>2, <2>3, <2>4 DEF TypeOK, input, verdict, Between
<1>13. CASE TextDone
  <2>1. pc \in {"long_link", "records"} /\ UNCHANGED <<input, k, header, block, left, verdict>>
        /\ pc' = "header"
    BY <1>13 DEF TextDone
  <2>2. RecordBlocks \in Nat /\ Blocks(header.linklen) \in Nat
    BY <2>1, InMember, LengthsOf DEF Between
  <2>3. wrlen' \in Nat /\ total' \in Nat
    BY <1>13, <2>2 DEF TextDone, TypeOK
  <2>4. QED
    BY <2>1, <2>3 DEF TypeOK, input, verdict, Between
<1>14. ASSUME pc \in {"header", "body"}, Success, UNCHANGED <<input, header, block, cache>>,
              wrlen' \in Nat, left' \in Nat, total' \in Nat
       PROVE  TypeOK'
  <2>1. header \in Headers /\ k \in DOMAIN files
    BY <1>14, InMember DEF Between
  <2>2. archived' \in Seq(Headers)
    BY <1>14, <2>1, AppendProperties DEF Success, TypeOK
  <2>3. k' \in 1..(Len(files) + 1) /\ err' \in {"ok", "warn", "fatal"}
        /\ pc' \in {"begin", "finish"}
        /\ (pc' = "begin" => k' \in DOMAIN files) /\ died' \in BOOLEAN
    BY <1>14, <2>1, Returned DEF input, Success, TypeOK
  <2>4. QED
    BY <1>14, <2>2, <2>3 DEF TypeOK, input, Between
<1>15. CASE TakeHeader
  <2>1. pc = "header" /\ total' \in Nat /\ wrlen' \in Nat /\ header \in Headers
        /\ UNCHANGED <<input, header, block, cache>>
    BY <1>15, InMember DEF TakeHeader, TypeOK, Between
  <2>2. CASE header.type = "0"
    BY <1>15, <2>1, <2>2 DEF TakeHeader, TypeOK, input, Between, Headers
  <2>3. CASE header.type # "0"
    <3>1. Success /\ left' = left
      BY <1>15, <2>3 DEF TakeHeader
    <3>2. QED
      BY <2>1, <3>1, <1>14 DEF TypeOK
  <2>4. QED
    BY <2>2, <2>3
<1>16. CASE TakeBody
  <2>1. left' \in Nat
    BY <1>16, TookBody DEF TypeOK
  <2>2. QED
    BY <1>16, <2>1 DEF TakeBody, TypeOK, input, verdict
<1>17. CASE BodyDone
  <2>1. pc = "body" /\ Success /\ UNCHANGED <<input, header, block, cache, left>>
        /\ total' = total + header.size /\ wrlen' = header.size
    BY <1>17 DEF BodyDone
  <2>2. wrlen' \in Nat /\ total' \in Nat
    BY <2>1, InMember DEF TypeOK, Between
  <2>3. QED
    BY <2>1, <2>2, <1>14 DEF TypeOK
<1>18. CASE Finish \/ FinishFlushFails
  BY <1>18 DEF Finish, FinishFlushFails, TypeOK, member, input, Between
<1>19. CASE UNCHANGED vars
  BY <1>19 DEF vars, TypeOK
<1>20. QED
  BY <1>2, <1>4, <1>5, <1>6, <1>7, <1>8, <1>9, <1>10, <1>11, <1>12, <1>13, <1>15,
     <1>16, <1>17, <1>18, <1>19 DEF Next, Step, Fault, Terminated

-----------------------------------------------------------------------------
\* As long as the file and its header are the same, so is what is written of them.
LEMMA SameFile ==
  ASSUME UNCHANGED <<files, k, header>>
  PROVE  /\ file' = file /\ long_len' = long_len /\ RecordBlocks' = RecordBlocks
         /\ truncated_link' = truncated_link /\ HeaderBlock' = HeaderBlock
         /\ IsHardlink' = IsHardlink
PROOF
<1>1. file' = file
  BY DEF file
<1>2. long_len' = long_len
  BY <1>1 DEF long_len
<1>3. QED
  BY <1>1, <1>2 DEF RecordBlocks, truncated_link, HeaderBlock, IsHardlink

LEMMA WhereStep ==
  ASSUME TypeOK, RecordOK, WhereInv, [Next]_vars
  PROVE  WhereInv'
PROOF
<1>1. CASE pc' \in Between \cup {"header"}
  BY <1>1 DEF WhereInv, Between
<1>2. CASE Proceed
  <2>1. pc' = "extension" =>
          extensions # "none" /\ (header'.cut \/ header'.linklen > 100)
    BY <1>2 DEF Proceed
  <2>2. pc' \in {"extension", "header"} /\ extensions' = extensions
    BY <1>2 DEF Proceed, Begin, input
  <2>3. QED
    BY <2>1, <2>2 DEF WhereInv, truncated_link
<1>3. ASSUME UNCHANGED <<pc, input, k, header>>, left' \in Nat, left' <= left
      PROVE  WhereInv'
  <2>1. /\ long_len' = long_len /\ RecordBlocks' = RecordBlocks
        /\ truncated_link' = truncated_link
    BY <1>3, SameFile DEF input
  <2>2. CASE pc = "long_name"
    <3>1. Blocks(long_len) \in Nat /\ Blocks(long_len)' = Blocks(long_len)
      BY <2>1, <2>2, InMember, LengthsOf DEF Between, Blocks
    <3>2. QED
      BY <1>3, <2>1, <2>2, <3>1 DEF WhereInv, input, TypeOK
  <2>3. CASE pc = "long_link"
    <3>1. Blocks(header.linklen) \in Nat /\ header' = header
      BY <1>3, <2>3, InMember, LengthsOf DEF Between
    <3>2. QED
      BY <1>3, <2>1, <2>3, <3>1 DEF WhereInv, input, TypeOK
  <2>4. CASE pc = "records"
    <3>1. RecordBlocks \in Nat
      BY <2>4, InMember, LengthsOf DEF Between
    <3>2. QED
      BY <1>3, <2>1, <2>4, <3>1 DEF WhereInv, input, TypeOK
  <2>5. CASE pc = "body"
    <3>1. header.size \in Nat
      BY <2>5, InMember DEF Between
    <3>2. QED
      BY <1>3, <2>5, <3>1 DEF WhereInv, input, TypeOK
  <2>6. CASE pc \notin {"long_name", "long_link", "records", "body"}
    BY <1>3, <2>1, <2>6 DEF WhereInv, input
  <2>7. QED
    BY <2>2, <2>3, <2>4, <2>5, <2>6
<1>4. CASE FlushForRoom \/ FlushInBody
  BY <1>3, <1>4 DEF FlushForRoom, FlushInBody, member, input, TypeOK
<1>5. CASE TakeExtension
  <2>1. pc = "extension" /\ UNCHANGED <<input, k, header>>
    BY <1>5 DEF TakeExtension
  <2>2. /\ long_len' = long_len /\ RecordBlocks' = RecordBlocks
        /\ truncated_link' = truncated_link
    BY <2>1, SameFile DEF input
  <2>3. /\ Blocks(long_len) \in Nat /\ Blocks(header.linklen) \in Nat
        /\ RecordBlocks \in Nat
        /\ Blocks(long_len)' = Blocks(long_len)
    BY <2>1, <2>2, InMember, LengthsOf DEF Between, Blocks
  <2>4. CASE extensions = "pax" /\ pc' = "records" /\ left' = RecordBlocks
    BY <2>1, <2>2, <2>3, <2>4 DEF WhereInv, input
  <2>5. CASE extensions = "gnu" /\ header.cut /\ pc' = "long_name"
             /\ left' = Blocks(long_len)
    BY <2>1, <2>2, <2>3, <2>5 DEF WhereInv, input
  <2>6. CASE extensions = "gnu" /\ truncated_link /\ pc' = "long_link"
             /\ left' = Blocks(header.linklen)
    BY <2>1, <2>2, <2>3, <2>6 DEF WhereInv, input
  <2>7. QED
    BY <1>5, <2>4, <2>5, <2>6, ExtensionCases
  
<1>6. CASE TakeLongName
  BY <1>3, <1>6, LongNameStep DEF TakeLongName
<1>7. CASE TakeLongLink
  BY <1>3, <1>7, LongLinkStep DEF TakeLongLink
<1>8. CASE TakeRecords
  BY <1>3, <1>8, RecordsStep DEF TakeRecords
<1>9. CASE LongNameDone
  <2>1. CASE pc' = "header"
    BY <2>1, <1>1
  <2>2. CASE pc' # "header"
    <3>1. /\ truncated_link /\ pc' = "long_link" /\ left' = Blocks(header.linklen)
          /\ pc = "long_name" /\ UNCHANGED <<input, k, header>>
      BY <1>9, <2>2 DEF LongNameDone, Encode
    <3>2. truncated_link' /\ Blocks(header.linklen) \in Nat
      BY <3>1, SameFile, InMember, LengthsOf DEF input, Between
    <3>3. QED
      BY <3>1, <3>2 DEF WhereInv, input
  <2>3. QED
    BY <2>1, <2>2
<1>10. CASE TakeHeader
  <2>1. pc = "header" /\ header.size \in Nat
    BY <1>10, InMember DEF TakeHeader, Between
  <2>2. CASE header.type = "0"
    BY <1>10, <2>1, <2>2 DEF TakeHeader, WhereInv
  <2>3. CASE header.type # "0"
    BY <1>1, <1>10, <2>3 DEF TakeHeader, Success, Return, Between
  <2>4. QED
    BY <2>2, <2>3
<1>11. CASE TakeBody
  <2>1. left' \in Nat /\ left' <= left
    BY <1>11, TookBody DEF TypeOK
  <2>2. QED
    BY <1>3, <1>11, <2>1 DEF TakeBody
<1>12. CASE UNCHANGED vars
  BY <1>3, <1>12 DEF vars, input, TypeOK
<1>13. CASE NameTooLong \/ UserLookupFails \/ ReadlinkFails \/ FlushForRoomFails
            \/ BodyFlushFails \/ ReadFails \/ BodyDone \/ Finish \/ FinishFlushFails
            \/ TextDone
  BY <1>1, <1>13 DEF NameTooLong, UserLookupFails, ReadlinkFails, FlushForRoomFails,
    BodyFlushFails, ReadFails, BodyDone, Finish, FinishFlushFails, TextDone, Success,
    Return, Between
<1>14. QED
  BY <1>2, <1>4, <1>5, <1>6, <1>7, <1>8, <1>9, <1>10, <1>11, <1>12, <1>13
  DEF Next, Step, Fault, Terminated

\* A header stays that of its file until the file is done with.
LEMMA HeaderStep ==
  ASSUME TypeOK, WhereInv, CacheInv, HeaderInv, [Next]_vars
  PROVE  HeaderInv'
PROOF
<1>1. CASE pc' \in Between
  BY <1>1 DEF HeaderInv
<1>2. CASE Proceed
  <2>1. pc = "begin" /\ header' = header_for_file /\ UNCHANGED <<files, k>>
    BY <1>2 DEF Proceed, Begin, input
  <2>2. HeaderOf(header')
    BY <2>1, HeaderBuilt
  <2>3. HeaderOf(header)'
    BY <2>1, <2>2 DEF HeaderOf, file, IsHardlink
  <2>4. QED
    BY <2>3 DEF HeaderInv
<1>3. ASSUME pc \notin Between, UNCHANGED <<files, k, header>>
      PROVE  HeaderInv'
  <2>1. HeaderOf(header)
    BY <1>3 DEF HeaderInv
  <2>2. HeaderOf(header)'
    BY <1>3, <2>1 DEF HeaderOf, file, IsHardlink
  <2>3. QED
    BY <2>2 DEF HeaderInv
<1>4. CASE FlushForRoom \/ FlushInBody
  BY <1>3, <1>4 DEF FlushForRoom, FlushInBody, member, input, Between, Needing
<1>5. CASE TakeExtension \/ TakeLongName \/ TakeLongLink \/ TakeRecords
           \/ LongNameDone \/ TextDone \/ TakeBody
  BY <1>3, <1>5 DEF TakeExtension, TakeLongName, TakeLongLink, TakeRecords,
    LongNameDone, TextDone, TakeBody, input, Between
<1>6. CASE TakeHeader
  <2>1. CASE header.type = "0"
    BY <1>3, <1>6, <2>1 DEF TakeHeader, input, Between
  <2>2. CASE header.type # "0"
    BY <1>1, <1>6, <2>2 DEF TakeHeader, Success, Return, Between
  <2>3. QED
    BY <2>1, <2>2
<1>7. CASE UNCHANGED vars
  BY <1>1, <1>3, <1>7 DEF vars
<1>8. CASE NameTooLong \/ UserLookupFails \/ ReadlinkFails \/ FlushForRoomFails
            \/ BodyFlushFails \/ ReadFails \/ BodyDone \/ Finish \/ FinishFlushFails
  BY <1>1, <1>8 DEF NameTooLong, UserLookupFails, ReadlinkFails, FlushForRoomFails,
    BodyFlushFails, ReadFails, BodyDone, Finish, FinishFlushFails, Success,
    Return, Between
<1>9. QED
  BY <1>2, <1>4, <1>5, <1>6, <1>7, <1>8 DEF Next, Step, Fault, Terminated

-----------------------------------------------------------------------------
\* What the handle receives of the blocks of a record, or of its first n.
LEMMA SentBlocks ==
  ASSUME NEW d \in Seq(BlockSet)
  PROVE  /\ Sent(d) \in Seq(BlockSet) /\ Len(Sent(d)) = Len(d)
         /\ shape # "shifted" => Sent(d) = d
PROOF
<1>1. Len(d) \in Nat /\ DOMAIN d = 1..Len(d)
  BY LenProperties
<1> DEFINE m == [b \in 1..Len(d) |-> Mixed]
<1>2. Mixed \in BlockSet
  BY DEF BlockSet
<1>3. m \in Seq(BlockSet) /\ Len(m) = Len(d)
  BY <1>1, <1>2
<1>4. Sent(d) = IF shape = "shifted" THEN m ELSE d
  BY <1>1 DEF Sent
<1> HIDE DEF m
<1>5. QED
  BY <1>3, <1>4

LEMMA StreamGrows ==
  ASSUME stream \in Seq(BlockSet), NEW d \in Seq(BlockSet), stream' = stream \o Sent(d)
  PROVE  /\ Extends(stream, stream') /\ Len(stream') = Len(stream) + Len(d)
         /\ shape # "shifted" =>
              \A i \in 1..Len(d) : stream'[Len(stream) + i] = d[i]
PROOF
<1> DEFINE e == Sent(d)
<1>1. e \in Seq(BlockSet) /\ Len(e) = Len(d) /\ (shape # "shifted" => e = d)
  BY SentBlocks
<1>2. Len(stream) \in Nat /\ Len(d) \in Nat
  BY LenProperties
<1>3. stream' = stream \o e
  OBVIOUS
<1> HIDE DEF e
<1>4. /\ stream' \in Seq(BlockSet) /\ Len(stream') = Len(stream) + Len(d)
      /\ \A i \in 1..(Len(stream) + Len(d)) :
           stream'[i] = IF i <= Len(stream) THEN stream[i] ELSE e[i - Len(stream)]
  <2>1. /\ stream \o e \in Seq(BlockSet) /\ Len(stream \o e) = Len(stream) + Len(e)
        /\ \A i \in 1..(Len(stream) + Len(e)) :
             (stream \o e)[i] = IF i <= Len(stream) THEN stream[i] ELSE e[i - Len(stream)]
    BY <1>1, ConcatProperties
  <2>2. QED
    BY <1>1, <1>3, <2>1
<1>5. \A i \in 1..Len(d) : stream'[Len(stream) + i] = e[i]
  BY <1>2, <1>4
<1>6. QED
  BY <1>1, <1>2, <1>4, <1>5 DEF Extends

LEMMA FirstBlocks ==
  ASSUME RecordOK, NEW n \in 0..Factor
  PROVE  /\ data \in Seq(BlockSet) /\ Len(data) = Factor
         /\ SubSeq(data, 1, n) \in Seq(BlockSet) /\ Len(SubSeq(data, 1, n)) = n
         /\ \A i \in 1..n : SubSeq(data, 1, n)[i] = data[i]
PROOF
<1>1. data \in Seq(BlockSet) /\ Len(data) = Factor /\ \A i \in 1..n : data[i] \in BlockSet
  BY MemberWriterAssumption DEF RecordOK
<1> DEFINE x == SubSeq(data, 1, n)
<1>2. /\ x \in Seq(BlockSet) /\ Len(x) = (IF 1 <= n THEN n - 1 + 1 ELSE 0)
      /\ \A i \in 1..(n - 1 + 1) : x[i] = data[1 + i - 1]
  BY <1>1, MemberWriterAssumption, SubSeqProperties
<1> HIDE DEF x
<1>3. Len(x) = n /\ \A i \in 1..n : x[i] = data[i]
  BY <1>2, MemberWriterAssumption
<1>4. QED
  BY <1>1, <1>2, <1>3 DEF x

LEMMA WroteStream ==
  ASSUME RecordOK, OutputOK, WriteOut
  PROVE  Extends(stream, stream') /\ Len(stream') = Len(stream) + Factor
PROOF
<1>1. data \in Seq(BlockSet) /\ Len(data) = Factor
  BY FirstBlocks, MemberWriterAssumption
<1>2. QED
  BY <1>1, StreamGrows DEF OutputOK, WriteOut

LEMMA PartSent ==
  ASSUME RecordOK, OutputOK, PartlySent
  PROVE  \/ UNCHANGED <<stream, shape, intact>>
         \/ \E n \in 0..(Factor - 1) :
              /\ Extends(stream, stream') /\ Len(stream') = Len(stream) + n
              /\ shape' \in {"torn", "shifted"}
              /\ intact' = IF shape = "whole" THEN Len(stream) + Smaller(n, used)
                           ELSE intact
              /\ shape = "whole" => \A i \in 1..n : stream'[Len(stream) + i] = data[i]
PROOF
<1>1. SUFFICES ASSUME NEW n \in 0..(Factor - 1), NEW inside \in BOOLEAN,
                      stream' = stream \o Sent(SubSeq(data, 1, n)),
                      shape' = IF inside THEN "shifted"
                               ELSE IF shape = "whole" THEN "torn" ELSE shape,
                      intact' = IF shape = "whole" THEN Len(stream) + Smaller(n, used)
                                ELSE intact
               PROVE  /\ Extends(stream, stream') /\ Len(stream') = Len(stream) + n
                      /\ shape' \in {"torn", "shifted"}
                      /\ shape = "whole" =>
                           \A i \in 1..n : stream'[Len(stream) + i] = data[i]
  BY DEF PartlySent
<1> DEFINE x == SubSeq(data, 1, n)
<1>2. n \in 0..Factor
  BY MemberWriterAssumption
<1>3. x \in Seq(BlockSet) /\ Len(x) = n /\ \A i \in 1..n : x[i] = data[i]
  BY <1>2, FirstBlocks
<1>4. stream' = stream \o Sent(x) /\ stream \in Seq(BlockSet)
  BY <1>1 DEF OutputOK
<1> HIDE DEF x
<1>5. /\ Extends(stream, stream') /\ Len(stream') = Len(stream) + n
      /\ shape # "shifted" => \A i \in 1..n : stream'[Len(stream) + i] = data[i]
  BY <1>3, <1>4, StreamGrows
<1>6. shape' \in {"torn", "shifted"}
  BY <1>1 DEF OutputOK
<1>7. QED
  BY <1>5, <1>6

\* The output is changed by flushes only, and a member's end is noted with it.
LEMMA OutputMoves ==
  ASSUME RecordOK, [Next]_vars
  PROVE  /\ \/ UNCHANGED output
            \/ WriteOut /\ used > 0
            \/ PartlySent /\ used' = used /\ used > 0 /\ "flush" \in faults
         /\ UNCHANGED faults
         /\ \/ UNCHANGED <<archived, ends>>
            \/ /\ archived' = Append(archived, header)
               /\ ends' = Append(ends, Len(Taken'))
PROOF
<1>1. Factor \in Nat \ {0} /\ used \in 0..Factor
  BY MemberWriterAssumption DEF RecordOK
<1> HIDE DEF output
<1>2. CASE Proceed \/ NameTooLong \/ UserLookupFails \/ ReadlinkFails
  BY <1>2 DEF Proceed, NameTooLong, UserLookupFails, ReadlinkFails, Begin, Return,
    record, input
<1>3. CASE FlushForRoom \/ FlushInBody
  BY <1>1, <1>3 DEF FlushForRoom, FlushInBody, member, verdict, input
<1>4. CASE FlushForRoomFails \/ BodyFlushFails
  BY <1>1, <1>4 DEF FlushForRoomFails, BodyFlushFails, PartlySent, input
<1>5. CASE TakeExtension \/ LongNameDone \/ TextDone
  BY <1>5 DEF TakeExtension, LongNameDone, TextDone, record, verdict, input
<1>6. CASE TakeLongName \/ TakeLongLink \/ TakeRecords
  BY <1>6 DEF TakeLongName, TakeLongLink, TakeRecords, TakeText, Take, verdict, input
<1>7. CASE TakeHeader
  BY <1>7 DEF TakeHeader, Take, Success, input
<1>8. CASE TakeBody \/ BodyDone \/ ReadFails
  BY <1>8 DEF TakeBody, BodyDone, ReadFails, Success, record, verdict, input
<1>9. CASE Finish
  BY <1>1, <1>9 DEF Finish, record, member, input
<1>10. CASE FinishFlushFails
  BY <1>1, <1>10 DEF FinishFlushFails, PartlySent, member, input
<1>11. CASE UNCHANGED vars
  BY <1>11 DEF vars, output
<1>12. QED
  BY <1>2, <1>3, <1>4, <1>5, <1>6, <1>7, <1>8, <1>9, <1>10, <1>11
  DEF Next, Step, Fault, Terminated

LEMMA OutputStep ==
  ASSUME RecordOK, RecordOK', OutputOK, [Next]_vars
  PROVE  OutputOK' /\ Extends(stream, stream')
PROOF
<1>1. ends' \in Seq(Nat)
  <2>1. Len(Taken') \in Nat
    BY TakenSeqNext, LenProperties
  <2>2. ends \in Seq(Nat)
    BY DEF OutputOK
  <2>3. ends' = ends \/ ends' = Append(ends, Len(Taken'))
    BY OutputMoves
  <2>4. QED
    BY <2>1, <2>2, <2>3, AppendProperties
<1>2. UNCHANGED faults /\ Len(stream) \in Nat /\ used \in Nat
  BY OutputMoves, LenProperties, MemberWriterAssumption DEF OutputOK, RecordOK
<1>3. CASE UNCHANGED output
  <2>1. UNCHANGED <<flushed, stream, shape, intact>>
    BY <1>3 DEF output
  <2>2. Extends(stream, stream')
    BY <2>1, LenProperties DEF OutputOK, Extends
  <2>3. QED
    BY <1>1, <1>2, <2>1, <2>2 DEF OutputOK
<1>4. CASE WriteOut
  <2>1. Extends(stream, stream')
    BY <1>4, WroteStream
  <2>2. UNCHANGED <<shape, intact>> /\ stream' \in Seq(BlockSet)
    BY <1>4, <2>1 DEF WriteOut, Extends
  <2>3. ASSUME shape = "whole" PROVE stream' = flushed'
    <3>1. Sent(data) = data /\ stream = flushed
      BY <2>3 DEF Sent, OutputOK
    <3>2. QED
      BY <1>4, <3>1 DEF WriteOut
  <2>4. QED
    BY <1>1, <1>2, <2>1, <2>2, <2>3 DEF OutputOK
<1>5. CASE PartlySent /\ "flush" \in faults
  <2>1. CASE UNCHANGED <<stream, shape, intact>>
    <3>1. UNCHANGED output
      BY <1>5, <2>1 DEF PartlySent, output
    <3>2. QED
      BY <1>3, <3>1
  <2>2. ASSUME NEW n \in 0..(Factor - 1), Extends(stream, stream'),
               shape' \in {"torn", "shifted"},
               intact' = IF shape = "whole" THEN Len(stream) + Smaller(n, used)
                         ELSE intact
        PROVE  OutputOK' /\ Extends(stream, stream')
    <3>1. Smaller(n, used) \in Nat /\ stream' \in Seq(BlockSet)
      BY <1>2, <2>2, MemberWriterAssumption DEF Smaller, Extends
    <3>2. intact' \in Nat
      BY <1>2, <2>2, <3>1 DEF OutputOK
    <3>3. QED
      BY <1>1, <1>2, <1>5, <2>2, <3>1, <3>2 DEF OutputOK
  <2>3. QED
    BY <1>5, <2>1, <2>2, PartSent
<1>6. QED
  BY <1>3, <1>4, <1>5, OutputMoves

-----------------------------------------------------------------------------
\* The state while an archive is written.
WriterInv == TypeOK /\ RecordOK /\ OutputOK /\ CacheInv /\ WhereInv /\ HeaderInv

LEMMA WriterInitially ==
  ASSUME Init
  PROVE  WriterInv
PROOF
<1>1. PICK n \in 1..MaxFiles : files \in [1..n -> Inputs[extensions]]
  BY DEF Init
<1>2. files \in Seq(Inputs[extensions]) /\ Len(files) = n /\ DOMAIN files = 1..n
      /\ n \in Nat
  BY <1>1, MemberWriterAssumption
<1>3. /\ extensions \in Formats /\ faults \in FaultSets
      /\ k = 1 /\ pc = "begin"
      /\ data = Blank /\ used = 0 /\ flushed = <<>>
      /\ header = NoHeader /\ block = 0 /\ wrlen = 0 /\ left = 0 /\ total = 0
      /\ cache = [i \in {f.inode : f \in ToSet(files)} |-> None]
      /\ err = "ok" /\ archived = <<>> /\ died = FALSE
      /\ stream = <<>> /\ shape = "whole" /\ intact = 0 /\ ends = <<>>
  BY DEF Init
<1>4. cache \in [{f.inode : f \in ToSet(files)} -> Strings]
  BY <1>3 DEF Strings
<1>5. TypeOK
  <2>1. archived \in Seq(Headers) /\ block \in 0..Factor /\ k \in DOMAIN files
        /\ k \in 1..(Len(files) + 1)
    BY <1>1, <1>2, <1>3, MemberWriterAssumption
  <2>2. QED
    BY <1>2, <1>3, <1>4, <2>1 DEF TypeOK, Between
<1>6. RecordOK
  <2>1. Blank \in [1..Factor -> BlockSet]
    BY DEF Blank, BlockSet
  <2>2. QED
    BY <1>3, <2>1, MemberWriterAssumption DEF RecordOK
<1>7. CacheInv
  BY <1>3 DEF CacheInv
<1>8. OutputOK
  BY <1>3, EmptySeq DEF OutputOK
<1>9. QED
  BY <1>3, <1>5, <1>6, <1>7, <1>8 DEF WriterInv, WhereInv, HeaderInv, Between

LEMMA WriterStep ==
  ASSUME WriterInv, [Next]_vars
  PROVE  WriterInv'
BY TypeStep, RecordStep, OutputStep, CacheStep, WhereStep, HeaderStep DEF WriterInv

\* Every state of the writer is of its type, whatever fails, the cache has names of
\* files that came before, and extensions are written only of members that need
\* them.
THEOREM TypeCorrect == Spec => []WriterInv
PROOF
<1>1. Init => WriterInv
  BY WriterInitially
<1>2. WriterInv /\ [Next]_vars => WriterInv'
  BY WriterStep
<1>3. QED
  BY <1>1, <1>2, PTL DEF Spec

-----------------------------------------------------------------------------
\* The record buffer is used as ByteSink allows: blocks are put into it one or
\* more at a time, it is written out as a whole, or a flush fails after part of it,
\* and nothing is taken back.
LEMMA SinkStep ==
  ASSUME WriterInv, [Next]_vars
  PROVE  [Sink!SinkNext]_(Sink!sinkVars)
PROOF
<1> USE DEF WriterInv
<1>1. /\ Factor \in Nat \ {0} /\ used \in 0..Factor /\ Len(stream) \in Nat
      /\ used' \in 0..Factor
  BY RecordStep, LenProperties, MemberWriterAssumption DEF RecordOK, OutputOK
<1>2. CASE UNCHANGED <<used, stream, shape>>
  BY <1>2 DEF Sink!sinkVars
<1>3. CASE used' > used /\ UNCHANGED output
  BY <1>1, <1>3 DEF output, Sink!SinkNext, Sink!Put
<1>4. CASE WriteOut /\ used > 0
  <2>1. Len(stream') = Len(stream) + Factor /\ used' = 0 /\ shape' = shape
    BY <1>4, WroteStream DEF WriteOut
  <2>2. QED
    BY <2>1, <1>4 DEF Sink!SinkNext, Sink!Drain
<1>5. CASE PartlySent /\ used' = used /\ used > 0
  <2>1. CASE UNCHANGED <<stream, shape, intact>>
    BY <1>2, <1>5, <2>1
  <2>2. ASSUME NEW n \in 0..(Factor - 1), Len(stream') = Len(stream) + n,
               shape' \in {"torn", "shifted"}
        PROVE  Sink!Tear
    <3>1. Len(stream') \in Len(stream)..(Len(stream) + Factor - 1)
      BY <1>1, <2>2
    <3>2. QED
      BY <1>5, <2>2, <3>1 DEF Sink!Tear, Sink!PartSent
  <2>3. QED
    BY <1>5, <2>1, <2>2, PartSent DEF Sink!SinkNext
<1>6. CASE UNCHANGED output
  <2>1. CASE UNCHANGED used
    BY <1>2, <1>6, <2>1 DEF output
  <2>2. CASE TakeExtension \/ TakeLongName \/ TakeLongLink \/ TakeRecords \/ TakeHeader
    <3>1. used' = used + 1
      BY <2>2 DEF TakeExtension, TakeLongName, TakeLongLink, TakeRecords, TakeHeader,
        TakeText, Take
    <3>2. QED
      BY <1>1, <1>3, <1>6, <3>1
  <2>3. CASE TakeBody
    <3>1. used' = used + Smaller(left, Factor - used)
      BY <2>3 DEF TakeBody
    <3>2. used' > used
      BY <1>1, <2>3, <3>1, TookBody
    <3>3. QED
      BY <1>3, <1>6, <3>2
  <2>4. CASE ReadFails
    BY <1>1, <1>3, <1>6, <2>4 DEF ReadFails
  <2>5. CASE (FlushForRoom \/ FlushInBody \/ Finish) /\ ~UNCHANGED used
    BY <1>1, <1>4, <2>5 DEF FlushForRoom, FlushInBody, Finish, record
  <2>6. CASE Proceed \/ NameTooLong \/ UserLookupFails \/ ReadlinkFails
             \/ FlushForRoomFails \/ BodyFlushFails \/ FinishFlushFails
             \/ LongNameDone \/ TextDone \/ BodyDone \/ UNCHANGED vars
    <3>1. UNCHANGED used
      BY <2>6 DEF Proceed, NameTooLong, UserLookupFails, ReadlinkFails, Begin,
        FlushForRoomFails, BodyFlushFails, FinishFlushFails, PartlySent, LongNameDone,
        TextDone, BodyDone, record, vars
    <3>2. QED
      BY <2>1, <3>1
  <2>7. QED
    BY <2>1, <2>2, <2>3, <2>4, <2>5, <2>6 DEF Next, Step, Fault, Terminated
<1>7. QED
  BY <1>4, <1>5, <1>6, OutputMoves

\* Every block asked for, filled or flushed by write_file(), its failures included, is
\* a step of the buffer's abstract specification, counted in blocks: a flush that
\* fails after part of the record tears the stream and gives nothing up.
THEOREM WriterImplementsSink == Spec => RefinesSink
PROOF
<1>1. Init => Sink!SinkInit
  <2>1. Init => used = 0 /\ stream = <<>> /\ shape = "whole"
    BY DEF Init
  <2>2. QED
    BY <2>1, EmptySeq DEF Sink!SinkInit
<1>2. WriterInv /\ [Next]_vars => [Sink!SinkNext]_(Sink!sinkVars)
  BY SinkStep
<1>3. QED
  BY <1>1, <1>2, TypeCorrect, PTL DEF Spec, RefinesSink, Sink!SinkSpec

-----------------------------------------------------------------------------
\* No two of the files are the same.
Distinct == IsInjective(files)

LEMMA InputStays ==
  ASSUME [Next]_vars
  PROVE  UNCHANGED input /\ (Distinct => Distinct')
PROOF
<1>1. UNCHANGED input
  BY DEF Next, Step, Fault, Terminated, vars, Proceed, NameTooLong, UserLookupFails,
    Begin, ReadlinkFails, FlushForRoom, FlushForRoomFails, TakeExtension,
    TakeLongName, TakeLongLink, TakeRecords, LongNameDone, TextDone, TakeHeader,
    FlushInBody, TakeBody, BodyDone, BodyFlushFails, ReadFails, Finish,
    FinishFlushFails, member, input
<1>2. QED
  BY <1>1 DEF input, Distinct, IsInjective

\* Then no member has both a long name and a long link.
LEMMA NotBoth ==
  ASSUME OneLongName, WriterInv, Distinct, pc \notin Between, extensions = "gnu",
         header.cut
  PROVE  ~truncated_link
PROOF
<1>1. k \in DOMAIN files /\ HeaderOf(header) /\ "gnu" \in Formats
  BY DEF WriterInv, TypeOK, HeaderInv
<1>2. /\ file \in Inputs["gnu"] /\ IsFile(file)
      /\ \A j \in DOMAIN files : files[j] \in Inputs["gnu"] /\ IsFile(files[j])
  BY <1>1, FileFacts DEF file, WriterInv
<1>3. file.cut
  BY <1>1 DEF HeaderOf
<1>4. CASE header.linklen = file.destlen
  <2>1. file.destlen <= 100 /\ file.destlen \in Nat
    BY <1>1, <1>2, <1>3 DEF OneLongName, IsFile
  <2>2. QED
    BY <1>4, <2>1 DEF truncated_link
<1>5. ASSUME IsHardlink, NEW j \in 1..(k - 1), files[j].inode = file.inode,
             files[j].type = "0", header.linklen = files[j].len
      PROVE  ~truncated_link
  <2>1. j \in DOMAIN files /\ j # k
    BY <1>1, LenProperties DEF WriterInv, TypeOK
  <2>2. file # files[j]
    BY <1>1, <2>1 DEF Distinct, IsInjective, file
  <2>3. files[j].len <= 100 /\ files[j].len \in Nat
    BY <1>1, <1>2, <1>3, <1>5, <2>1, <2>2 DEF OneLongName, IsHardlink, IsFile
  <2>4. QED
    BY <1>5, <2>3 DEF truncated_link
<1>6. QED
  BY <1>1, <1>4, <1>5 DEF HeaderOf

LEMMA LongNameOnly ==
  ASSUME OneLongName, WriterInv, Distinct, LongNameDone
  PROVE  /\ ~truncated_link /\ header.cut /\ pc = "long_name" /\ left = 0
         /\ pc' = "header" /\ total' = total + Blocks(long_len)
         /\ UNCHANGED <<record, input, k, header, left, verdict>>
PROOF
<1>1. pc = "long_name" /\ extensions = "gnu" /\ header.cut
  BY DEF LongNameDone, WriterInv, WhereInv
<1>2. ~truncated_link
  BY <1>1, NotBoth DEF Between
<1>3. QED
  BY <1>1, <1>2 DEF LongNameDone, record

-----------------------------------------------------------------------------
LEMMA ExtendsItself ==
  ASSUME NEW s \in Seq(BlockSet)
  PROVE  Extends(s, s)
BY LenProperties DEF Extends

LEMMA ExtendsByOne ==
  ASSUME NEW s \in Seq(BlockSet), NEW b \in BlockSet
  PROVE  Extends(s, Append(s, b))
PROOF
<1> DEFINE t == Append(s, b)
<1>1. /\ t \in Seq(BlockSet) /\ Len(t) = Len(s) + 1 /\ Len(s) \in Nat
      /\ \A i \in 1..Len(s) : t[i] = s[i]
  BY AppendProperties, LenProperties
<1> HIDE DEF t
<1>2. QED
  BY <1>1 DEF Extends, t

LEMMA ExtendsPrefix ==
  ASSUME NEW s, NEW t, Extends(s, t)
  PROVE  IsPrefix(s, t)
PROOF
<1>1. /\ s \in Seq(BlockSet) /\ t \in Seq(BlockSet) /\ Len(s) \in Nat
      /\ Len(t) \in Nat /\ Len(s) <= Len(t) /\ \A i \in 1..Len(s) : t[i] = s[i]
  BY DEF Extends
<1> DEFINE u == SubSeq(t, 1, Len(s))
<1>2. \A i \in 1..Len(s) : t[i] \in BlockSet
  BY <1>1, ElementOfSeq
<1>3. /\ u \in Seq(BlockSet) /\ Len(u) = IF 1 <= Len(s) THEN Len(s) - 1 + 1 ELSE 0
      /\ \A i \in 1..(Len(s) - 1 + 1) : u[i] = t[1 + i - 1]
  BY <1>1, <1>2, SubSeqProperties
<1> HIDE DEF u
<1>4. Len(u) = Len(s) /\ \A i \in 1..Len(s) : s[i] = u[i]
  BY <1>1, <1>3
<1>5. s = u
  BY <1>1, <1>3, <1>4, SeqEqual
<1>6. SubSeq(s, 1, Len(s)) = s
  BY <1>1, SubSeqFull
<1>7. QED
  BY <1>1, <1>5, <1>6 DEF IsPrefix, u

\* Nothing that has been put into the archive is changed, whatever fails.
LEMMA Growth ==
  ASSUME OneLongName, WriterInv, Distinct, [Next]_vars
  PROVE  Extends(Taken, Taken') /\ (FreshInv => FreshInv')
PROOF
<1> USE DEF WriterInv
<1>1. Taken \in Seq(BlockSet)
  BY TakenSeq
<1>2. CASE UNCHANGED Kept
  <2>1. Taken' = Taken /\ (FreshInv => FreshInv')
    BY <1>2 DEF Kept, Taken, FreshInv
  <2>2. QED
    BY <1>1, <2>1, ExtendsItself
<1>3. ASSUME NEW b \in BlockSet, Taken' = Append(Taken, b)
      PROVE  Extends(Taken, Taken')
  BY <1>1, <1>3, ExtendsByOne
<1>4. CASE WriteOut
  BY <1>4, WroteOut
<1>5. CASE FlushForRoom \/ FlushInBody \/ Finish
  BY <1>2, <1>4, <1>5 DEF FlushForRoom, FlushInBody, Finish, record, output, Kept
<1>6. CASE TakeExtension
  BY <1>3, <1>6, ExtensionTaken DEF ExtensionBlock
<1>7. CASE TakeLongName
  BY <1>3, <1>7, LongNameStep
<1>8. CASE TakeLongLink
  BY <1>3, <1>8, LongLinkStep
<1>9. CASE TakeRecords
  BY <1>3, <1>9, RecordsStep
<1>10. CASE TakeHeader
  BY <1>3, <1>10, HeaderTaken
<1>11. CASE TakeBody
  BY <1>11, TookBody
<1>12. CASE ReadFails
  BY <1>12, ReadFailed
<1>13. CASE LongNameDone
  BY <1>2, <1>13, LongNameOnly DEF record, output, Kept
<1>14. CASE Proceed \/ NameTooLong \/ UserLookupFails \/ ReadlinkFails
            \/ FlushForRoomFails \/ BodyFlushFails \/ FinishFlushFails
            \/ TextDone \/ BodyDone \/ UNCHANGED vars
  BY <1>2, <1>14 DEF Proceed, NameTooLong, UserLookupFails, ReadlinkFails, Begin,
    FlushForRoomFails, BodyFlushFails, FinishFlushFails, TextDone, BodyDone,
    PartlySent, record, output, Kept, vars
<1>15. QED
  BY <1>5, <1>6, <1>7, <1>8, <1>9, <1>10, <1>11, <1>12, <1>13, <1>14
  DEF Next, Step, Fault, Terminated

\* Room that was not handed out is zero.
GrowthInv == WriterInv /\ Distinct /\ FreshInv

LEMMA GrowthHolds ==
  ASSUME OneLongName
  PROVE  Spec => []GrowthInv
PROOF
<1>1. Init => Distinct /\ FreshInv
  BY DEF Init, Distinct, FreshInv, Blank
<1>2. WriterInv /\ (Distinct /\ FreshInv) /\ [Next]_vars => (Distinct /\ FreshInv)'
  BY Growth, InputStays
<1>3. QED
  BY <1>1, <1>2, TypeCorrect, PTL DEF Spec, GrowthInv

\* What has been put into the archive is never written to again, if no GNU member
\* needs two long names.
THEOREM AppendOnlyHolds ==
  ASSUME OneLongName
  PROVE  Spec => AppendOnly
PROOF
<1>1. GrowthInv /\ [Next]_vars => [IsPrefix(Taken, Taken')]_vars
  BY Growth, ExtendsPrefix DEF GrowthInv
<1>2. QED
  BY <1>1, GrowthHolds, PTL DEF Spec, AppendOnly

-----------------------------------------------------------------------------
\* What the reader knows as a stream grows.
LEMMA ReadingAlong ==
  ASSUME NEW s, NEW t, Extends(s, t)
  PROVE  \E f : /\ f[Len(s)] = Reading(s) /\ f[Len(t)] = Reading(t)
                /\ \A i \in (Len(s) + 1)..Len(t) : f[i] = ReadBlock(f[i - 1], t[i])
PROOF
<1>1. /\ Len(s) \in Nat /\ Len(t) \in Nat /\ Len(s) <= Len(t)
      /\ \A i \in 1..Len(s) : s[i] = t[i]
  BY DEF Extends
<1>2. PICK g : Known(s, Len(s), g) /\ Reading(s) = g[Len(s)]
  BY <1>1, ReadingKnown
<1>3. PICK f : Known(t, Len(t), f) /\ Reading(t) = f[Len(t)]
  BY <1>1, ReadingKnown
<1>4. g[Len(s)] = f[Len(s)]
  <2>1. /\ Len(s) \in Nat /\ Len(t) \in Nat /\ Len(s) <= Len(t)
        /\ Known(s, Len(s), g) /\ Known(t, Len(t), f)
    BY <1>1, <1>2, <1>3
  <2>2. ASSUME NEW m \in Nat, NEW n \in Nat, Known(s, m, g), Known(t, n, f), m <= n,
               \A i \in 1..m : s[i] = t[i]
        PROVE  g[m] = f[m]
    BY <2>2, KnownSame
  <2>3. QED
    BY <1>1, <2>1, <2>2
<1>5. \A i \in 1..Len(t) : f[i] = ReadBlock(f[i - 1], t[i])
  BY <1>1, <1>3, KnownSteps
<1>6. \A i \in (Len(s) + 1)..Len(t) : f[i] = ReadBlock(f[i - 1], t[i])
  BY <1>1, <1>5
<1>7. QED
  BY <1>2, <1>3, <1>4, <1>6

\* Zero blocks between members tell it nothing.
LEMMA ReadingZeros ==
  ASSUME NEW s, NEW t, Extends(s, t), Reading(s).due = "header",
         \A i \in (Len(s) + 1)..Len(t) : t[i] = Zero
  PROVE  Reading(t) = Reading(s)
PROOF
<1>1. PICK f : /\ f[Len(s)] = Reading(s) /\ f[Len(t)] = Reading(t)
               /\ \A i \in (Len(s) + 1)..Len(t) : f[i] = ReadBlock(f[i - 1], t[i])
  BY ReadingAlong
<1>2. Len(s) \in Nat /\ Len(t) \in Nat /\ Len(s) <= Len(t)
  BY DEF Extends
<1> DEFINE Bad == {i \in Len(s)..Len(t) : f[i] # Reading(s)}
<1>3. SUFFICES ASSUME Bad # {} PROVE FALSE
  BY <1>1, <1>2
<1>4. PICK i \in Bad : \A y \in Bad : i <= y
  <2>1. Bad \in SUBSET Nat
    BY <1>2
  <2>2. QED
    BY <1>3, <2>1, LeastNumber
<1>5. i # Len(s)
  BY <1>1, <1>4
<1>6. i - 1 \in Len(s)..Len(t) /\ i - 1 \notin Bad /\ i \in (Len(s) + 1)..Len(t)
  BY <1>2, <1>4, <1>5
<1>7. f[i] = ReadBlock(Reading(s), Zero)
  BY <1>1, <1>6
<1>8. ReadBlock(Reading(s), Zero) = Reading(s)
  BY DEF ReadBlock, ReadHeader, Zero
<1>9. QED
  BY <1>4, <1>7, <1>8

-----------------------------------------------------------------------------
\* What a reader knows between two objects, and within one.
Idle(ms, name, link) ==
  [members |-> ms, name |-> name, link |-> link, due |-> "header",
   header |-> None, n |-> 0, read |-> 0, of |-> None]
Amid(ms, name, link, due, h, n, read, of) ==
  [members |-> ms, name |-> name, link |-> link, due |-> due,
   header |-> h, n |-> n, read |-> read, of |-> of]

\* ... when l blocks of an object of n are still to come, which are those of x.
Within(ms, name, link, due, h, n, l, x) ==
  Amid(ms, name, link, due, h, n, n - l, IF l = n THEN None ELSE x)

LEMMA StartIdle == Start = Idle(<<>>, None, None)
BY DEF Start, Idle

LEMMA ReadAnnounced ==
  ASSUME NEW ms, NEW name, NEW link, NEW t \in {"L", "K", "x"}, NEW n \in Nat, NEW x
  PROVE  ReadBlock(Idle(ms, name, link), Extension(t, n))
           = Within(ms, name, link, t, Extension(t, n), n, n, x)
PROOF
<1> DEFINE r == Idle(ms, name, link)
           b == Extension(t, n)
<1>1. r.due = "header" /\ b.t = t /\ b.n = n
  BY DEF Idle, Extension
<1>2. ReadBlock(r, b) = Await(r, t, b, n)
  BY <1>1 DEF ReadBlock, ReadHeader
<1>3. Await(r, t, b, n) = Amid(ms, name, link, t, b, n, 0, None)
  <2>1. r.members = ms /\ r.name = name /\ r.link = link
    BY DEF Idle
  <2>2. QED
    BY <2>1 DEF Await, Amid
<1>4. QED
  BY <1>2, <1>3 DEF Within

\* b is the block of such an object that is due.
Continues(b, due, n, l, x) ==
  /\ due \in {"L", "K", "x", "data"} /\ n \in Nat /\ l \in 1..n
  /\ due = "data" => b.t = "data"
  /\ due # "data" => b.t = "text"
  /\ b.i = n - l + 1 /\ b.of = x

LEMMA ReadNext ==
  ASSUME NEW ms, NEW name, NEW link, NEW due, NEW h, NEW n, NEW l, NEW x, NEW b,
         Continues(b, due, n, l, x)
  PROVE  ReadBlock(Within(ms, name, link, due, h, n, l, x), b)
           = IF l = 1 THEN Deliver(Amid(ms, name, link, due, h, n, n, x))
             ELSE Within(ms, name, link, due, h, n, l - 1, x)
PROOF
<1> DEFINE r == Within(ms, name, link, due, h, n, l, x)
           more == Amid(ms, name, link, due, h, n, n - l + 1, x)
<1> USE DEF Continues
<1>1. /\ r.due = due /\ r.read = n - l /\ r.n = n
      /\ r.of = IF l = n THEN None ELSE x
      /\ r = Amid(ms, name, link, due, h, n, n - l, r.of)
  BY DEF Within, Amid
<1>2. ReadBlock(r, b) = ReadPayload(r, b)
  BY <1>1 DEF ReadBlock
<1>3. r.read # 0 => b.of = r.of
  BY <1>1
<1>4. [r EXCEPT !.read = @ + 1, !.of = b.of] = more
  <2>1. [r EXCEPT !.read = @ + 1, !.of = b.of]
          = [[r EXCEPT !.read = n - l + 1] EXCEPT !.of = x]
    BY <1>1
  <2>2. [Amid(ms, name, link, due, h, n, n - l, r.of) EXCEPT !.read = n - l + 1]
          = Amid(ms, name, link, due, h, n, n - l + 1, r.of)
    BY DEF Amid
  <2>3. [Amid(ms, name, link, due, h, n, n - l + 1, r.of) EXCEPT !.of = x] = more
    BY DEF Amid
  <2> HIDE DEF r, more
  <2>4. QED
    BY <1>1, <2>1, <2>2, <2>3
<1>5. more.read = n - l + 1
  BY DEF Amid
<1> HIDE DEF r, more
<1>6. ReadPayload(r, b) = IF more.read = r.n THEN Deliver(more) ELSE more
  BY <1>1, <1>3, <1>4 DEF ReadPayload
<1>7. CASE l = 1
  <2>1. more.read = r.n /\ more = Amid(ms, name, link, due, h, n, n, x)
    BY <1>1, <1>5, <1>7 DEF more
  <2>2. QED
    BY <1>2, <1>6, <1>7, <2>1 DEF r
<1>8. CASE l # 1
  <2>1. more.read # r.n
    BY <1>1, <1>5, <1>8
  <2>2. more = Within(ms, name, link, due, h, n, l - 1, x)
    BY <1>8 DEF more, Within
  <2>3. QED
    BY <1>2, <1>6, <1>8, <2>1, <2>2 DEF r
<1>9. QED
  BY <1>7, <1>8

LEMMA Delivered ==
  ASSUME NEW ms, NEW name, NEW link, NEW h, NEW n, NEW x
  PROVE  /\ Deliver(Amid(ms, name, link, "L", h, n, n, x)) = Idle(ms, x, link)
         /\ Deliver(Amid(ms, name, link, "K", h, n, n, x)) = Idle(ms, name, x)
         /\ Deliver(Amid(ms, name, link, "x", h, n, n, x)) = Idle(ms, x[1], x[2])
         /\ Deliver(Amid(ms, name, link, "data", h, n, n, x))
              = Emit(Idle(ms, name, link), h, x)
PROOF
<1>1. Deliver(Amid(ms, name, link, "L", h, n, n, x)) = Idle(ms, x, link)
  BY DEF Deliver, Amid, Idle, Pending, Start
<1>2. Deliver(Amid(ms, name, link, "K", h, n, n, x)) = Idle(ms, name, x)
  BY DEF Deliver, Amid, Idle, Pending, Start
<1>3. Deliver(Amid(ms, name, link, "x", h, n, n, x)) = Idle(ms, x[1], x[2])
  BY DEF Deliver, Amid, Idle, Pending, Start
<1>4. Deliver(Amid(ms, name, link, "data", h, n, n, x))
        = Emit(Idle(ms, name, link), h, x)
  <2>1. Deliver(Amid(ms, name, link, "data", h, n, n, x))
          = Emit(Amid(ms, name, link, "data", h, n, n, x), h, x)
    BY DEF Deliver, Amid
  <2>2. Emit(Amid(ms, name, link, "data", h, n, n, x), h, x)
          = Emit(Idle(ms, name, link), h, x)
    BY DEF Emit, Amid, Idle
  <2>3. QED
    BY <2>1, <2>2
<1>5. QED
  BY <1>1, <1>2, <1>3, <1>4

LEMMA Emitted ==
  ASSUME NEW ms, NEW name, NEW link, NEW h, NEW body
  PROVE  Emit(Idle(ms, name, link), h, body) =
           Idle(Append(ms, [name |-> IF name = None THEN h.name ELSE name,
                            type |-> h.type,
                            link |-> IF link = None THEN h.link ELSE link,
                            body |-> body]), None, None)
BY SMTT(30) DEF Emit, Idle, Start

-----------------------------------------------------------------------------
\* The long names that precede the header at hand.
NamePending ==
  IF header.cut \/ (extensions = "pax" /\ truncated_link) THEN header.name ELSE None
LinkPending ==
  IF truncated_link \/ (extensions = "pax" /\ header.cut) THEN header.link ELSE None

\* What a reader should make of what has been taken so far.
Expectation ==
  LET E == Expected
      Long(t, n, x) == Within(E, None, None, t, Extension(t, n), n, left, x)
  IN  CASE pc = "long_name" /\ left > 0 -> Long("L", Blocks(long_len), header.name)
        [] pc = "long_name" /\ left = 0 -> Idle(E, header.name, None)
        [] pc = "long_link" /\ left > 0 -> Long("K", Blocks(header.linklen), header.link)
        [] pc = "long_link" /\ left = 0 -> Idle(E, None, header.link)
        [] pc = "records" /\ left > 0 ->
             Long("x", RecordBlocks, <<header.name, header.link>>)
        [] pc = "records" /\ left = 0 -> Idle(E, header.name, header.link)
        [] pc = "header" -> Idle(E, NamePending, LinkPending)
        [] pc = "body" /\ left > 0 ->
             Within(E, NamePending, LinkPending, "data", HeaderBlock, header.size, left,
                    header.name)
        [] pc = "body" /\ left = 0 -> Idle(Append(E, Archived(header)), None, None)
        [] OTHER -> Idle(E, None, None)
Reads == Reading(Taken) = Expectation

\* Of the extensions a header needs none is missing when it is written.
NamesInv ==
  /\ extensions = "none" /\ pc \in {"header", "body"} => ~header.cut /\ ~truncated_link
  /\ extensions = "gnu" /\ pc = "long_link" => ~header.cut

LEMMA NamesStep ==
  ASSUME OneLongName, WriterInv, Distinct, NamesInv, [Next]_vars
  PROVE  NamesInv'
PROOF
<1> USE DEF WriterInv
<1>1. CASE pc' \notin {"header", "body", "long_link"}
  BY <1>1 DEF NamesInv
<1>2. ASSUME UNCHANGED <<input, k, header>>,
             pc \in {"long_name", "long_link", "records"}, pc' \in {"long_link", "header"},
             pc' = "long_link" => pc = "long_link"
      PROVE  NamesInv'
  BY <1>2 DEF NamesInv, WhereInv, input
<1>3. ASSUME UNCHANGED <<input, k, header>>,
             pc' = pc \/ (pc = "header" /\ pc' = "body")
      PROVE  NamesInv'
  BY <1>3, SameFile DEF NamesInv, input
<1>4. CASE Proceed
  <2>1. pc' \in {"extension", "header"}
        /\ (pc' = "header" => ~(header'.cut \/ header'.linklen > 100))
    BY <1>4 DEF Proceed
  <2>2. QED
    BY <2>1 DEF NamesInv, truncated_link
<1>5. CASE TakeExtension
  <2>1. UNCHANGED <<input, k, header>>
    BY <1>5 DEF TakeExtension
  <2>2. QED
    BY <1>1, <1>5, <2>1, ExtensionCases DEF NamesInv, input
<1>6. CASE TakeLongName \/ TakeLongLink \/ TakeRecords \/ TakeBody
  BY <1>3, <1>6 DEF TakeLongName, TakeLongLink, TakeRecords, TakeBody
<1>7. CASE LongNameDone
  BY <1>2, <1>7, LongNameOnly
<1>8. CASE TextDone
  BY <1>2, <1>8 DEF TextDone
<1>9. CASE FlushForRoom \/ FlushInBody
  BY <1>3, <1>9 DEF FlushForRoom, FlushInBody, member
<1>10. CASE TakeHeader
  <2>1. CASE header.type = "0"
    BY <1>3, <1>10, <2>1 DEF TakeHeader
  <2>2. CASE header.type # "0"
    BY <1>1, <1>10, <2>2 DEF TakeHeader, Success, Return
  <2>3. QED
    BY <2>1, <2>2
<1>11. CASE UNCHANGED vars
  BY <1>3, <1>11 DEF vars, input
<1>12. CASE NameTooLong \/ UserLookupFails \/ ReadlinkFails \/ FlushForRoomFails
            \/ BodyFlushFails \/ ReadFails \/ BodyDone \/ Finish \/ FinishFlushFails
  BY <1>1, <1>12 DEF NameTooLong, UserLookupFails, ReadlinkFails, FlushForRoomFails,
    BodyFlushFails, ReadFails, BodyDone, Finish, FinishFlushFails, Success, Return
<1>13. QED
  BY <1>4, <1>5, <1>6, <1>7, <1>8, <1>9, <1>10, <1>11, <1>12
  DEF Next, Step, Fault, Terminated

-----------------------------------------------------------------------------
\* A header is read as that of the member which it is.
LEMMA HeaderRead ==
  ASSUME WriterInv, NamesInv, pc \in {"header", "body"}, NEW ms
  PROVE  /\ \A body : Emit(Idle(ms, NamePending, LinkPending), HeaderBlock, body)
              = Idle(Append(ms, [name |-> header.name, type |-> header.type,
                                 link |-> header.link, body |-> body]), None, None)
         /\ header.type # "0" => BodyLength(HeaderBlock) = 0
         /\ header.type = "0" => BodyLength(HeaderBlock) = header.size
PROOF
<1>1. /\ header \in Headers /\ k \in DOMAIN files /\ HeaderOf(header)
      /\ extensions \in {"none", "gnu", "pax"}
  BY InMember, MemberWriterAssumption DEF WriterInv, HeaderInv, Between, TypeOK
<1>2. IsFile(file) /\ \A j \in DOMAIN files : IsFile(files[j])
  BY <1>1, FileFacts DEF file, WriterInv
<1>3. header.name # None
  BY <1>1, <1>2 DEF HeaderOf, IsFile
<1>4. truncated_link => header.link # None
  <2>1. CASE header.link = file.dest /\ header.linklen = file.destlen
    BY <1>2, <2>1 DEF truncated_link, IsFile
  <2>2. ASSUME NEW j \in 1..(k - 1), header.link = files[j].name
        PROVE  header.link # None
    <3>1. j \in DOMAIN files
      BY <1>1, LenProperties DEF WriterInv, TypeOK
    <3>2. QED
      BY <1>2, <2>2, <3>1 DEF IsFile
  <2>3. QED
    BY <1>1, <2>1, <2>2 DEF HeaderOf
<1>5. (IF NamePending = None THEN Fitting(header.name, header.cut) ELSE NamePending)
        = header.name
  <2>1. CASE header.cut
    BY <1>3, <2>1 DEF NamePending
  <2>2. CASE ~header.cut
    BY <1>3, <2>2 DEF NamePending, Fitting
  <2>3. QED
    BY <2>1, <2>2
<1>6. (IF LinkPending = None THEN Fitting(header.link, truncated_link) ELSE LinkPending)
        = header.link
  <2>1. CASE truncated_link
    BY <1>4, <2>1 DEF LinkPending
  <2>2. CASE ~truncated_link
    BY <2>2 DEF LinkPending, Fitting
  <2>3. QED
    BY <2>1, <2>2
<1>7. /\ HeaderBlock.name = Fitting(header.name, header.cut)
      /\ HeaderBlock.type = header.type
      /\ HeaderBlock.link = Fitting(header.link, truncated_link)
      /\ HeaderBlock.n = header.size
  BY DEF HeaderBlock, Header
<1>8. header.type # "0" => BodyLength(HeaderBlock) = 0
  BY <1>1, <1>2, <1>7 DEF HeaderOf, IsFile, BodyLength
<1>9. header.type = "0" => BodyLength(HeaderBlock) = header.size
  BY <1>7 DEF BodyLength
<1>10. ASSUME NEW body
       PROVE  Emit(Idle(ms, NamePending, LinkPending), HeaderBlock, body)
                = Idle(Append(ms, [name |-> header.name, type |-> header.type,
                                   link |-> header.link, body |-> body]), None, None)
  BY <1>5, <1>6, <1>7, Emitted
<1>11. QED
  BY <1>8, <1>9, <1>10

LEMMA HeaderMakesMember ==
  ASSUME WriterInv, NamesInv, pc = "header", NEW ms
  PROVE  ReadBlock(Idle(ms, NamePending, LinkPending), HeaderBlock)
           = IF header.type = "0" /\ header.size > 0
             THEN Within(ms, NamePending, LinkPending, "data", HeaderBlock, header.size,
                         header.size, header.name)
             ELSE Idle(Append(ms, Archived(header)), None, None)
PROOF
<1> DEFINE r == Idle(ms, NamePending, LinkPending)
<1>1. r.due = "header" /\ HeaderBlock.t = "header" /\ HeaderBlock.n = header.size
      /\ header.size \in Nat
  BY InMember DEF Idle, HeaderBlock, Header, WriterInv, Between
<1>2. ReadBlock(r, HeaderBlock) = IF BodyLength(HeaderBlock) = 0
                                  THEN Emit(r, HeaderBlock, None)
                                  ELSE Await(r, "data", HeaderBlock, header.size)
  BY <1>1 DEF ReadBlock, ReadHeader
<1>3. Await(r, "data", HeaderBlock, header.size)
        = Within(ms, NamePending, LinkPending, "data", HeaderBlock, header.size,
                 header.size, header.name)
  BY <1>1 DEF Await, Within, Amid, Idle
<1>4. CASE header.type = "0" /\ header.size > 0
  BY <1>1, <1>2, <1>3, <1>4, HeaderRead
<1>5. CASE ~(header.type = "0" /\ header.size > 0)
  <2>1. BodyLength(HeaderBlock) = 0
    BY <1>1, <1>5, HeaderRead
  <2>2. Archived(header) = [name |-> header.name, type |-> header.type,
                            link |-> header.link, body |-> None]
    BY <1>5 DEF Archived
  <2>3. QED
    BY <1>2, <1>5, <2>1, <2>2, HeaderRead
<1>6. QED
  BY <1>4, <1>5

LEMMA BodyMakesMember ==
  ASSUME WriterInv, NamesInv, pc = "body", header.size > 0, NEW ms
  PROVE  Deliver(Amid(ms, NamePending, LinkPending, "data", HeaderBlock, header.size,
                      header.size, header.name))
           = Idle(Append(ms, Archived(header)), None, None)
PROOF
<1>1. header.type = "0"
  BY DEF WriterInv, WhereInv
<1>2. Archived(header) = [name |-> header.name, type |-> header.type,
                          link |-> header.link, body |-> header.name]
  BY <1>1 DEF Archived
<1>3. QED
  BY <1>2, HeaderRead, Delivered

-----------------------------------------------------------------------------
LEMMA SameNames ==
  ASSUME UNCHANGED <<input, k, header>>
  PROVE  /\ NamePending' = NamePending /\ LinkPending' = LinkPending
         /\ long_len' = long_len /\ RecordBlocks' = RecordBlocks
         /\ Blocks(long_len)' = Blocks(long_len)
         /\ HeaderBlock' = HeaderBlock /\ header' = header
         /\ Archived(header)' = Archived(header)
PROOF
<1>1. /\ truncated_link' = truncated_link /\ HeaderBlock' = HeaderBlock
      /\ long_len' = long_len /\ RecordBlocks' = RecordBlocks
      /\ extensions' = extensions /\ header' = header
  BY SameFile DEF input
<1>2. QED
  BY <1>1 DEF NamePending, LinkPending, Blocks, Archived

LEMMA SameExpected ==
  ASSUME UNCHANGED archived
  PROVE  Expected' = Expected
BY DEF Expected, Archived

LEMMA ExpectedAppend ==
  ASSUME NEW s \in Seq(Headers), NEW h \in Headers, NEW t, t = Append(s, h)
  PROVE  [i \in DOMAIN t |-> Archived(t[i])]
           = Append([i \in DOMAIN s |-> Archived(s[i])], Archived(h))
PROOF
<1> DEFINE S == {Archived(x) : x \in Headers}
           u == [i \in DOMAIN s |-> Archived(s[i])]
           v == [i \in DOMAIN t |-> Archived(t[i])]
<1>1. /\ Len(s) \in Nat /\ DOMAIN s = 1..Len(s) /\ \A i \in 1..Len(s) : s[i] \in Headers
  BY LenProperties, ElementOfSeq
<1>2. /\ t \in Seq(Headers) /\ Len(t) = Len(s) + 1 /\ DOMAIN t = 1..(Len(s) + 1)
      /\ t[Len(s) + 1] = h /\ \A i \in 1..Len(s) : t[i] = s[i]
  BY <1>1, AppendProperties, LenProperties
<1>3. \A i \in 1..(Len(s) + 1) : t[i] \in Headers
  BY <1>1, <1>2, ElementOfSeq
<1>4. u \in Seq(S) /\ Len(u) = Len(s) /\ \A i \in 1..Len(s) : u[i] = Archived(s[i])
  <2>1. u \in [1..Len(s) -> S]
    BY <1>1
  <2>2. QED
    BY <1>1, <2>1
<1>5. /\ v \in Seq(S) /\ Len(v) = Len(s) + 1
      /\ \A i \in 1..(Len(s) + 1) : v[i] = Archived(t[i])
  <2>1. v \in [1..(Len(s) + 1) -> S]
    BY <1>2, <1>3
  <2>2. QED
    BY <1>1, <1>2, <2>1
<1>6. Archived(h) \in S
  OBVIOUS
<1> HIDE DEF u, v, S
<1> DEFINE w == Append(u, Archived(h))
<1>7. /\ w \in Seq(S) /\ Len(w) = Len(s) + 1
      /\ \A i \in 1..Len(s) : w[i] = u[i]
      /\ w[Len(s) + 1] = Archived(h)
  BY <1>4, <1>6, AppendProperties
<1> HIDE DEF w
<1>8. \A i \in 1..(Len(s) + 1) : v[i] = w[i]
  <2>1. \A i \in 1..Len(s) : v[i] = w[i]
    BY <1>1, <1>2, <1>4, <1>5, <1>7
  <2>2. v[Len(s) + 1] = w[Len(s) + 1]
    BY <1>1, <1>2, <1>5, <1>7
  <2>3. \A i \in 1..(Len(s) + 1) : i \in 1..Len(s) \/ i = Len(s) + 1
    BY <1>1
  <2>4. QED
    BY <2>1, <2>2, <2>3
<1>9. v = w
  BY <1>5, <1>7, <1>8, SeqEqual
<1>10. QED
  BY <1>9 DEF u, v, w

LEMMA OneMoreArchived ==
  ASSUME archived \in Seq(Headers), header \in Headers, archived' = Append(archived, header)
  PROVE  Expected' = Append(Expected, Archived(header))
PROOF
<1>1. [i \in DOMAIN archived' |-> Archived(archived'[i])]
        = Append([i \in DOMAIN archived |-> Archived(archived[i])], Archived(header))
  BY ExpectedAppend
<1>2. QED
  BY <1>1 DEF Expected, Archived

-----------------------------------------------------------------------------
LEMMA TookReading ==
  ASSUME RecordOK, NEW b \in BlockSet, Taken' = Append(Taken, b), Reads
  PROVE  Reading(Taken') = ReadBlock(Expectation, b)
BY TakenSeq, ReadingAppend DEF Reads

\* The next block of a text is read as such.
Heard(ms, t, x) ==
  CASE t = "L" -> Idle(ms, x, None)
    [] t = "K" -> Idle(ms, None, x)
    [] t = "x" -> Idle(ms, x[1], x[2])

LEMMA TextRead ==
  ASSUME NEW ms, NEW t, NEW n, NEW l, NEW x, NEW b, t # "data", Continues(b, t, n, l, x)
  PROVE  ReadBlock(Within(ms, None, None, t, Extension(t, n), n, l, x), b)
           = IF l = 1 THEN Heard(ms, t, x)
             ELSE Within(ms, None, None, t, Extension(t, n), n, l - 1, x)
PROOF
<1>1. ReadBlock(Within(ms, None, None, t, Extension(t, n), n, l, x), b)
        = IF l = 1 THEN Deliver(Amid(ms, None, None, t, Extension(t, n), n, n, x))
          ELSE Within(ms, None, None, t, Extension(t, n), n, l - 1, x)
  BY ReadNext
<1>2. Deliver(Amid(ms, None, None, t, Extension(t, n), n, n, x)) = Heard(ms, t, x)
  BY Delivered DEF Heard, Continues
<1>3. QED
  BY <1>1, <1>2

LEMMA ReadsLongName ==
  ASSUME WriterInv, Reads, TakeLongName
  PROVE  Reads'
PROOF
<1> DEFINE n == Blocks(long_len)
<1>1. /\ pc = "long_name" /\ pc' = "long_name" /\ UNCHANGED <<input, k, header, archived>>
  BY DEF TakeLongName, verdict
<1>2. /\ n \in Nat /\ left \in 1..n /\ left' = left - 1
      /\ Taken' = Append(Taken, Text(header.name, n - left + 1))
      /\ Text(header.name, n - left + 1) \in BlockSet
  <2>1. n \in Nat
    BY <1>1, InMember, LengthsOf DEF WriterInv, Between
  <2>2. QED
    BY <2>1, LongNameStep DEF WriterInv
<1>3. Blocks(long_len)' = n /\ Expected' = Expected /\ header' = header
  BY <1>1, SameNames, SameExpected
<1> HIDE DEF n
<1>4. Expectation = Within(Expected, None, None, "L", Extension("L", n), n, left, header.name)
  BY <1>1, <1>2 DEF Expectation, n
<1>5. Reading(Taken') =
        IF left = 1 THEN Idle(Expected, header.name, None)
        ELSE Within(Expected, None, None, "L", Extension("L", n), n, left - 1, header.name)
  <2>1. Reading(Taken') = ReadBlock(Expectation, Text(header.name, n - left + 1))
    BY <1>2, TookReading DEF WriterInv
  <2>2. Continues(Text(header.name, n - left + 1), "L", n, left, header.name)
    BY <1>2 DEF Continues, Text
  <2>3. Heard(Expected, "L", header.name) = Idle(Expected, header.name, None)
    BY DEF Heard
  <2>4. ReadBlock(Expectation, Text(header.name, n - left + 1))
          = IF left = 1 THEN Heard(Expected, "L", header.name)
            ELSE Within(Expected, None, None, "L", Extension("L", n), n, left - 1, header.name)
    BY <1>4, <2>2, TextRead
  <2>5. QED
    BY <2>1, <2>3, <2>4
<1>6. Expectation' = IF left' = 0 THEN Idle(Expected, header.name, None)
        ELSE Within(Expected, None, None, "L", Extension("L", n), n, left', header.name)
  BY <1>1, <1>2, <1>3 DEF Expectation
<1>7. QED
  BY <1>2, <1>5, <1>6 DEF Reads

LEMMA ReadsLongLink ==
  ASSUME WriterInv, Reads, TakeLongLink
  PROVE  Reads'
PROOF
<1> DEFINE n == Blocks(header.linklen)
<1>1. /\ pc = "long_link" /\ pc' = "long_link" /\ UNCHANGED <<input, k, header, archived>>
  BY DEF TakeLongLink, verdict
<1>2. /\ n \in Nat /\ left \in 1..n /\ left' = left - 1
      /\ Taken' = Append(Taken, Text(header.link, n - left + 1))
      /\ Text(header.link, n - left + 1) \in BlockSet
  <2>1. n \in Nat
    BY <1>1, InMember, LengthsOf DEF WriterInv, Between
  <2>2. QED
    BY <2>1, LongLinkStep DEF WriterInv
<1>3. Blocks(header.linklen)' = n /\ Expected' = Expected /\ header' = header
  <2>1. header' = header
    BY <1>1
  <2>2. QED
    BY <1>1, <2>1, SameExpected DEF Blocks
<1> HIDE DEF n
<1>4. Expectation = Within(Expected, None, None, "K", Extension("K", n), n, left, header.link)
  BY <1>1, <1>2 DEF Expectation, n
<1>5. Reading(Taken') =
        IF left = 1 THEN Idle(Expected, None, header.link)
        ELSE Within(Expected, None, None, "K", Extension("K", n), n, left - 1, header.link)
  <2>1. Reading(Taken') = ReadBlock(Expectation, Text(header.link, n - left + 1))
    BY <1>2, TookReading DEF WriterInv
  <2>2. Continues(Text(header.link, n - left + 1), "K", n, left, header.link)
    BY <1>2 DEF Continues, Text
  <2>3. Heard(Expected, "K", header.link) = Idle(Expected, None, header.link)
    BY DEF Heard
  <2>4. ReadBlock(Expectation, Text(header.link, n - left + 1))
          = IF left = 1 THEN Heard(Expected, "K", header.link)
            ELSE Within(Expected, None, None, "K", Extension("K", n), n, left - 1, header.link)
    BY <1>4, <2>2, TextRead
  <2>5. QED
    BY <2>1, <2>3, <2>4
<1>6. Expectation' = IF left' = 0 THEN Idle(Expected, None, header.link)
        ELSE Within(Expected, None, None, "K", Extension("K", n), n, left', header.link)
  BY <1>1, <1>2, <1>3 DEF Expectation
<1>7. QED
  BY <1>2, <1>5, <1>6 DEF Reads

LEMMA ReadsRecords ==
  ASSUME WriterInv, Reads, TakeRecords
  PROVE  Reads'
PROOF
<1> DEFINE n == RecordBlocks
           x == <<header.name, header.link>>
<1>1. /\ pc = "records" /\ pc' = "records" /\ UNCHANGED <<input, k, header, archived>>
  BY DEF TakeRecords, verdict
<1>2. /\ n \in Nat /\ left \in 1..n /\ left' = left - 1
      /\ Taken' = Append(Taken, Text(x, n - left + 1))
      /\ Text(x, n - left + 1) \in BlockSet
  <2>1. n \in Nat
    BY <1>1, InMember, LengthsOf DEF WriterInv, Between
  <2>2. QED
    BY <2>1, RecordsStep DEF WriterInv
<1>3. RecordBlocks' = n /\ Expected' = Expected /\ header' = header
  BY <1>1, SameNames, SameExpected
<1>4. x[1] = header.name /\ x[2] = header.link
  OBVIOUS
<1> HIDE DEF n
<1>5. Expectation = Within(Expected, None, None, "x", Extension("x", n), n, left, x)
  BY <1>1, <1>2 DEF Expectation, n
<1>6. Expectation' = IF left' = 0 THEN Idle(Expected, header.name, header.link)
        ELSE Within(Expected, None, None, "x", Extension("x", n), n, left', x)
  BY <1>1, <1>2, <1>3 DEF Expectation
<1> HIDE DEF x
<1>7. Reading(Taken') =
        IF left = 1 THEN Idle(Expected, x[1], x[2])
        ELSE Within(Expected, None, None, "x", Extension("x", n), n, left - 1, x)
  <2>1. Reading(Taken') = ReadBlock(Expectation, Text(x, n - left + 1))
    BY <1>2, TookReading DEF WriterInv
  <2>2. Continues(Text(x, n - left + 1), "x", n, left, x)
    BY <1>2 DEF Continues, Text
  <2>3. Heard(Expected, "x", x) = Idle(Expected, x[1], x[2])
    BY DEF Heard
  <2>4. ReadBlock(Expectation, Text(x, n - left + 1))
          = IF left = 1 THEN Heard(Expected, "x", x)
            ELSE Within(Expected, None, None, "x", Extension("x", n), n, left - 1, x)
    BY <1>5, <2>2, TextRead
  <2>5. QED
    BY <2>1, <2>3, <2>4
<1>8. QED
  BY <1>2, <1>4, <1>6, <1>7 DEF Reads

\* Several blocks of a body at once.
LEMMA ReadsBody ==
  ASSUME WriterInv, NamesInv, Reads, TakeBody
  PROVE  Reads'
PROOF
<1> DEFINE n == Smaller(left, Factor - used)
           L == Len(Taken)
           In(l) == Within(Expected, NamePending, LinkPending, "data", HeaderBlock,
                           header.size, l, header.name)
           End == Idle(Append(Expected, Archived(header)), None, None)
           At(i) == IF i < left THEN In(left - i) ELSE End
<1>1. /\ pc = "body" /\ pc' = "body" /\ UNCHANGED <<input, k, header, archived>>
      /\ left \in Nat /\ left > 0 /\ header.size \in Nat
  BY InMember DEF TakeBody, verdict, WriterInv, TypeOK, Between
<1>2. /\ Extends(Taken, Taken') /\ n \in Nat \ {0} /\ n <= left /\ left' = left - n
      /\ left <= header.size /\ Len(Taken') = L + n /\ L \in Nat
      /\ \A i \in 1..n : Taken'[L + i] = Data(header.name, header.size - left + i)
  BY TookBody DEF WriterInv, Extends
<1>3. /\ Expected' = Expected /\ NamePending' = NamePending /\ LinkPending' = LinkPending
      /\ HeaderBlock' = HeaderBlock /\ header' = header
      /\ Archived(header)' = Archived(header)
  BY <1>1, SameNames, SameExpected
<1>4. Expectation = In(left)
  BY <1>1 DEF Expectation
<1>5. Expectation' = IF left' > 0 THEN In(left') ELSE End
  <2>1. CASE left' > 0
    BY <1>1, <1>3, <2>1 DEF Expectation
  <2>2. CASE left' = 0
    BY <1>1, <1>3, <2>2 DEF Expectation
  <2>3. QED
    BY <1>1, <1>2, <2>1, <2>2
<1>6. PICK f : /\ f[L] = Reading(Taken) /\ f[L + n] = Reading(Taken')
               /\ \A i \in (L + 1)..(L + n) : f[i] = ReadBlock(f[i - 1], Taken'[i])
  <2>1. PICK f : /\ f[Len(Taken)] = Reading(Taken) /\ f[Len(Taken')] = Reading(Taken')
                 /\ \A i \in (Len(Taken) + 1)..Len(Taken') :
                      f[i] = ReadBlock(f[i - 1], Taken'[i])
    <3>1. Extends(Taken, Taken')
      BY <1>2
    <3>2. QED
      BY <3>1, ReadingAlong
  <2>2. QED
    BY <1>2, <2>1
<1>7. ASSUME NEW l \in 1..left, NEW b, b = Data(header.name, header.size - l + 1)
      PROVE  ReadBlock(In(l), b) = IF l = 1 THEN End ELSE In(l - 1)
  <2>1. Continues(b, "data", header.size, l, header.name)
    BY <1>1, <1>2, <1>7 DEF Continues, Data
  <2>2. ReadBlock(In(l), b)
          = IF l = 1 THEN Deliver(Amid(Expected, NamePending, LinkPending, "data",
                                       HeaderBlock, header.size, header.size, header.name))
            ELSE In(l - 1)
    BY <2>1, ReadNext
  <2>3. header.size > 0
    BY <1>1, <1>2
  <2>4. Deliver(Amid(Expected, NamePending, LinkPending, "data", HeaderBlock,
                     header.size, header.size, header.name)) = End
    BY <1>1, <2>3, BodyMakesMember
  <2>5. QED
    BY <2>2, <2>4
<1> HIDE DEF n, In, End
<1>8. \A i \in 0..n : f[L + i] = At(i)
  <2> DEFINE Bad == {i \in 0..n : f[L + i] # At(i)}
  <2>1. SUFFICES ASSUME Bad # {} PROVE FALSE
    OBVIOUS
  <2>2. PICK i \in Bad : \A y \in Bad : i <= y
    <3>1. Bad \in SUBSET Nat
      BY <1>2
    <3>2. QED
      BY <2>1, <3>1, LeastNumber
  <2>3. i # 0
    <3>1. f[L + 0] = In(left)
      BY <1>2, <1>4, <1>6 DEF Reads
    <3>2. QED
      BY <2>2, <3>1, <1>1
  <2>4. /\ i \in 1..n /\ i - 1 \in 0..n /\ i - 1 \notin Bad /\ i - 1 < left
        /\ left - (i - 1) \in 1..left /\ L + i \in (L + 1)..(L + n)
        /\ (L + i) - 1 = L + (i - 1)
    <3>1. i \in 1..n /\ i - 1 \in 0..n /\ ~(i <= i - 1)
      BY <1>2, <2>2, <2>3
    <3>2. i - 1 \notin Bad
      BY <2>2, <3>1
    <3>3. i \in Nat /\ n \in Nat /\ left \in Nat /\ L \in Nat /\ n <= left
      BY <1>1, <1>2, <3>1
    <3>4. QED
      BY <3>1, <3>2, <3>3
  <2>5. f[L + (i - 1)] = In(left - (i - 1))
    BY <2>4
  <2>6. Taken'[L + i] = Data(header.name, header.size - (left - (i - 1)) + 1)
    <3>1. header.size - (left - (i - 1)) + 1 = header.size - left + i
      BY <1>1, <1>2, <2>4
    <3>2. QED
      BY <1>2, <2>4, <3>1
  <2>7. f[L + i] = ReadBlock(In(left - (i - 1)), Taken'[L + i])
    BY <1>6, <2>4, <2>5
  <2>8. f[L + i] = IF left - (i - 1) = 1 THEN End ELSE In(left - (i - 1) - 1)
    BY <1>7, <2>4, <2>6, <2>7
  <2>9. f[L + i] = At(i)
    <3>1. CASE left - (i - 1) = 1
      BY <1>1, <2>4, <2>8, <3>1
    <3>2. CASE left - (i - 1) # 1
      <4>1. i < left /\ left - (i - 1) - 1 = left - i
        BY <1>1, <2>4, <3>2
      <4>2. QED
        BY <2>8, <3>2, <4>1
    <3>3. QED
      BY <3>1, <3>2
  <2>10. QED
    BY <2>2, <2>9
<1>9. f[L + n] = At(n)
  BY <1>2, <1>8
<1>10. QED
  <2>1. CASE left' > 0
    BY <1>1, <1>2, <1>5, <1>6, <1>9, <2>1 DEF Reads
  <2>2. CASE ~(left' > 0)
    BY <1>1, <1>2, <1>5, <1>6, <1>9, <2>2 DEF Reads
  <2>3. QED
    BY <2>1, <2>2

-----------------------------------------------------------------------------
\* The name of an extension, and the header it belongs to.
LEMMA ReadsExtension ==
  ASSUME WriterInv, Reads, TakeExtension
  PROVE  Reads'
PROOF
<1>1. pc = "extension" /\ UNCHANGED <<input, k, header, archived>>
  BY DEF TakeExtension, verdict
<1>2. /\ Expected' = Expected /\ header' = header /\ RecordBlocks' = RecordBlocks
      /\ Blocks(long_len)' = Blocks(long_len)
      /\ Blocks(header.linklen)' = Blocks(header.linklen)
  BY <1>1, SameNames, SameExpected DEF Blocks
<1>3. Expectation = Idle(Expected, None, None)
  BY <1>1 DEF Expectation
<1>4. ASSUME NEW t \in {"L", "K", "x"}, NEW n, ExtensionBlock(t, n), NEW x
      PROVE  /\ Reading(Taken') = Within(Expected, None, None, t, Extension(t, n), n, n, x)
             /\ left' = n /\ n > 0
  <2>1. /\ Extension(t, n) \in BlockSet /\ n \in Nat \ {0} /\ left' = n
        /\ Taken' = Append(Taken, Extension(t, n))
    BY <1>4 DEF ExtensionBlock
  <2>2. Reading(Taken') = ReadBlock(Idle(Expected, None, None), Extension(t, n))
    BY <1>3, <2>1, TookReading DEF WriterInv
  <2>3. QED
    BY <2>1, <2>2, ReadAnnounced
<1>5. CASE pc' = "records" /\ ExtensionBlock("x", RecordBlocks)
  <2>1. left' = RecordBlocks /\ RecordBlocks > 0
    BY <1>4, <1>5
  <2>2. Expectation' = Within(Expected, None, None, "x", Extension("x", RecordBlocks),
                              RecordBlocks, RecordBlocks, <<header.name, header.link>>)
    BY <1>2, <1>5, <2>1 DEF Expectation
  <2>3. QED
    BY <1>4, <1>5, <2>2 DEF Reads
<1>6. CASE pc' = "long_name" /\ ExtensionBlock("L", Blocks(long_len))
  <2>1. left' = Blocks(long_len) /\ Blocks(long_len) > 0
    BY <1>4, <1>6
  <2>2. Expectation' = Within(Expected, None, None, "L", Extension("L", Blocks(long_len)),
                              Blocks(long_len), Blocks(long_len), header.name)
    BY <1>2, <1>6, <2>1 DEF Expectation
  <2>3. QED
    BY <1>4, <1>6, <2>2 DEF Reads
<1>7. CASE pc' = "long_link" /\ ExtensionBlock("K", Blocks(header.linklen))
  <2>1. left' = Blocks(header.linklen) /\ Blocks(header.linklen) > 0
    BY <1>4, <1>7
  <2>2. Expectation' = Within(Expected, None, None, "K",
                              Extension("K", Blocks(header.linklen)),
                              Blocks(header.linklen), Blocks(header.linklen), header.link)
    BY <1>2, <1>7, <2>1 DEF Expectation
  <2>3. QED
    BY <1>4, <1>7, <2>2 DEF Reads
<1>8. QED
  BY <1>5, <1>6, <1>7, ExtensionTaken DEF WriterInv

LEMMA ReadsDone ==
  ASSUME OneLongName, WriterInv, Distinct, NamesInv, Reads, LongNameDone \/ TextDone
  PROVE  Reads'
PROOF
<1>1. /\ pc \in {"long_name", "long_link", "records"} /\ left = 0 /\ pc' = "header"
      /\ UNCHANGED <<record, input, k, header, archived>>
  BY LongNameOnly DEF TextDone, verdict
<1>2. /\ Expected' = Expected /\ NamePending' = NamePending /\ LinkPending' = LinkPending
  BY <1>1, SameNames, SameExpected
<1>3. Taken' = Taken
  BY <1>1 DEF record, output, Taken
<1>4. Expectation' = Idle(Expected, NamePending, LinkPending)
  BY <1>1, <1>2 DEF Expectation
<1>5. CASE pc = "long_name"
  <2>1. extensions = "gnu" /\ header.cut /\ ~truncated_link
    BY <1>5, NotBoth DEF WriterInv, WhereInv, Between
  <2>2. Expectation = Idle(Expected, header.name, None)
    BY <1>1, <1>5 DEF Expectation
  <2>3. NamePending = header.name /\ LinkPending = None
    BY <2>1 DEF NamePending, LinkPending
  <2>4. QED
    BY <1>3, <1>4, <2>2, <2>3 DEF Reads
<1>6. CASE pc = "long_link"
  <2>1. extensions = "gnu" /\ ~header.cut /\ truncated_link
    BY <1>6 DEF WriterInv, WhereInv, NamesInv
  <2>2. Expectation = Idle(Expected, None, header.link)
    BY <1>1, <1>6 DEF Expectation
  <2>3. NamePending = None /\ LinkPending = header.link
    BY <2>1 DEF NamePending, LinkPending
  <2>4. QED
    BY <1>3, <1>4, <2>2, <2>3 DEF Reads
<1>7. CASE pc = "records"
  <2>1. extensions = "pax" /\ (header.cut \/ truncated_link)
    BY <1>7 DEF WriterInv, WhereInv
  <2>2. Expectation = Idle(Expected, header.name, header.link)
    BY <1>1, <1>7 DEF Expectation
  <2>3. NamePending = header.name /\ LinkPending = header.link
    BY <2>1 DEF NamePending, LinkPending
  <2>4. QED
    BY <1>3, <1>4, <2>2, <2>3 DEF Reads
<1>8. QED
  BY <1>1, <1>5, <1>6, <1>7

\* The header itself.
LEMMA ReadsHeader ==
  ASSUME WriterInv, NamesInv, Reads, TakeHeader
  PROVE  Reads'
PROOF
<1>1. /\ pc = "header" /\ UNCHANGED <<input, header>> /\ header \in Headers
      /\ archived \in Seq(Headers) /\ header.size \in Nat
  BY InMember DEF TakeHeader, WriterInv, TypeOK, Between
<1> DEFINE One == Append(Expected, Archived(header))
<1>2. Reading(Taken') =
        IF header.type = "0" /\ header.size > 0
        THEN Within(Expected, NamePending, LinkPending, "data", HeaderBlock, header.size,
                    header.size, header.name)
        ELSE Idle(One, None, None)
  <2>1. Expectation = Idle(Expected, NamePending, LinkPending)
    BY <1>1 DEF Expectation
  <2>2. Reading(Taken') = ReadBlock(Idle(Expected, NamePending, LinkPending), HeaderBlock)
    BY <2>1, HeaderTaken, TookReading DEF WriterInv
  <2>3. QED
    BY <1>1, <2>2, HeaderMakesMember
<1> HIDE DEF One
<1>3. CASE header.type = "0"
  <2>1. pc' = "body" /\ left' = header.size /\ UNCHANGED <<k, archived>>
    BY <1>3 DEF TakeHeader
  <2>2. /\ Expected' = Expected /\ NamePending' = NamePending
        /\ LinkPending' = LinkPending /\ HeaderBlock' = HeaderBlock /\ header' = header
        /\ Archived(header)' = Archived(header)
    BY <1>1, <2>1, SameNames, SameExpected
  <2>3. CASE header.size > 0
    <3>1. Expectation' = Within(Expected, NamePending, LinkPending, "data", HeaderBlock,
                                header.size, header.size, header.name)
      BY <2>1, <2>2, <2>3 DEF Expectation
    <3>2. QED
      BY <1>2, <1>3, <2>3, <3>1 DEF Reads
  <2>4. CASE header.size = 0
    <3>1. Expectation' = Idle(One, None, None)
      BY <2>1, <2>2, <2>4 DEF Expectation, One
    <3>2. QED
      BY <1>2, <2>4, <3>1 DEF Reads
  <2>5. QED
    BY <1>1, <2>3, <2>4
<1>4. CASE header.type # "0"
  <2>1. archived' = Append(archived, header) /\ pc' \in {"begin", "finish"}
    BY <1>4 DEF TakeHeader, Success, Return
  <2>2. Expected' = One
    BY <1>1, <2>1, OneMoreArchived DEF One
  <2>3. Expectation' = Idle(One, None, None)
    BY <2>1, <2>2 DEF Expectation
  <2>4. QED
    BY <1>2, <1>4, <2>3 DEF Reads
<1>5. QED
  BY <1>3, <1>4

\* A reader keeps up with the writer, but where a flush or a read fails.
LEMMA ReadsStep ==
  ASSUME OneLongName, WriterInv, Distinct, FreshInv, NamesInv, Reads, [Next]_vars,
         ~FlushForRoomFails, ~BodyFlushFails, ~ReadFails
  PROVE  Reads'
PROOF
<1>1. ASSUME UNCHANGED <<pc, left, input, k, header, archived>>, Taken' = Taken
      PROVE  Reads'
  <2>1. /\ Expected' = Expected /\ NamePending' = NamePending
        /\ LinkPending' = LinkPending /\ HeaderBlock' = HeaderBlock /\ header' = header
        /\ RecordBlocks' = RecordBlocks /\ Blocks(long_len)' = Blocks(long_len)
        /\ Blocks(header.linklen)' = Blocks(header.linklen)
        /\ Archived(header)' = Archived(header)
    BY <1>1, SameNames, SameExpected DEF Blocks
  <2>2. Expectation' = Expectation
    BY <1>1, <2>1 DEF Expectation
  <2>3. QED
    BY <1>1, <2>2 DEF Reads
<1>2. ASSUME pc \in Between, pc' \in Between, UNCHANGED archived,
             Reading(Taken') = Reading(Taken)
      PROVE  Reads'
  <2>1. Expectation = Idle(Expected, None, None)
    BY <1>2 DEF Expectation, Between
  <2>2. Expectation' = Idle(Expected, None, None)
    BY <1>2, SameExpected DEF Expectation, Between
  <2>3. QED
    BY <1>2, <2>1, <2>2 DEF Reads
<1>3. UNCHANGED Kept \/ UNCHANGED record => Taken' = Taken
  BY DEF Kept, record, output, Taken
<1>4. CASE NameTooLong \/ UserLookupFails \/ ReadlinkFails \/ FinishFlushFails
  <2>1. pc \in Between /\ pc' \in Between /\ UNCHANGED <<Kept, archived>>
    BY <1>4 DEF NameTooLong, UserLookupFails, ReadlinkFails, FinishFlushFails, Begin,
      Return, Between, PartlySent, record, output, Kept
  <2>2. QED
    BY <1>2, <1>3, <2>1
<1>5. CASE Proceed
  <2>1. /\ pc = "begin" /\ UNCHANGED <<record, archived>> /\ pc' \in {"extension", "header"}
        /\ pc' = "header" => ~(header'.cut \/ header'.linklen > 100)
    BY <1>5 DEF Proceed, Begin
  <2>2. Expectation = Idle(Expected, None, None) /\ Expected' = Expected
    BY <2>1, SameExpected DEF Expectation
  <2>3. CASE pc' = "extension"
    <3>1. Expectation' = Idle(Expected, None, None)
      BY <2>2, <2>3 DEF Expectation
    <3>2. QED
      BY <1>3, <2>1, <2>2, <3>1 DEF Reads
  <2>4. CASE pc' = "header"
    <3>1. NamePending' = None /\ LinkPending' = None
      BY <2>1, <2>4 DEF NamePending, LinkPending, truncated_link
    <3>2. Expectation' = Idle(Expected, None, None)
      BY <2>2, <2>4, <3>1 DEF Expectation
    <3>3. QED
      BY <1>3, <2>1, <2>2, <3>2 DEF Reads
  <2>5. QED
    BY <2>1, <2>3, <2>4
<1>6. CASE FlushForRoom \/ FlushInBody
  <2>1. /\ WriteOut /\ used = Factor
        /\ UNCHANGED <<pc, left, input, k, header, archived>>
    BY <1>6 DEF FlushForRoom, FlushInBody, member, verdict
  <2>2. QED
    BY <1>1, <2>1, WroteOut DEF WriterInv
<1>7. CASE BodyDone
  <2>1. /\ pc = "body" /\ left = 0 /\ UNCHANGED record /\ pc' \in {"begin", "finish"}
        /\ archived' = Append(archived, header)
        /\ archived \in Seq(Headers) /\ header \in Headers
    BY <1>7, InMember DEF BodyDone, Success, Return, WriterInv, TypeOK, Between
  <2>2. Expectation = Idle(Append(Expected, Archived(header)), None, None)
    BY <2>1 DEF Expectation
  <2>3. Expected' = Append(Expected, Archived(header))
    BY <2>1, OneMoreArchived
  <2>4. Expectation' = Idle(Expected', None, None)
    BY <2>1 DEF Expectation
  <2>5. QED
    BY <1>3, <2>1, <2>2, <2>3, <2>4 DEF Reads
<1>8. CASE Finish
  <2>1. /\ pc = "finish" /\ pc' = "finished" /\ UNCHANGED archived
        /\ UNCHANGED record \/ WriteOut
    BY <1>8 DEF Finish
  <2>2. ASSUME WriteOut PROVE Reading(Taken') = Reading(Taken)
    <3>1. Extends(Taken, Taken')
          /\ \A i \in (Len(Taken) + 1)..Len(Taken') : Taken'[i] = Zero
      BY <2>2, WroteOut DEF WriterInv
    <3>2. Expectation = Idle(Expected, None, None)
      BY <2>1 DEF Expectation
    <3>3. Reading(Taken).due = "header"
      BY <3>2 DEF Reads, Idle
    <3>4. QED
      BY <3>1, <3>3, ReadingZeros
  <2>3. QED
    BY <1>2, <1>3, <2>1, <2>2 DEF Between
<1>9. CASE UNCHANGED vars
  BY <1>1, <1>3, <1>9 DEF vars, input, Kept
<1>10. QED
  BY <1>4, <1>5, <1>6, <1>7, <1>8, <1>9, ReadsExtension, ReadsLongName, ReadsLongLink,
     ReadsRecords, ReadsDone, ReadsHeader, ReadsBody DEF Next, Step, Fault, Terminated

\* Only finish() ends the archive.
LEMMA EndsInFinish ==
  ASSUME TypeOK, WhereInv, [Next]_vars, pc' = "finished"
  PROVE  Finish \/ FinishFlushFails \/ UNCHANGED vars
PROOF
<1>1. ASSUME Proceed \/ NameTooLong \/ UserLookupFails \/ ReadlinkFails
             \/ FlushForRoomFails \/ BodyFlushFails \/ ReadFails \/ BodyDone \/ TakeHeader
      PROVE  FALSE
  BY <1>1 DEF Proceed, NameTooLong, UserLookupFails, ReadlinkFails, FlushForRoomFails,
    BodyFlushFails, ReadFails, BodyDone, TakeHeader, Success, Return
<1>2. ASSUME FlushForRoom \/ TakeLongName \/ TakeLongLink \/ TakeRecords
             \/ FlushInBody \/ TakeBody
      PROVE  FALSE
  BY <1>2 DEF FlushForRoom, TakeLongName, TakeLongLink, TakeRecords, FlushInBody,
    TakeBody, Needing
<1>3. ASSUME TakeExtension \/ LongNameDone \/ TextDone
      PROVE  FALSE
  BY <1>3, ExtensionCases DEF LongNameDone, TextDone, Encode
<1>4. QED
  BY <1>1, <1>2, <1>3 DEF Next, Step, Fault, Terminated

\* If nothing fails once the name is in the hard link cache, a reader keeps up to
\* the end.
ReaderInv ==
  /\ Distinct /\ FreshInv /\ NamesInv
  /\ Undisturbed => Reads /\ (pc = "finished" => used = 0)

LEMMA ReaderStep ==
  ASSUME OneLongName, WriterInv, ReaderInv, [Next]_vars
  PROVE  ReaderInv'
PROOF
<1>1. Distinct' /\ FreshInv' /\ NamesInv' /\ UNCHANGED input
  BY InputStays, Growth, NamesStep DEF ReaderInv
<1>2. ASSUME Undisturbed'
      PROVE  Reads' /\ (pc' = "finished" => used' = 0)
  <2>1. Undisturbed
    BY <1>1, <1>2 DEF Undisturbed, input
  <2>2. ~FlushForRoomFails /\ ~BodyFlushFails /\ ~ReadFails /\ ~FinishFlushFails
    BY <2>1 DEF Undisturbed, FlushForRoomFails, BodyFlushFails, ReadFails,
      FinishFlushFails
  <2>3. Reads'
    BY <2>1, <2>2, ReadsStep DEF ReaderInv
  <2>4. ASSUME pc' = "finished" PROVE used' = 0
    <3>1. Finish \/ UNCHANGED vars
      BY <2>1, <2>2, <2>4, EndsInFinish DEF WriterInv
    <3>2. CASE Finish
      BY <3>2 DEF Finish, record, WriteOut
    <3>3. CASE UNCHANGED vars
      <4>1. pc = "finished" /\ used' = used
        BY <2>4, <3>3 DEF vars
      <4>2. QED
        BY <2>1, <4>1 DEF ReaderInv
    <3>4. QED
      BY <3>1, <3>2, <3>3
  <2>5. QED
    BY <2>3, <2>4
<1>3. QED
  BY <1>1, <1>2 DEF ReaderInv

LEMMA ReadsInitially == Init => Reads
PROOF
<1>1. SUFFICES ASSUME Init PROVE Reads
  OBVIOUS
<1>2. /\ pc = "begin" /\ archived = <<>> /\ flushed = <<>> /\ used = 0 /\ data = Blank
  BY <1>1 DEF Init
<1>3. Taken = <<>>
  <2>1. WriterInv
    BY <1>1, WriterInitially
  <2>2. Taken \in Seq(BlockSet) /\ Len(Taken) = 0
    BY <1>2, <2>1, TakenSeq, EmptySeq DEF WriterInv
  <2>3. QED
    BY <2>2, EmptySeq
<1>4. Expected = <<>>
  <2>1. DOMAIN archived = {}
    BY <1>2
  <2>2. QED
    BY <2>1, <1>2 DEF Expected
<1>5. QED
  BY <1>2, <1>3, <1>4, ReadingEmpty, StartIdle DEF Reads, Expectation

LEMMA ReaderHolds ==
  ASSUME OneLongName
  PROVE  Spec => []ReaderInv
PROOF
<1>1. Init => ReaderInv
  BY ReadsInitially DEF ReaderInv, Distinct, FreshInv, Blank, NamesInv, Init
<1>2. WriterInv /\ ReaderInv /\ [Next]_vars => ReaderInv'
  BY ReaderStep
<1>3. QED
  BY <1>1, <1>2, TypeCorrect, PTL DEF Spec

\* A reader finds what write_file() archived, each member with its full name, type,
\* link and body, if no GNU member needs two long names and nothing fails.
THEOREM RoundTripHolds ==
  ASSUME OneLongName
  PROVE  Spec => []RoundTrip
PROOF
<1>1. WriterInv /\ ReaderInv => RoundTrip
  <2>1. SUFFICES ASSUME WriterInv, ReaderInv, pc = "finished", Undisturbed
                 PROVE  Members(stream) = Expected
    BY DEF RoundTrip
  <2>2. Reads /\ used = 0
    BY <2>1 DEF ReaderInv
  <2>3. Taken = stream
    <3>1. /\ Taken \in Seq(BlockSet) /\ Len(Taken) = Len(flushed) + 0
          /\ Len(flushed) \in Nat /\ flushed \in Seq(BlockSet)
          /\ \A i \in 1..Len(flushed) : Taken[i] = flushed[i]
      BY <2>1, <2>2, TakenSeq DEF WriterInv, RecordOK
    <3>2. Len(Taken) = Len(flushed) /\ \A i \in 1..Len(Taken) : Taken[i] = flushed[i]
      BY <3>1
    <3>3. Taken = flushed
      BY <3>1, <3>2, SeqEqual
    <3>4. stream = flushed
      BY <2>1 DEF Undisturbed, WriterInv, OutputOK
    <3>5. QED
      BY <3>3, <3>4
  <2>4. Reading(stream) = Idle(Expected, None, None)
    BY <2>1, <2>2, <2>3 DEF Reads, Expectation
  <2>5. QED
    BY <2>4 DEF Members, Idle
<1>2. QED
  BY <1>1, ReaderHolds, TypeCorrect, PTL

-----------------------------------------------------------------------------
\* Blocks that builder->total does not count yet.
Uncounted ==
  CASE pc = "long_name" -> Blocks(long_len) - left
    [] pc = "long_link" -> Blocks(header.linklen) - left
    [] pc = "records"   -> RecordBlocks - left
    [] pc = "body"      -> header.size - left
    [] OTHER            -> 0
CountInv == Undisturbed /\ pc # "finished" => Len(Taken) = total + Uncounted

LEMMA CountStep ==
  ASSUME OneLongName, WriterInv, Distinct, CountInv, [Next]_vars
  PROVE  CountInv'
PROOF
<1> USE DEF WriterInv
<1>1. SUFFICES ASSUME Undisturbed', pc' # "finished"
               PROVE  Len(Taken') = total' + Uncounted'
  BY DEF CountInv
<1>2. Undisturbed
  BY <1>1, InputStays DEF Undisturbed, input
<1>3. /\ ~FlushForRoomFails /\ ~BodyFlushFails /\ ~ReadFails /\ ~FinishFlushFails
      /\ ~UserLookupFails /\ ~Finish
  BY <1>1, <1>2 DEF Undisturbed, FlushForRoomFails, BodyFlushFails, ReadFails,
    FinishFlushFails, UserLookupFails, Finish
<1>4. /\ Taken \in Seq(BlockSet) /\ Len(Taken) \in Nat /\ total \in Nat /\ left \in Nat
      /\ UNCHANGED record => Taken' = Taken
  BY TakenSeq, LenProperties DEF TypeOK, record, output, Taken
<1>5. ASSUME NEW b \in BlockSet, Taken' = Append(Taken, b)
      PROVE  Len(Taken') = Len(Taken) + 1
  BY <1>4, <1>5, AppendProperties
<1>6. pc \notin Between =>
        /\ Blocks(long_len) \in Nat /\ Blocks(header.linklen) \in Nat
        /\ RecordBlocks \in Nat /\ header.size \in Nat
  BY InMember, LengthsOf
<1>7. UNCHANGED <<input, k, header>> =>
        /\ Blocks(long_len)' = Blocks(long_len) /\ RecordBlocks' = RecordBlocks
        /\ Blocks(header.linklen)' = Blocks(header.linklen) /\ header' = header
  BY SameNames DEF Blocks
<1>8. ASSUME pc \in {"begin", "extension", "header"}, UNCHANGED <<record, total>>,
             pc' \in {"begin", "finish", "extension", "header"}
      PROVE  Len(Taken') = total' + Uncounted'
  BY <1>2, <1>4, <1>8 DEF CountInv, Uncounted
<1>9. CASE Proceed \/ NameTooLong \/ ReadlinkFails
  BY <1>8, <1>9 DEF Proceed, NameTooLong, ReadlinkFails, Begin, Return
<1>10. ASSUME UNCHANGED <<pc, left, total, input, k, header>>, Taken' = Taken
       PROVE  Len(Taken') = total' + Uncounted'
  <2>1. Uncounted' = Uncounted
    BY <1>7, <1>10 DEF Uncounted
  <2>2. QED
    BY <1>1, <1>2, <1>10, <2>1 DEF CountInv
<1>11. CASE FlushForRoom \/ FlushInBody
  <2>1. WriteOut /\ used = Factor /\ UNCHANGED <<pc, left, total, input, k, header>>
    BY <1>11 DEF FlushForRoom, FlushInBody, member
  <2>2. QED
    BY <1>10, <2>1, WroteOut
<1>12. CASE TakeExtension
  <2>1. pc = "extension" /\ UNCHANGED <<input, k, header>> /\ total' = total + 1
    BY <1>12, ExtensionTaken DEF TakeExtension
  <2>2. Len(Taken) = total
    BY <1>2, <1>4, <2>1 DEF CountInv, Uncounted
  <2>3. Len(Taken') = Len(Taken) + 1
    BY <1>5, <1>12, ExtensionTaken DEF ExtensionBlock
  <2>4. Uncounted' = 0
    BY <1>6, <1>7, <1>12, <2>1, ExtensionCases DEF Uncounted, Between
  <2>5. QED
    BY <1>4, <2>1, <2>2, <2>3, <2>4
<1>13. CASE TakeLongName
  <2>1. pc = "long_name" /\ pc' = "long_name" /\ UNCHANGED <<input, k, header, total>>
        /\ left' = left - 1 /\ Len(Taken') = Len(Taken) + 1
    BY <1>5, <1>13, LongNameStep DEF TakeLongName
  <2>2. QED
    BY <1>2, <1>4, <1>6, <1>7, <2>1, SMTT(30) DEF CountInv, Uncounted, Between
<1>14. CASE TakeLongLink
  <2>1. pc = "long_link" /\ pc' = "long_link" /\ UNCHANGED <<input, k, header, total>>
        /\ left' = left - 1 /\ Len(Taken') = Len(Taken) + 1
    BY <1>5, <1>14, LongLinkStep DEF TakeLongLink
  <2>2. QED
    BY <1>2, <1>4, <1>6, <1>7, <2>1 DEF CountInv, Uncounted, Between
<1>15. CASE TakeRecords
  <2>1. pc = "records" /\ pc' = "records" /\ UNCHANGED <<input, k, header, total>>
        /\ left' = left - 1 /\ Len(Taken') = Len(Taken) + 1
    BY <1>5, <1>15, RecordsStep DEF TakeRecords
  <2>2. QED
    BY <1>2, <1>4, <1>6, <1>7, <2>1 DEF CountInv, Uncounted, Between
<1>16. CASE LongNameDone
  <2>1. /\ pc = "long_name" /\ left = 0 /\ pc' = "header"
        /\ total' = total + Blocks(long_len) /\ Taken' = Taken
    BY <1>4, <1>16, LongNameOnly
  <2>2. QED
    BY <1>2, <1>4, <1>6, <2>1 DEF CountInv, Uncounted, Between
<1>17. CASE TextDone
  <2>1. /\ pc \in {"long_link", "records"} /\ left = 0 /\ pc' = "header" /\ Taken' = Taken
        /\ pc = "records" => total' = total + RecordBlocks
        /\ pc = "long_link" => total' = total + Blocks(header.linklen)
    BY <1>4, <1>17 DEF TextDone
  <2>2. QED
    BY <1>2, <1>4, <1>6, <2>1 DEF CountInv, Uncounted, Between
<1>18. CASE TakeHeader
  <2>1. /\ pc = "header" /\ total' = total + 1 /\ UNCHANGED <<input, header>>
        /\ Len(Taken') = Len(Taken) + 1
    BY <1>5, <1>18, HeaderTaken DEF TakeHeader
  <2>2. Uncounted' = 0
    <3>1. CASE header.type = "0"
      BY <1>6, <1>18, <2>1, <3>1 DEF TakeHeader, Uncounted, Between
    <3>2. CASE header.type # "0"
      BY <1>18, <3>2 DEF TakeHeader, Success, Return, Uncounted
    <3>3. QED
      BY <3>1, <3>2
  <2>3. QED
    BY <1>2, <1>4, <2>1, <2>2 DEF CountInv, Uncounted
<1>19. CASE TakeBody
  <2>1. PICK n \in Nat : left' = left - n /\ Len(Taken') = Len(Taken) + n
    BY <1>19, TookBody
  <2>2. pc = "body" /\ pc' = "body" /\ UNCHANGED <<header, total>>
    BY <1>19 DEF TakeBody
  <2>3. QED
    BY <1>2, <1>4, <1>6, <2>1, <2>2, SMTT(30) DEF CountInv, Uncounted, Between
<1>20. CASE BodyDone
  <2>1. /\ pc = "body" /\ left = 0 /\ total' = total + header.size /\ Taken' = Taken
        /\ pc' \in {"begin", "finish"}
    BY <1>4, <1>20 DEF BodyDone, Success, Return
  <2>2. QED
    BY <1>2, <1>4, <1>6, <2>1 DEF CountInv, Uncounted, Between
<1>21. CASE UNCHANGED vars
  BY <1>4, <1>10, <1>21 DEF vars, record, output, input
<1>22. QED
  BY <1>3, <1>9, <1>11, <1>12, <1>13, <1>14, <1>15, <1>16, <1>17, <1>18, <1>19, <1>20,
     <1>21 DEF Next, Step, Fault, Terminated

\* builder->total is the length of the archive so far, in blocks.
THEOREM TotalCountsHolds ==
  ASSUME OneLongName
  PROVE  Spec => []TotalCounts
PROOF
<1>1. Init => CountInv
  <2>1. SUFFICES ASSUME Init PROVE CountInv
    OBVIOUS
  <2>2. pc = "begin" /\ total = 0 /\ used = 0 /\ flushed = <<>>
    BY <2>1 DEF Init
  <2>3. Len(Taken) = 0
    BY <2>1, <2>2, WriterInitially, TakenSeq, EmptySeq DEF WriterInv
  <2>4. QED
    BY <2>2, <2>3 DEF CountInv, Uncounted
<1>2. WriterInv /\ ReaderInv /\ CountInv /\ [Next]_vars => CountInv'
  BY CountStep DEF ReaderInv
<1>3. WriterInv /\ CountInv => TotalCounts
  BY DEF WriterInv, TypeOK, CountInv, TotalCounts, Uncounted
<1>4. QED
  BY <1>1, <1>2, <1>3, ReaderHolds, TypeCorrect, PTL DEF Spec

-----------------------------------------------------------------------------
\* The first link to an inode is archived, or about to be, before another names
\* it, or neither of them can be.
FirstIn(a, n) == \E i \in DOMAIN a : a[i].type = "0" /\ a[i].name = n
Ahead(p, h, a, n) ==
  FirstIn(a, n) \/ (p \notin Between /\ h.type = "0" /\ h.name = n)
Unnameable(e, fs, n) ==
  e = "none" /\ \E j \in DOMAIN fs : fs[j].name = n /\ fs[j].len > 100
LinkInv ==
  Undisturbed =>
    /\ \A i \in DOMAIN cache : cache[i] # None =>
         Ahead(pc, header, archived, cache[i]) \/ Unnameable(extensions, files, cache[i])
    /\ pc \notin Between /\ header.type = "1" => FirstIn(archived, header.link)
    /\ \A i \in DOMAIN archived : archived[i].type = "1" =>
         \E j \in 1..(i - 1) :
           archived[j].type = "0" /\ archived[j].name = archived[i].link

LEMMA LinkedHeader ==
  ASSUME TypeOK, CacheInv, pc = "begin"
  PROVE  /\ header_for_file.name = file.name /\ header_for_file.cut = file.cut
         /\ ~Linked => /\ header_for_file.type = file.type
                       /\ header_for_file.linklen = file.destlen
         /\ Linked => /\ header_for_file.type = "1"
                      /\ header_for_file.link = cache[file.inode]
                      /\ \A j \in DOMAIN files : files[j].name = cache[file.inode]
                           => header_for_file.linklen = files[j].len
PROOF
<1> DEFINE first == CHOOSE f \in ToSet(files) : f.name = cache[file.inode]
<1>1. header_for_file = [name    |-> file.name, cut |-> file.cut, size |-> file.blocks,
                         type    |-> IF Linked THEN "1" ELSE file.type,
                         link    |-> IF Linked THEN first.name ELSE file.dest,
                         linklen |-> IF Linked THEN first.len ELSE file.destlen]
  BY DEF header_for_file
<1>2. ASSUME Linked
      PROVE  /\ first.name = cache[file.inode]
             /\ \A j \in DOMAIN files : files[j].name = cache[file.inode]
                  => first.len = files[j].len
  <2>1. k \in DOMAIN files /\ cache[file.inode] # None
    BY <1>2 DEF TypeOK, Linked
  <2>2. PICK i \in DOMAIN files : files[i].name = cache[file.inode]
    BY <2>1, FileFacts DEF CacheInv, file
  <2>3. first \in ToSet(files) /\ first.name = cache[file.inode]
    BY <2>2 DEF ToSet
  <2>4. PICK l \in DOMAIN files : first = files[l]
    BY <2>3 DEF ToSet
  <2>5. \A j \in DOMAIN files : files[j].name = cache[file.inode] => first = files[j]
    BY <2>3, <2>4, FileFacts
  <2>6. QED
    BY <2>3, <2>5
<1> HIDE DEF first
<1>3. QED
  BY <1>1, <1>2

LEMMA ArchivedMore ==
  ASSUME archived \in Seq(Headers), header \in Headers, archived' = Append(archived, header)
  PROVE  /\ DOMAIN archived = 1..Len(archived) /\ Len(archived) \in Nat
         /\ archived' \in Seq(Headers) /\ Len(archived') = Len(archived) + 1
         /\ DOMAIN archived' = 1..(Len(archived) + 1)
         /\ archived'[Len(archived) + 1] = header
         /\ \A i \in DOMAIN archived : i \in DOMAIN archived' /\ archived'[i] = archived[i]
PROOF
<1> DEFINE n == Len(archived)
<1>1. DOMAIN archived = 1..n /\ n \in Nat
  BY LenProperties
<1>2. /\ archived' \in Seq(Headers) /\ Len(archived') = n + 1
      /\ archived'[n + 1] = header /\ \A i \in 1..n : archived'[i] = archived[i]
  BY AppendProperties
<1>3. DOMAIN archived' = 1..(n + 1)
  BY <1>2, LenProperties
<1>4. QED
  BY <1>1, <1>2, <1>3

LEMMA LinkStep ==
  ASSUME WriterInv, LinkInv, [Next]_vars
  PROVE  LinkInv'
PROOF
<1> USE DEF WriterInv
<1>1. SUFFICES ASSUME Undisturbed' PROVE LinkInv'
  BY DEF LinkInv
<1>2. Undisturbed /\ UNCHANGED <<extensions, files>>
  BY <1>1, InputStays DEF Undisturbed, input
<1>3. /\ ~FlushForRoomFails /\ ~BodyFlushFails /\ ~ReadFails /\ ~FinishFlushFails
      /\ ~UserLookupFails
  BY <1>1, <1>2 DEF Undisturbed, FlushForRoomFails, BodyFlushFails, ReadFails,
    FinishFlushFails, UserLookupFails, input
<1>4. /\ \A i \in DOMAIN cache : cache[i] # None =>
           Ahead(pc, header, archived, cache[i]) \/ Unnameable(extensions, files, cache[i])
      /\ pc \notin Between /\ header.type = "1" => FirstIn(archived, header.link)
      /\ \A i \in DOMAIN archived : archived[i].type = "1" =>
           \E j \in 1..(i - 1) :
             archived[j].type = "0" /\ archived[j].name = archived[i].link
  BY <1>2 DEF LinkInv
<1>5. ASSUME UNCHANGED <<header, archived, cache>>,
             pc \notin Between => pc' \notin Between, pc \in Between => pc' \in Between
      PROVE  LinkInv'
  BY <1>2, <1>4, <1>5 DEF LinkInv, Ahead
<1>6. ASSUME pc \in Between, NEW n, Ahead(pc, header, archived, n), UNCHANGED archived
      PROVE  Ahead(pc', header', archived', n)
  BY <1>6 DEF Ahead
<1>7. ASSUME Begin
      PROVE  /\ pc = "begin" /\ k \in DOMAIN files /\ header' = header_for_file
             /\ IsFile(file) /\ UNCHANGED archived
             /\ \A i \in DOMAIN cache' : cache'[i] # None =>
                  \/ i \in DOMAIN cache /\ cache'[i] = cache[i]
                  \/ cache'[i] = file.name /\ file.type = "0" /\ ~Linked
  <2>1. /\ pc = "begin" /\ k \in DOMAIN files /\ header' = header_for_file
        /\ UNCHANGED archived /\ cache \in [{f.inode : f \in ToSet(files)} -> Strings]
    BY <1>7 DEF Begin, TypeOK
  <2>2. cache' = cache
        \/ (cache' = [cache EXCEPT ![file.inode] = file.name]
            /\ file.type = "0" /\ ~Linked)
    BY <1>7 DEF Begin, IsHardlink
  <2>3. IsFile(file)
    BY <2>1, FileFacts DEF file
  <2>4. QED
    BY <2>1, <2>2, <2>3
<1>8. CASE Proceed
  <2>1. /\ Begin /\ pc' \in {"extension", "header"} /\ pc' \notin Between
        /\ header'.cut \/ header'.linklen > 100 => extensions # "none"
    BY <1>8 DEF Proceed, Between
  <2>2. ASSUME NEW i \in DOMAIN cache', cache'[i] # None
        PROVE  Ahead(pc', header', archived', cache'[i])
               \/ Unnameable(extensions, files, cache'[i])
    <3>1. CASE i \in DOMAIN cache /\ cache'[i] = cache[i]
      BY <1>4, <1>6, <1>7, <2>1, <2>2, <3>1 DEF Between
    <3>2. CASE cache'[i] = file.name /\ file.type = "0" /\ ~Linked
      <4>1. header'.type = "0" /\ header'.name = cache'[i]
        BY <1>7, <2>1, <3>2, LinkedHeader
      <4>2. QED
        BY <2>1, <4>1 DEF Ahead
    <3>3. QED
      BY <1>7, <2>1, <2>2, <3>1, <3>2
  <2>3. ASSUME header'.type = "1" PROVE FirstIn(archived', header'.link)
    <3>1. Linked
      BY <1>7, <2>1, <2>3, LinkedHeader DEF IsFile
    <3>2. /\ header'.link = cache[file.inode]
          /\ \A j \in DOMAIN files : files[j].name = cache[file.inode]
               => header'.linklen = files[j].len
      BY <1>7, <2>1, <3>1, LinkedHeader
    <3>3. Ahead(pc, header, archived, cache[file.inode])
          \/ Unnameable(extensions, files, cache[file.inode])
      <4>1. file.inode \in DOMAIN cache /\ cache[file.inode] # None
        BY <1>7, <2>1, <3>1, FileFacts DEF file, Linked
      <4>2. QED
        BY <1>4, <4>1
    <3>4. ~Unnameable(extensions, files, cache[file.inode])
      BY <2>1, <3>2 DEF Unnameable
    <3>5. pc \in Between
      BY <1>7, <2>1 DEF Between
    <3>6. QED
      BY <1>7, <2>1, <3>2, <3>3, <3>4, <3>5 DEF Ahead
  <2>4. QED
    BY <1>2, <1>4, <1>7, <2>1, <2>2, <2>3 DEF LinkInv
<1>9. CASE NameTooLong
  <2>1. /\ Begin /\ extensions = "none" /\ (header'.cut \/ header'.linklen > 100)
        /\ pc' \in Between
    BY <1>9 DEF NameTooLong, Return, Between
  <2>2. ASSUME NEW i \in DOMAIN cache', cache'[i] # None
        PROVE  Ahead(pc', header', archived', cache'[i])
               \/ Unnameable(extensions, files, cache'[i])
    <3>1. CASE i \in DOMAIN cache /\ cache'[i] = cache[i]
      BY <1>4, <1>6, <1>7, <2>1, <2>2, <3>1 DEF Between
    <3>2. CASE cache'[i] = file.name /\ file.type = "0" /\ ~Linked
      <4>1. header'.linklen = 0 /\ header'.cut = file.cut
        BY <1>7, <2>1, <3>2, LinkedHeader DEF IsFile
      <4>2. file.len > 100
        BY <1>7, <2>1, <4>1 DEF IsFile
      <4>3. QED
        BY <1>7, <2>1, <3>2, <4>2 DEF Unnameable, file
    <3>3. QED
      BY <1>7, <2>1, <2>2, <3>1, <3>2
  <2>3. QED
    BY <1>2, <1>4, <1>7, <2>1, <2>2 DEF LinkInv
<1>10. ASSUME pc \notin Between, Success, UNCHANGED <<header, cache>>,
              pc = "header" => header.type # "0"
       PROVE  LinkInv'
  <2>1. /\ archived \in Seq(Headers) /\ header \in Headers
        /\ archived' = Append(archived, header) /\ pc' \in Between
    BY <1>10, InMember DEF Success, Return, TypeOK, Between
  <2>2. /\ DOMAIN archived = 1..Len(archived) /\ Len(archived) \in Nat
        /\ DOMAIN archived' = 1..(Len(archived) + 1)
        /\ archived'[Len(archived) + 1] = header
        /\ \A i \in DOMAIN archived : i \in DOMAIN archived' /\ archived'[i] = archived[i]
    BY <2>1, ArchivedMore
  <2>3. ASSUME NEW n, FirstIn(archived, n) PROVE FirstIn(archived', n)
    BY <2>2, <2>3 DEF FirstIn
  <2>4. header.type = "0" => FirstIn(archived', header.name)
    <3>1. Len(archived) + 1 \in DOMAIN archived'
      BY <2>2
    <3>2. QED
      BY <2>2, <3>1 DEF FirstIn
  <2>5. ASSUME NEW n, Ahead(pc, header, archived, n)
        PROVE  Ahead(pc', header', archived', n)
    BY <2>3, <2>4, <2>5 DEF Ahead
  <2>6. ASSUME NEW i \in DOMAIN archived', archived'[i].type = "1"
        PROVE  \E j \in 1..(i - 1) :
                 archived'[j].type = "0" /\ archived'[j].name = archived'[i].link
    <3>1. CASE i \in DOMAIN archived
      <4>1. PICK j \in 1..(i - 1) :
                archived[j].type = "0" /\ archived[j].name = archived[i].link
        BY <1>4, <2>2, <2>6, <3>1
      <4>2. j \in DOMAIN archived
        BY <2>2, <3>1
      <4>3. QED
        BY <2>2, <3>1, <4>1, <4>2
    <3>2. CASE i = Len(archived) + 1
      <4>1. FirstIn(archived, header.link)
        BY <1>4, <1>10, <2>2, <2>6, <3>2
      <4>2. PICK j \in DOMAIN archived :
                archived[j].type = "0" /\ archived[j].name = header.link
        BY <4>1 DEF FirstIn
      <4>3. QED
        BY <2>2, <3>2, <4>2
    <3>3. QED
      BY <2>2, <2>6, <3>1, <3>2
  <2>7. QED
    BY <1>2, <1>4, <1>10, <2>1, <2>5, <2>6 DEF LinkInv
<1>11. CASE TakeHeader
  <2>1. pc = "header" /\ UNCHANGED <<header, cache>>
    BY <1>11 DEF TakeHeader
  <2>2. CASE header.type = "0"
    BY <1>5, <1>11, <2>1, <2>2 DEF TakeHeader, Between
  <2>3. CASE header.type # "0"
    BY <1>10, <1>11, <2>1, <2>3 DEF TakeHeader, Between
  <2>4. QED
    BY <2>2, <2>3
<1>12. CASE BodyDone
  BY <1>10, <1>12 DEF BodyDone, Between
<1>13. CASE FlushForRoom \/ TakeLongName \/ TakeLongLink \/ TakeRecords
            \/ FlushInBody \/ TakeBody
  BY <1>5, <1>13 DEF FlushForRoom, TakeLongName, TakeLongLink, TakeRecords, FlushInBody,
    TakeBody, member, verdict
<1>14. CASE TakeExtension
  <2>1. pc = "extension" /\ UNCHANGED <<header, archived, cache>>
    BY <1>14 DEF TakeExtension, verdict
  <2>2. pc' \notin Between
    BY <1>14, ExtensionCases DEF Between
  <2>3. QED
    BY <1>5, <2>1, <2>2 DEF Between
<1>15. CASE LongNameDone \/ TextDone
  BY <1>5, <1>15 DEF LongNameDone, TextDone, Encode, verdict, Between
<1>16. CASE ReadlinkFails
  <2>1. pc = "begin" /\ pc' \in {"begin", "finish"} /\ UNCHANGED <<header, archived, cache>>
    BY <1>16 DEF ReadlinkFails, Return
  <2>2. QED
    BY <1>5, <2>1 DEF Between
<1>17. CASE Finish
  BY <1>5, <1>17 DEF Finish, member, Between
<1>18. CASE UNCHANGED vars
  BY <1>5, <1>18 DEF vars
<1>19. QED
  BY <1>3, <1>8, <1>9, <1>11, <1>12, <1>13, <1>14, <1>15, <1>16, <1>17, <1>18
  DEF Next, Step, Fault, Terminated

\* A hard link follows the member that it links to, which has the body.
THEOREM HardlinkTargetsHold ==
  ASSUME OneLongName
  PROVE  Spec => []HardlinkTargets
PROOF
<1>1. Init => LinkInv
  <2>1. Init => /\ pc = "begin" /\ archived = <<>>
                /\ cache = [i \in {f.inode : f \in ToSet(files)} |-> None]
    BY DEF Init
  <2>2. QED
    BY <2>1 DEF LinkInv, Between
<1>2. WriterInv /\ LinkInv /\ [Next]_vars => LinkInv'
  BY LinkStep
<1>3. WriterInv /\ LinkInv /\ RoundTrip => HardlinkTargets
  <2>1. SUFFICES ASSUME WriterInv, LinkInv, RoundTrip, pc = "finished", Undisturbed
                 PROVE  \A i \in DOMAIN Members(stream) : Members(stream)[i].type = "1" =>
                          \E j \in 1..(i - 1) :
                            /\ Members(stream)[j].type = "0"
                            /\ Members(stream)[j].name = Members(stream)[i].link
    BY DEF HardlinkTargets
  <2>2. Members(stream) = Expected
    BY <2>1 DEF RoundTrip
  <2>3. /\ DOMAIN Expected = DOMAIN archived /\ DOMAIN archived = 1..Len(archived)
        /\ Len(archived) \in Nat
        /\ \A i \in DOMAIN archived : /\ Expected[i].type = archived[i].type
                                      /\ Expected[i].name = archived[i].name
                                      /\ Expected[i].link = archived[i].link
    BY <2>1, LenProperties DEF Expected, Archived, WriterInv, TypeOK
  <2>4. SUFFICES ASSUME NEW i \in DOMAIN archived, archived[i].type = "1"
                 PROVE  \E j \in 1..(i - 1) : Expected[j].type = "0"
                                              /\ Expected[j].name = archived[i].link
    BY <2>2, <2>3
  <2>5. PICK j \in 1..(i - 1) :
            archived[j].type = "0" /\ archived[j].name = archived[i].link
    BY <2>1, <2>4 DEF LinkInv
  <2>6. j \in DOMAIN archived
    BY <2>3
  <2>7. QED
    BY <2>3, <2>5, <2>6
<1>4. QED
  BY <1>1, <1>2, <1>3, RoundTripHolds, TypeCorrect, PTL DEF Spec

-----------------------------------------------------------------------------
\* t starts with all that s has.
Listed(s) == \E S : s \in Seq(S)
Begins(s, t) ==
  /\ Listed(s) /\ Listed(t) /\ Len(s) \in Nat /\ Len(t) \in Nat /\ Len(s) <= Len(t)
  /\ \A i \in 1..Len(s) : t[i] = s[i]

LEMMA BeginsItself ==
  ASSUME NEW s, Listed(s)
  PROVE  Begins(s, s)
PROOF
<1>1. PICK S : s \in Seq(S)
  BY DEF Listed
<1>2. Len(s) \in Nat
  BY <1>1, LenProperties
<1>3. QED
  BY <1>2 DEF Begins

LEMMA BeginsAppend ==
  ASSUME NEW s, NEW x, Listed(s)
  PROVE  Begins(s, Append(s, x))
PROOF
<1>1. PICK S : s \in Seq(S)
  BY DEF Listed
<1> DEFINE T == S \cup {x}
           t == Append(s, x)
<1>2. s \in Seq(T) /\ x \in T
  BY <1>1, SeqMonotonic
<1> HIDE DEF T
<1>3. t \in Seq(T) /\ Len(t) = Len(s) + 1 /\ \A i \in 1..Len(s) : t[i] = s[i]
  BY <1>2, AppendProperties
<1>4. Len(s) \in Nat
  BY <1>2, LenProperties
<1> HIDE DEF t
<1>5. Listed(t)
  BY <1>3 DEF Listed
<1>6. Begins(s, t)
  BY <1>3, <1>4, <1>5 DEF Begins
<1>7. QED
  BY <1>6 DEF t

LEMMA BeginsTransitive ==
  ASSUME NEW s, NEW t, NEW u, Begins(s, t), Begins(t, u)
  PROVE  Begins(s, u)
PROOF
<1>1. /\ Len(s) \in Nat /\ Len(t) \in Nat /\ Len(u) \in Nat
      /\ Len(s) <= Len(t) /\ Len(t) <= Len(u) /\ Listed(s) /\ Listed(u)
      /\ \A i \in 1..Len(s) : t[i] = s[i]
      /\ \A i \in 1..Len(t) : u[i] = t[i]
  BY DEF Begins
<1>2. ASSUME NEW i \in 1..Len(s) PROVE u[i] = s[i]
  <2>1. i \in 1..Len(t)
    BY <1>1
  <2>2. QED
    BY <1>1, <2>1
<1>3. QED
  BY <1>1, <1>2 DEF Begins

\* A reader forgets no member, whatever it reads.
Knows(r) ==
  /\ "members" \in DOMAIN r /\ "due" \in DOMAIN r
  /\ r.due \in {"header", "L", "K", "x", "data", "nothing"}
IsReader(r) == Knows(r) /\ Listed(r.members)

LEMMA ReadsOn ==
  ASSUME NEW r, NEW b, IsReader(r)
  PROVE  IsReader(ReadBlock(r, b)) /\ Begins(r.members, ReadBlock(r, b).members)
PROOF
<1>1. Listed(r.members) /\ Knows(r)
  BY DEF IsReader
<1>2. ASSUME NEW q, Knows(q), q.members = r.members
      PROVE  IsReader(q) /\ Begins(r.members, q.members)
  BY <1>1, <1>2, BeginsItself DEF IsReader
<1>3. ASSUME NEW q, NEW x, Knows(q), q.members = Append(r.members, x)
      PROVE  IsReader(q) /\ Begins(r.members, q.members)
  <2>1. Begins(r.members, q.members)
    BY <1>1, <1>3, BeginsAppend
  <2>2. QED
    BY <1>3, <2>1 DEF IsReader, Begins
<1>4. ASSUME NEW due \in {"L", "K", "x", "data"}, NEW h, NEW n
      PROVE  IsReader(Await(r, due, h, n)) /\ Begins(r.members, Await(r, due, h, n).members)
  <2>1. Knows(Await(r, due, h, n)) /\ Await(r, due, h, n).members = r.members
    BY DEF Await, Knows
  <2>2. QED
    BY <1>2, <2>1
<1>5. ASSUME NEW q, NEW h, NEW body, q.members = r.members
      PROVE  /\ IsReader(Emit(q, h, body))
             /\ Begins(r.members, Emit(q, h, body).members)
  <2>1. \E x : Knows(Emit(q, h, body))
               /\ Emit(q, h, body).members = Append(r.members, x)
    BY <1>5 DEF Emit, Start, Knows
  <2>2. QED
    BY <1>3, <2>1
<1>6. IsReader(ReadHeader(r, b)) /\ Begins(r.members, ReadHeader(r, b).members)
  <2>1. CASE b.t = "zero"
    BY <1>1, <1>2, <2>1 DEF ReadHeader
  <2>2. CASE b.t \in {"L", "K", "x"}
    BY <1>4, <2>2 DEF ReadHeader
  <2>3. CASE b.t = "header"
    BY <1>4, <1>5, <2>3 DEF ReadHeader
  <2>4. CASE b.t \notin {"zero", "L", "K", "x", "header"}
    <3> DEFINE g == [r EXCEPT !.members = Append(@, GarbledMember), !.due = "nothing"]
    <3>1. ReadHeader(r, b) = g
      BY <2>4 DEF ReadHeader
    <3>2. g = [[r EXCEPT !.members = Append(@, GarbledMember)] EXCEPT !.due = "nothing"]
      OBVIOUS
    <3>3. Knows(g) /\ g.members = Append(r.members, GarbledMember)
      BY <1>1, <3>2 DEF Knows
    <3> HIDE DEF g
    <3>4. QED
      BY <1>3, <3>1, <3>3
  <2>5. QED
    BY <2>1, <2>2, <2>3, <2>4
<1>7. ASSUME NEW q, Knows(q), q.members = r.members,
             q.due \in {"L", "K", "x", "data"}
      PROVE  IsReader(Deliver(q)) /\ Begins(r.members, Deliver(q).members)
  <2>1. ASSUME NEW name, NEW link
        PROVE  Knows(Pending(q, name, link))
               /\ Pending(q, name, link).members = r.members
    BY <1>7 DEF Pending, Start, Knows
  <2>2. CASE q.due = "data"
    BY <1>5, <1>7, <2>2 DEF Deliver
  <2>3. CASE q.due \in {"L", "K", "x"}
    BY <1>2, <2>1, <2>3 DEF Deliver
  <2>4. QED
    BY <1>7, <2>2, <2>3
<1>8. ASSUME r.due \in {"L", "K", "x", "data"}
      PROVE  IsReader(ReadPayload(r, b)) /\ Begins(r.members, ReadPayload(r, b).members)
  <2> DEFINE next == /\ b.t = (IF r.due = "data" THEN "data" ELSE "text")
                     /\ b.i = r.read + 1
                     /\ r.read # 0 => b.of = r.of
             of   == IF next THEN b.of ELSE Spoilt(r.due)
             more == [r EXCEPT !.read = @ + 1, !.of = of]
  <2>1. ReadPayload(r, b) = IF more.read = r.n THEN Deliver(more) ELSE more
    BY DEF ReadPayload
  <2> HIDE DEF of
  <2>2. more = [[r EXCEPT !.read = @ + 1] EXCEPT !.of = of]
    OBVIOUS
  <2>3. Knows(more) /\ more.members = r.members /\ more.due = r.due
    BY <1>1, <2>2 DEF Knows
  <2> HIDE DEF more
  <2>4. QED
    BY <1>2, <1>7, <1>8, <2>1, <2>3
<1>9. QED
  BY <1>1, <1>2, <1>6, <1>8 DEF ReadBlock, Knows

LEMMA StartReader == IsReader(Start)
PROOF
<1>1. Knows(Start) /\ Start.members = <<>>
  BY DEF Start, Knows
<1>2. Listed(<<>>)
  BY EmptySeq DEF Listed
<1>3. QED
  BY <1>1, <1>2 DEF IsReader

LEMMA ReaderAlways ==
  ASSUME NEW s \in Seq(BlockSet)
  PROVE  IsReader(Reading(s))
PROOF
<1> DEFINE e == <<>>
<1>1. Extends(e, s) /\ Len(e) = 0 /\ Len(s) \in Nat /\ Reading(e) = Start
  BY ReadingEmpty, EmptySeq, LenProperties DEF Extends
<1> HIDE DEF e
<1>2. PICK f : /\ f[Len(e)] = Reading(e) /\ f[Len(s)] = Reading(s)
               /\ \A i \in (Len(e) + 1)..Len(s) : f[i] = ReadBlock(f[i - 1], s[i])
  BY <1>1, ReadingAlong
<1> DEFINE Bad == {i \in 0..Len(s) : ~IsReader(f[i])}
<1>3. SUFFICES ASSUME Bad # {} PROVE FALSE
  BY <1>1, <1>2
<1>4. PICK i \in Bad : \A y \in Bad : i <= y
  <2>1. Bad \in SUBSET Nat
    BY <1>1
  <2>2. QED
    BY <1>3, <2>1, LeastNumber
<1>5. i # 0
  BY <1>1, <1>2, <1>4, StartReader
<1>6. i - 1 \in 0..Len(s) /\ i - 1 \notin Bad /\ i \in (Len(e) + 1)..Len(s)
  BY <1>1, <1>4, <1>5
<1>7. IsReader(f[i - 1]) /\ f[i] = ReadBlock(f[i - 1], s[i])
  BY <1>2, <1>6
<1>8. IsReader(f[i])
  BY <1>7, ReadsOn
<1>9. QED
  BY <1>4, <1>8

\* What was read of a stream stays read when the stream goes on.
LEMMA MembersGrow ==
  ASSUME NEW s, NEW t, Extends(s, t)
  PROVE  Begins(Reading(s).members, Reading(t).members)
PROOF
<1>1. PICK f : /\ f[Len(s)] = Reading(s) /\ f[Len(t)] = Reading(t)
               /\ \A i \in (Len(s) + 1)..Len(t) : f[i] = ReadBlock(f[i - 1], t[i])
  BY ReadingAlong
<1>2. /\ Len(s) \in Nat /\ Len(t) \in Nat /\ Len(s) <= Len(t)
      /\ s \in Seq(BlockSet)
  BY DEF Extends
<1>3. IsReader(Reading(s))
  BY <1>2, ReaderAlways
<1> DEFINE Good(i) == IsReader(f[i]) /\ Begins(Reading(s).members, f[i].members)
           Bad == {i \in Len(s)..Len(t) : ~Good(i)}
<1>4. Good(Len(s))
  BY <1>1, <1>3, BeginsItself DEF IsReader
<1> HIDE DEF Good
<1>5. SUFFICES ASSUME Bad # {} PROVE FALSE
  <2>1. Good(Len(t)) => Begins(Reading(s).members, Reading(t).members)
    BY <1>1 DEF Good
  <2>2. QED
    BY <1>2, <2>1
<1>6. PICK i \in Bad : \A y \in Bad : i <= y
  <2>1. Bad \in SUBSET Nat
    BY <1>2
  <2>2. QED
    BY <1>5, <2>1, LeastNumber
<1>7. i # Len(s)
  BY <1>4, <1>6
<1>8. i - 1 \in Len(s)..Len(t) /\ i - 1 \notin Bad /\ i \in (Len(s) + 1)..Len(t)
  BY <1>2, <1>6, <1>7
<1>9. Good(i - 1) /\ f[i] = ReadBlock(f[i - 1], t[i])
  BY <1>1, <1>8
<1>10. IsReader(f[i]) /\ Begins(f[i - 1].members, f[i].members)
       /\ Begins(Reading(s).members, f[i - 1].members)
  BY <1>9, ReadsOn DEF Good
<1>11. Good(i)
  BY <1>10, BeginsTransitive DEF Good
<1>12. QED
  BY <1>6, <1>11

\* The first n of s, if t starts with them.
LEMMA PrefixRead ==
  ASSUME NEW s, NEW t, Listed(s), Listed(t), NEW n \in Nat,
         n <= Len(s), n <= Len(t), \A i \in 1..n : t[i] = s[i]
  PROVE  IsPrefix(SubSeq(s, 1, n), t)
PROOF
<1>1. PICK S : s \in Seq(S)
  BY DEF Listed
<1>2. PICK T : t \in Seq(T)
  BY DEF Listed
<1> DEFINE U == S \cup T
           x == SubSeq(s, 1, n)
           y == SubSeq(t, 1, n)
<1>3. s \in Seq(U) /\ t \in Seq(U)
  BY <1>1, <1>2, SeqMonotonic
<1> HIDE DEF U
<1>4. /\ Len(s) \in Nat /\ Len(t) \in Nat
      /\ \A i \in 1..n : s[i] \in U /\ t[i] \in U
  BY <1>3, LenProperties, ElementOfSeq
<1>5. /\ x \in Seq(U) /\ Len(x) = (IF 1 <= n THEN n - 1 + 1 ELSE 0)
      /\ \A i \in 1..(n - 1 + 1) : x[i] = s[1 + i - 1]
  BY <1>3, <1>4, SubSeqProperties
<1>6. /\ y \in Seq(U) /\ Len(y) = (IF 1 <= n THEN n - 1 + 1 ELSE 0)
      /\ \A i \in 1..(n - 1 + 1) : y[i] = t[1 + i - 1]
  BY <1>3, <1>4, SubSeqProperties
<1> HIDE DEF x, y
<1>7. /\ Len(x) = n /\ Len(y) = n /\ \A i \in 1..n : x[i] = y[i]
  BY <1>5, <1>6
<1>8. x = y
  BY <1>5, <1>6, <1>7, SeqEqual
<1>9. SubSeq(x, 1, n) = x
  BY <1>5, <1>7, SubSeqFull
<1>10. QED
  BY <1>7, <1>8, <1>9 DEF IsPrefix, x, y

\* What write_file() does to the list of what is archived: it goes on with the
\* same file, misses it, or archives it.
Stays  == archived' = archived /\ k' = k
Misses == archived' = archived /\ k' = k + 1 /\ k \in DOMAIN files
Makes  == /\ archived' = Append(archived, header) /\ k' = k + 1 /\ k \in DOMAIN files
          /\ header \in Headers /\ header.name = file.name

LEMMA ArchiveStep ==
  ASSUME WriterInv, [Next]_vars
  PROVE  /\ Stays \/ Misses \/ Makes
         /\ FlushForRoomFails \/ BodyFlushFails \/ ReadFails => Misses
PROOF
<1> USE DEF WriterInv
<1>1. pc \notin {"finish", "finished"} => k \in DOMAIN files
  BY DEF TypeOK
<1>2. pc \notin Between => header \in Headers /\ header.name = file.name
  BY InMember DEF HeaderInv, HeaderOf
<1>3. CASE NameTooLong \/ UserLookupFails \/ ReadlinkFails
           \/ FlushForRoomFails \/ BodyFlushFails \/ ReadFails
  <2>1. Misses
    BY <1>1, <1>3 DEF NameTooLong, UserLookupFails, ReadlinkFails, FlushForRoomFails,
      BodyFlushFails, ReadFails, Begin, Return, Misses, Needing
  <2>2. QED
    BY <2>1
<1>4. CASE TakeHeader \/ BodyDone
  <2>1. Stays \/ Makes
    BY <1>1, <1>2, <1>4 DEF TakeHeader, BodyDone, Success, Return, Stays, Makes, Between
  <2>2. ~FlushForRoomFails /\ ~BodyFlushFails /\ ~ReadFails
    <3>1. pc = "header" => used < Factor
      BY <1>4 DEF TakeHeader, BodyDone, Take
    <3>2. pc = "body" => left = 0 /\ used < Factor
      BY <1>4 DEF TakeHeader, BodyDone
    <3>3. pc \in {"header", "body"}
      BY <1>4 DEF TakeHeader, BodyDone
    <3>4. used \in Nat /\ Factor \in Nat
      BY MemberWriterAssumption DEF RecordOK
    <3>5. QED
      BY <3>1, <3>2, <3>3, <3>4 DEF FlushForRoomFails, BodyFlushFails, ReadFails, Needing
  <2>3. QED
    BY <2>1, <2>2
<1>5. CASE ~FlushForRoomFails /\ ~BodyFlushFails /\ ~ReadFails
           /\ (Proceed \/ FlushForRoom \/ TakeExtension \/ TakeLongName \/ TakeLongLink
               \/ TakeRecords \/ LongNameDone \/ TextDone \/ FlushInBody \/ TakeBody
               \/ Finish \/ FinishFlushFails \/ UNCHANGED vars)
  <2>1. Stays
    BY <1>5 DEF Proceed, Begin, FlushForRoom, TakeExtension, TakeLongName, TakeLongLink,
      TakeRecords, LongNameDone, TextDone, FlushInBody, TakeBody, Finish,
      FinishFlushFails, vars, member, verdict, Stays
  <2>2. QED
    BY <1>5, <2>1
<1>6. QED
  BY <1>3, <1>4, <1>5 DEF Next, Step, Fault, Terminated

\* Until a file is missed, the members are the first of the files and a reader keeps
\* up; from then on it is known how many came before and that they were read.
MissedAt(m, a, n, ms) ==
  /\ m < n - 1 /\ m <= Len(a)
  /\ \A i \in (m + 1)..Len(a) :
       \E j \in (m + 2)..(n - 1) : j \in DOMAIN files /\ a[i].name = files[j].name
  /\ \A i \in 1..m : i <= Len(ms) /\ ms[i] = Archived(a[i])

Clean == Len(archived) = k - 1 /\ \A i \in 1..Len(archived) : archived[i].name = files[i].name
EarlierInv ==
  \/ Clean /\ Reads
  \/ \E m \in Nat : MissedAt(m, archived, k, Reading(Taken).members)

LEMMA ExpectedList ==
  ASSUME WriterInv
  PROVE  /\ Listed(Expected) /\ Len(Expected) = Len(archived)
         /\ \A i \in 1..Len(archived) : Expected[i] = Archived(archived[i])
PROOF
<1>1. archived \in Seq(Headers) /\ Len(archived) \in Nat /\ DOMAIN archived = 1..Len(archived)
  BY LenProperties DEF WriterInv, TypeOK
<1> DEFINE S == {Archived(archived[i]) : i \in 1..Len(archived)}
<1>2. Expected \in [1..Len(archived) -> S]
      /\ \A i \in 1..Len(archived) : Expected[i] = Archived(archived[i])
  BY <1>1 DEF Expected
<1> HIDE DEF S
<1>3. Expected \in Seq(S) /\ Len(Expected) = Len(archived)
  BY <1>1, <1>2
<1>4. QED
  BY <1>2, <1>3 DEF Listed

LEMMA ExpectedRead ==
  ASSUME WriterInv, Reads
  PROVE  Begins(Expected, Reading(Taken).members)
PROOF
<1> DEFINE Held(r) == r.members \in {Expected, Append(Expected, Archived(header))}
<1>5. Held(Expectation)
  <2>1. /\ \A name, link : Held(Idle(Expected, name, link))
        /\ Held(Idle(Append(Expected, Archived(header)), None, None))
    BY DEF Idle
  <2>2. \A name, link, due, h, n, l, x :
          Held(Within(Expected, name, link, due, h, n, l, x))
    BY DEF Within, Amid
  <2> HIDE DEF Held
  <2>3. CASE pc \in {"long_name", "long_link", "records"} /\ left > 0
    BY <2>1, <2>2, <2>3 DEF Expectation
  <2>4. CASE pc \in {"long_name", "long_link", "records"} /\ left = 0
    BY <2>1, <2>4 DEF Expectation
  <2>5. CASE pc \in {"header", "body"}
    BY <2>1, <2>2, <2>5 DEF Expectation, WriterInv, TypeOK
  <2>6. CASE pc \notin {"long_name", "long_link", "records", "header", "body"}
    BY <2>1, <2>6 DEF Expectation
  <2>7. QED
    BY <2>3, <2>4, <2>5, <2>6 DEF WriterInv, TypeOK
<1>6. Begins(Expected, Expectation.members)
  BY <1>5, ExpectedList, BeginsItself, BeginsAppend
<1>7. QED
  BY <1>6 DEF Reads

\* Once a file is missed, nothing changes what came before it.
LEMMA MissedStep ==
  ASSUME WriterInv, UNCHANGED files, Stays \/ Misses \/ Makes, NEW ms, NEW mt,
         Begins(ms, mt), NEW m \in Nat, MissedAt(m, archived, k, ms)
  PROVE  MissedAt(m, archived', k', mt)
PROOF
<1>1. /\ archived \in Seq(Headers) /\ Len(archived) \in Nat /\ k \in Nat
      /\ \A i \in 1..Len(archived) : archived[i] \in Headers
  BY LenProperties, ElementOfSeq DEF WriterInv, TypeOK
<1>2. /\ m < k - 1 /\ m <= Len(archived)
      /\ \A i \in (m + 1)..Len(archived) :
           \E j \in (m + 2)..(k - 1) : j \in DOMAIN files /\ archived[i].name = files[j].name
      /\ \A i \in 1..m : i <= Len(ms) /\ ms[i] = Archived(archived[i])
  BY DEF MissedAt
<1>3. \A i \in 1..m : i <= Len(mt) /\ mt[i] = Archived(archived[i])
  <2>1. /\ Len(ms) \in Nat /\ Len(mt) \in Nat /\ Len(ms) <= Len(mt)
        /\ \A i \in 1..Len(ms) : mt[i] = ms[i]
    BY DEF Begins
  <2>2. QED
    BY <1>2, <2>1
<1>4. CASE Stays \/ Misses
  <2>1. archived' = archived /\ (k' = k \/ k' = k + 1) /\ files' = files
    BY <1>4 DEF Stays, Misses
  <2>2. \A j \in (m + 2)..(k - 1) : j \in (m + 2)..(k' - 1)
    BY <1>1, <2>1
  <2>3. \A i \in (m + 1)..Len(archived) :
          \E j \in (m + 2)..(k' - 1) : j \in DOMAIN files /\ archived[i].name = files[j].name
    BY <1>2, <2>2
  <2>4. m < k' - 1
    BY <1>1, <1>2, <2>1
  <2>5. QED
    BY <1>2, <1>3, <2>1, <2>3, <2>4 DEF MissedAt
<1>5. CASE Makes
  <2>1. /\ archived' = Append(archived, header) /\ k' = k + 1 /\ k \in DOMAIN files
        /\ header \in Headers /\ header.name = files[k].name
    BY <1>5 DEF Makes, file
  <2>2. /\ Len(archived') = Len(archived) + 1
        /\ \A i \in 1..Len(archived) : archived'[i] = archived[i]
        /\ archived'[Len(archived) + 1] = header
    BY <1>1, <2>1, AppendProperties
  <2>3. k \in (m + 2)..(k' - 1) /\ \A j \in (m + 2)..(k - 1) : j \in (m + 2)..(k' - 1)
    BY <1>1, <1>2, <2>1
  <2>4. ASSUME NEW i \in (m + 1)..Len(archived')
        PROVE  \E j \in (m + 2)..(k' - 1) :
                 j \in DOMAIN files /\ archived'[i].name = files[j].name
    <3>1. CASE i = Len(archived) + 1
      BY <2>1, <2>2, <2>3, <3>1
    <3>2. CASE i \in (m + 1)..Len(archived)
      <4>1. PICK j \in (m + 2)..(k - 1) :
                j \in DOMAIN files /\ archived[i].name = files[j].name
        BY <1>2, <3>2
      <4>2. i \in 1..Len(archived)
        BY <1>1, <3>2
      <4>3. QED
        BY <2>2, <2>3, <4>1, <4>2
    <3>3. QED
      BY <1>1, <2>2, <3>1, <3>2
  <2>5. ASSUME NEW i \in 1..m PROVE i <= Len(mt) /\ mt[i] = Archived(archived'[i])
    <3>1. i \in 1..Len(archived)
      BY <1>1, <1>2
    <3>2. QED
      BY <1>3, <2>2, <3>1
  <2>6. m < k' - 1 /\ m <= Len(archived')
    BY <1>1, <1>2, <2>1, <2>2
  <2>7. QED
    BY <2>4, <2>5, <2>6 DEF MissedAt
<1>6. QED
  BY <1>4, <1>5

LEMMA EarlierStep ==
  ASSUME OneLongName, WriterInv, ReaderInv, EarlierInv, [Next]_vars
  PROVE  EarlierInv'
PROOF
<1> DEFINE ms == Reading(Taken).members
           mt == Reading(Taken').members
<1>1. Begins(ms, mt) /\ UNCHANGED files
  BY Growth, MembersGrow, InputStays DEF ReaderInv, input
<1>2. Stays \/ Misses \/ Makes
  BY ArchiveStep
<1>3. /\ Reading(Taken)' = Reading(Taken')
      /\ archived \in Seq(Headers) /\ Len(archived) \in Nat /\ k \in Nat
  BY LenProperties DEF WriterInv, TypeOK
<1>4. ASSUME NEW m \in Nat, MissedAt(m, archived', k', mt)
      PROVE  EarlierInv'
  BY <1>1, <1>4 DEF EarlierInv, MissedAt
<1> HIDE DEF ms, mt
<1>5. ASSUME NEW m \in Nat, MissedAt(m, archived, k, ms)
      PROVE  EarlierInv'
  BY <1>1, <1>2, <1>4, <1>5, MissedStep
<1>6. ASSUME Clean, Reads, Misses
      PROVE  EarlierInv'
  <2>1. /\ Begins(Expected, ms) /\ Len(Expected) = Len(archived)
        /\ \A i \in 1..Len(archived) : Expected[i] = Archived(archived[i])
    BY <1>6, ExpectedList, ExpectedRead DEF ms
  <2>2. Begins(Expected, mt)
    BY <1>1, <2>1, BeginsTransitive
  <2>3. \A i \in 1..Len(archived) : i <= Len(mt) /\ mt[i] = Archived(archived[i])
    BY <2>1, <2>2 DEF Begins
  <2>4. archived' = archived /\ k' = k + 1 /\ Len(archived) = k - 1
    BY <1>6 DEF Misses, Clean
  <2>5. MissedAt(Len(archived), archived', k', mt)
    BY <1>3, <2>3, <2>4 DEF MissedAt
  <2>6. QED
    BY <1>3, <1>4, <2>5
<1>7. ASSUME Clean, Reads, ~Misses
      PROVE  EarlierInv'
  <2>1. Reads'
    BY <1>7, ArchiveStep, ReadsStep DEF ReaderInv
  <2>2. Clean'
    <3>1. CASE Stays
      BY <1>1, <1>7, <3>1 DEF Stays, Clean
    <3>2. CASE Makes
      <4>1. /\ archived' = Append(archived, header) /\ k' = k + 1
            /\ header \in Headers /\ header.name = files[k].name
        BY <3>2 DEF Makes, file
      <4>2. /\ Len(archived') = Len(archived) + 1
            /\ \A i \in 1..Len(archived) : archived'[i] = archived[i]
            /\ archived'[Len(archived) + 1] = header
        BY <1>3, <4>1, AppendProperties
      <4>3. Len(archived) = k - 1
            /\ \A i \in 1..Len(archived) : archived[i].name = files[i].name
        BY <1>7 DEF Clean
      <4>4. \A i \in 1..Len(archived') : archived'[i].name = files[i].name
        BY <1>3, <4>1, <4>2, <4>3
      <4>5. QED
        BY <1>1, <1>3, <4>1, <4>2, <4>3, <4>4 DEF Clean
    <3>3. QED
      BY <1>2, <1>7, <3>1, <3>2
  <2>3. QED
    BY <2>1, <2>2 DEF EarlierInv
<1>8. QED
  BY <1>5, <1>6, <1>7 DEF EarlierInv, ms

-----------------------------------------------------------------------------
\* The members archived before a file is missed are read of what has been taken.
ReadAsArchived(n, s) ==
  \A i \in 1..n : /\ i <= Len(Reading(s).members)
                  /\ Reading(s).members[i] = Archived(archived[i])
FirstFiles(n) == \A i \in 1..n : archived[i].name = files[i].name
EarlierRead == \A n \in 1..Len(archived) : FirstFiles(n) => ReadAsArchived(n, Taken)

LEMMA EarlierAreRead ==
  ASSUME WriterInv, ReaderInv, EarlierInv
  PROVE  EarlierRead
PROOF
<1>1. SUFFICES ASSUME NEW n \in 1..Len(archived),
                      \A i \in 1..n : archived[i].name = files[i].name
               PROVE  ReadAsArchived(n, Taken)
  BY DEF EarlierRead, FirstFiles
<1> DEFINE ms == Reading(Taken).members
<1>2. archived \in Seq(Headers) /\ Len(archived) \in Nat /\ n \in Nat /\ n <= Len(archived)
  BY LenProperties DEF WriterInv, TypeOK
<1>3. /\ Listed(Expected) /\ Len(Expected) = Len(archived)
      /\ \A i \in 1..Len(archived) : Expected[i] = Archived(archived[i])
  BY ExpectedList
<1> HIDE DEF ms
<1>4. CASE Reads
  <2>1. Begins(Expected, ms)
    BY <1>4, ExpectedRead DEF ms
  <2>2. \A i \in 1..n : i <= Len(ms) /\ ms[i] = Archived(archived[i])
    BY <1>2, <1>3, <2>1 DEF Begins
  <2>3. QED
    BY <2>2 DEF ReadAsArchived, ms
<1>5. ASSUME NEW m \in Nat, MissedAt(m, archived, k, ms)
      PROVE  ReadAsArchived(n, Taken)
  <2>1. n <= m
    <3>1. SUFFICES ASSUME m + 1 \in 1..n PROVE FALSE
      BY <1>2, <1>5
    <3>2. m + 1 \in (m + 1)..Len(archived)
      BY <1>2, <3>1
    <3>3. PICK j \in (m + 2)..(k - 1) :
              j \in DOMAIN files /\ archived[m + 1].name = files[j].name
      BY <1>5, <3>2 DEF MissedAt
    <3>4. m + 1 \in DOMAIN files /\ m + 1 # j
      BY <3>3, LenProperties DEF WriterInv, TypeOK
    <3>5. files[m + 1].name = files[j].name
      BY <1>1, <3>1, <3>3
    <3>6. files[m + 1] = files[j]
      BY <3>3, <3>4, <3>5, FileFacts DEF WriterInv
    <3>7. QED
      BY <3>3, <3>4, <3>6 DEF ReaderInv, Distinct, IsInjective
  <2>2. \A i \in 1..n : i <= Len(ms) /\ ms[i] = Archived(archived[i])
    BY <1>2, <1>5, <2>1 DEF MissedAt
  <2>3. QED
    BY <2>2 DEF ReadAsArchived, ms
<1>6. QED
  BY <1>4, <1>5 DEF EarlierInv, ms

\* They are read of as much as there was when the last of them was archived, and
\* what is put into the archive later leaves that alone.
EndsInv ==
  /\ Len(ends) = Len(archived)
  /\ \A n \in 1..Len(archived) : FirstFiles(n) =>
       \E s : Extends(s, Taken) /\ Len(s) = ends[n] /\ ReadAsArchived(n, s)

LEMMA ExtendsFurther ==
  ASSUME NEW s, NEW t, NEW u, Extends(s, t), Extends(t, u)
  PROVE  Extends(s, u)
PROOF
<1>1. /\ s \in Seq(BlockSet) /\ t \in Seq(BlockSet) /\ u \in Seq(BlockSet)
      /\ Len(s) \in Nat /\ Len(t) \in Nat /\ Len(u) \in Nat
      /\ Len(s) <= Len(t) /\ Len(t) <= Len(u)
      /\ \A i \in 1..Len(s) : t[i] = s[i]
      /\ \A i \in 1..Len(t) : u[i] = t[i]
  BY DEF Extends
<1>2. ASSUME NEW i \in 1..Len(s) PROVE u[i] = s[i]
  <2>1. i \in 1..Len(t)
    BY <1>1
  <2>2. QED
    BY <1>1, <2>1
<1>3. Len(s) <= Len(u)
  BY <1>1
<1>4. QED
  BY <1>1, <1>2, <1>3 DEF Extends

LEMMA EndsStep ==
  ASSUME WriterInv, Extends(Taken, Taken'), UNCHANGED files, EndsInv, EarlierRead',
         [Next]_vars
  PROVE  EndsInv'
PROOF
<1>1. /\ archived \in Seq(Headers) /\ Len(archived) \in Nat
      /\ ends \in Seq(Nat) /\ Len(ends) = Len(archived)
  BY LenProperties DEF WriterInv, TypeOK, OutputOK, EndsInv
<1>2. ASSUME NEW n \in 1..Len(archived), FirstFiles(n)
      PROVE  \E s : Extends(s, Taken') /\ Len(s) = ends[n] /\ ReadAsArchived(n, s)
  <2>1. PICK s : Extends(s, Taken) /\ Len(s) = ends[n] /\ ReadAsArchived(n, s)
    BY <1>2 DEF EndsInv
  <2>2. Extends(s, Taken')
    BY <2>1, ExtendsFurther
  <2>3. QED
    BY <2>1, <2>2
<1>3. CASE UNCHANGED <<archived, ends>>
  <2>1. ASSUME NEW n \in 1..Len(archived), FirstFiles(n)'
        PROVE  \E s : Extends(s, Taken') /\ Len(s) = ends'[n] /\ ReadAsArchived(n, s)'
    <3>1. FirstFiles(n)
      BY <1>3, <2>1 DEF FirstFiles
    <3>2. PICK s : Extends(s, Taken') /\ Len(s) = ends[n] /\ ReadAsArchived(n, s)
      BY <1>2, <3>1
    <3>3. \A i \in 1..n : /\ i <= Len(Reading(s).members)
                          /\ Reading(s).members[i] = Archived(archived'[i])
      BY <1>3, <3>2 DEF ReadAsArchived
    <3>4. QED
      BY <1>3, <3>2, <3>3 DEF ReadAsArchived, Archived
  <2>2. QED
    BY <1>1, <1>3, <2>1 DEF EndsInv
<1>4. CASE /\ archived' = Append(archived, header)
           /\ ends' = Append(ends, Len(Taken'))
  <2> DEFINE N == Len(archived) + 1
  <2>1. header \in Headers /\ Len(Taken') \in Nat
    <3>1. ~UNCHANGED archived
      <4>1. Len(archived') = Len(archived) + 1
        BY <1>1, <1>4
      <4>2. QED
        BY <1>1, <4>1
    <3>2. Makes
      BY <3>1, ArchiveStep DEF Stays, Misses
    <3>3. QED
      BY <3>2 DEF Makes, Extends
  <2>2. /\ Len(archived') = N /\ archived'[N] = header
        /\ \A i \in 1..Len(archived) : archived'[i] = archived[i]
    BY <1>1, <1>4, <2>1, AppendProperties
  <2>3. /\ Len(ends') = N /\ ends'[N] = Len(Taken')
        /\ \A i \in 1..Len(archived) : ends'[i] = ends[i]
    BY <1>1, <1>4, <2>1, AppendProperties
  <2>4. ASSUME NEW n \in 1..N, FirstFiles(n)'
        PROVE  \E s : Extends(s, Taken') /\ Len(s) = ends'[n] /\ ReadAsArchived(n, s)'
    <3>1. CASE n = N
      <4>1. ReadAsArchived(n, Taken)'
        BY <2>2, <2>4 DEF EarlierRead
      <4>2. Extends(Taken', Taken')
        BY ExtendsItself DEF Extends
      <4>3. QED
        BY <2>3, <3>1, <4>1, <4>2 DEF ReadAsArchived
    <3>2. CASE n \in 1..Len(archived)
      <4>1. \A i \in 1..n : i \in 1..Len(archived) /\ archived'[i] = archived[i]
        BY <1>1, <2>2, <3>2
      <4>2. FirstFiles(n)
        BY <2>4, <4>1 DEF FirstFiles
      <4>3. PICK s : Extends(s, Taken') /\ Len(s) = ends[n] /\ ReadAsArchived(n, s)
        BY <1>2, <3>2, <4>2
      <4>4. \A i \in 1..n : /\ i <= Len(Reading(s).members)
                            /\ Reading(s).members[i] = Archived(archived'[i])
        BY <4>1, <4>3 DEF ReadAsArchived
      <4>5. QED
        BY <2>3, <3>2, <4>3, <4>4 DEF ReadAsArchived, Archived
    <3>3. QED
      BY <1>1, <3>1, <3>2
  <2>5. QED
    BY <2>2, <2>3, <2>4 DEF EndsInv
<1>5. QED
  BY <1>3, <1>4, OutputMoves DEF WriterInv

\* What the handle received before a record was sent again is what was put into the
\* archive.
IntactInv ==
  /\ Intact <= Len(stream) /\ Intact <= Len(Taken)
  /\ \A i \in 1..Intact : stream[i] = Taken[i]

LEMMA IntactStep ==
  ASSUME WriterInv, WriterInv', Extends(Taken, Taken'), IntactInv, [Next]_vars
  PROVE  IntactInv'
PROOF
<1>1. /\ Len(stream) \in Nat /\ Len(flushed) \in Nat /\ used \in Nat
      /\ Len(Taken) = Len(flushed) + used
      /\ \A i \in 1..Len(flushed) : Taken[i] = flushed[i]
      /\ \A i \in 1..used : Taken[Len(flushed) + i] = data[i]
      /\ Factor \in Nat /\ intact \in Nat
  BY TakenSeq, LenProperties, MemberWriterAssumption DEF WriterInv, OutputOK
<1>2. /\ Extends(stream, stream') /\ Len(stream') \in Nat /\ Len(stream) <= Len(stream')
      /\ \A i \in 1..Len(stream) : stream'[i] = stream[i]
      /\ Len(Taken) \in Nat /\ Len(Taken') \in Nat /\ Len(Taken) <= Len(Taken')
      /\ \A i \in 1..Len(Taken) : Taken'[i] = Taken[i]
  BY OutputStep DEF WriterInv, Extends
<1>3. CASE shape' = "whole"
  <2>1. stream' = flushed' /\ Intact' = Len(stream')
    BY <1>3 DEF WriterInv, OutputOK, Intact
  <2>2. /\ Len(flushed') \in Nat /\ used' \in Nat /\ Len(Taken') = Len(flushed') + used'
        /\ \A i \in 1..Len(flushed') : Taken'[i] = flushed'[i]
    BY TakenSeqNext DEF WriterInv
  <2>3. QED
    BY <2>1, <2>2 DEF IntactInv
<1>4. ASSUME Intact' = Intact, Intact \in Nat
      PROVE  IntactInv'
  <2>1. \A i \in 1..Intact : i \in 1..Len(stream) /\ i \in 1..Len(Taken)
    BY <1>1, <1>2, <1>4 DEF IntactInv
  <2>2. \A i \in 1..Intact : stream'[i] = Taken'[i]
    BY <1>2, <2>1 DEF IntactInv
  <2>3. Intact <= Len(stream') /\ Intact <= Len(Taken')
    BY <1>1, <1>2, <1>4 DEF IntactInv
  <2>4. QED
    BY <1>4, <2>2, <2>3 DEF IntactInv
<1>5. CASE shape' # "whole" /\ UNCHANGED <<shape, intact>>
  <2>1. Intact' = intact /\ Intact = intact
    BY <1>5 DEF Intact
  <2>2. QED
    BY <1>1, <1>4, <2>1
<1>6. ASSUME PartlySent, NEW n \in 0..(Factor - 1), Len(stream') = Len(stream) + n,
             shape' \in {"torn", "shifted"},
             intact' = IF shape = "whole" THEN Len(stream) + Smaller(n, used) ELSE intact,
             shape = "whole" => \A i \in 1..n : stream'[Len(stream) + i] = data[i]
      PROVE  IntactInv'
  <2>1. CASE shape # "whole"
    <3>1. Intact' = intact /\ Intact = intact
      BY <1>6, <2>1 DEF Intact
    <3>2. QED
      BY <1>1, <1>4, <3>1
  <2>2. CASE shape = "whole"
    <3> DEFINE m == Smaller(n, used)
    <3>1. m \in Nat /\ m <= n /\ m <= used /\ n \in Nat
      BY <1>1, <1>6 DEF Smaller
    <3>2. Intact' = Len(stream) + m /\ stream = flushed
      BY <1>6, <2>2 DEF Intact, WriterInv, OutputOK
    <3> HIDE DEF m
    <3>3. ASSUME NEW i \in 1..(Len(stream) + m) PROVE stream'[i] = Taken'[i]
      <4>1. CASE i \in 1..Len(stream)
        <5>1. i \in 1..Len(Taken)
          BY <1>1, <3>2, <4>1
        <5>2. stream'[i] = stream[i] /\ Taken'[i] = Taken[i] /\ Taken[i] = stream[i]
          BY <1>1, <1>2, <3>2, <4>1, <5>1
        <5>3. QED
          BY <5>2
      <4>2. CASE i \in (Len(stream) + 1)..(Len(stream) + m)
        <5> DEFINE j == i - Len(stream)
        <5>1. j \in 1..n /\ j \in 1..used /\ i = Len(stream) + j /\ i \in 1..Len(Taken)
          BY <1>1, <3>1, <3>2, <4>2
        <5> HIDE DEF j
        <5>2. stream'[Len(stream) + j] = data[j] /\ Taken[Len(stream) + j] = data[j]
          BY <1>1, <1>6, <2>2, <3>2, <5>1
        <5>3. Taken'[i] = Taken[i]
          BY <1>2, <5>1
        <5>4. QED
          BY <5>1, <5>2, <5>3
      <4>3. QED
        BY <1>1, <3>1, <4>1, <4>2
    <3>4. Intact' <= Len(stream') /\ Intact' <= Len(Taken')
      BY <1>1, <1>2, <1>6, <3>1, <3>2
    <3>5. QED
      BY <3>2, <3>3, <3>4 DEF IntactInv
  <2>3. QED
    BY <2>1, <2>2
<1>7. CASE UNCHANGED output \/ WriteOut
  <2>1. UNCHANGED <<shape, intact>>
    BY <1>7 DEF output, WriteOut
  <2>2. QED
    BY <1>3, <1>5, <2>1
<1>8. CASE PartlySent
  <2>1. CASE UNCHANGED <<stream, shape, intact>>
    BY <1>3, <1>5, <2>1
  <2>2. QED
    BY <1>6, <1>8, <2>1, PartSent DEF WriterInv
<1>9. QED
  BY <1>7, <1>8, OutputMoves DEF WriterInv

\* Whatever fails, the members that were archived before the first failure and that
\* the handle had received when a flush first failed half way are read from the
\* stream as they were, if no GNU member needs two long names.
THEOREM EarlierMembersHold ==
  ASSUME OneLongName
  PROVE  Spec => []EarlierMembersReadable
PROOF
<1>1. Init => EarlierInv /\ EndsInv /\ IntactInv
  <2>1. SUFFICES ASSUME Init PROVE Clean /\ Reads /\ EndsInv /\ IntactInv
    BY DEF EarlierInv
  <2>2. archived = <<>> /\ ends = <<>> /\ stream = <<>> /\ shape = "whole"
    BY <2>1 DEF Init
  <2>3. EndsInv /\ IntactInv
    <3>1. Len(archived) = 0 /\ Len(ends) = 0 /\ Len(stream) = 0
      BY <2>2, EmptySeq
    <3>2. Len(Taken) \in Nat
      BY <2>1, WriterInitially, TakenSeq, LenProperties DEF WriterInv
    <3>3. QED
      BY <2>2, <3>1, <3>2 DEF EndsInv, IntactInv, Intact
  <2>4. QED
    BY <2>1, <2>3, ReadsInitially DEF Init, Clean
<1>2. WriterInv /\ ReaderInv /\ EarlierInv /\ [Next]_vars => EarlierInv'
  BY EarlierStep
<1>3. WriterInv /\ ReaderInv /\ EarlierInv => EarlierRead
  BY EarlierAreRead
<1>4. WriterInv /\ WriterInv' /\ ReaderInv /\ EndsInv /\ IntactInv /\ EarlierRead'
        /\ [Next]_vars => EndsInv' /\ IntactInv'
  <2>1. SUFFICES ASSUME WriterInv, WriterInv', ReaderInv, EndsInv, IntactInv,
                        EarlierRead', [Next]_vars
                 PROVE  EndsInv' /\ IntactInv'
    OBVIOUS
  <2>2. Extends(Taken, Taken') /\ UNCHANGED files
    BY <2>1, Growth, InputStays DEF ReaderInv, input
  <2>3. QED
    BY <2>1, <2>2, EndsStep, IntactStep
<1>5. WriterInv /\ EndsInv /\ IntactInv => EarlierMembersReadable
  <2>1. SUFFICES ASSUME WriterInv, EndsInv, IntactInv, NEW n \in 1..Len(archived),
                        \A i \in 1..n : archived[i].name = files[i].name,
                        ends[n] <= Intact
                 PROVE  IsPrefix(SubSeq(Expected, 1, n), Members(stream))
    BY DEF EarlierMembersReadable
  <2>2. PICK s : Extends(s, Taken) /\ Len(s) = ends[n] /\ ReadAsArchived(n, s)
    BY <2>1 DEF EndsInv, FirstFiles
  <2>3. Extends(s, stream)
    <3>1. /\ s \in Seq(BlockSet) /\ Len(s) \in Nat /\ Len(Taken) \in Nat
          /\ \A i \in 1..Len(s) : Taken[i] = s[i]
          /\ stream \in Seq(BlockSet) /\ Len(stream) \in Nat /\ intact \in Nat
      BY <2>1, <2>2, LenProperties DEF Extends, WriterInv, OutputOK
    <3>2. Len(s) <= Intact /\ Intact \in Nat /\ Intact <= Len(stream)
      BY <2>1, <2>2, <3>1 DEF IntactInv, Intact
    <3>3. \A i \in 1..Len(s) : stream[i] = Taken[i]
      BY <2>1, <3>1, <3>2 DEF IntactInv
    <3>4. QED
      BY <3>1, <3>2, <3>3 DEF Extends
  <2> DEFINE ms == Reading(s).members
             mt == Members(stream)
  <2>4. Begins(ms, mt)
    <3>1. Begins(ms, Reading(stream).members)
      BY <2>3, MembersGrow
    <3>2. IsReader(Reading(stream))
      BY <2>3, ReaderAlways DEF Extends
    <3>3. Begins(Reading(stream).members, mt)
      BY <3>2, BeginsItself, BeginsAppend DEF Members, IsReader
    <3>4. QED
      BY <3>1, <3>3, BeginsTransitive
  <2>5. \A i \in 1..n : i <= Len(ms) /\ ms[i] = Archived(archived[i])
    BY <2>2 DEF ReadAsArchived
  <2> HIDE DEF ms, mt
  <2>6. Len(archived) \in Nat /\ n \in Nat /\ n <= Len(archived)
    BY <2>1, LenProperties DEF WriterInv, TypeOK
  <2>7. /\ Listed(Expected) /\ Len(Expected) = Len(archived)
        /\ \A i \in 1..Len(archived) : Expected[i] = Archived(archived[i])
    BY <2>1, ExpectedList
  <2>8. /\ Listed(mt) /\ Len(ms) \in Nat /\ Len(mt) \in Nat /\ Len(ms) <= Len(mt)
        /\ \A i \in 1..Len(ms) : mt[i] = ms[i]
    BY <2>4 DEF Begins
  <2>9. n <= Len(mt) /\ \A i \in 1..n : mt[i] = Expected[i]
    <3>1. ASSUME NEW i \in 1..n PROVE i <= Len(mt) /\ mt[i] = Expected[i]
      <4>1. i \in 1..Len(ms) /\ i \in 1..Len(archived)
        BY <2>5, <2>6, <2>8
      <4>2. QED
        BY <2>5, <2>7, <2>8, <4>1
    <3>2. n \in 1..n
      BY <2>1
    <3>3. QED
      BY <3>1, <3>2
  <2>10. QED
    BY <2>6, <2>7, <2>8, <2>9, PrefixRead DEF mt
<1>6. QED
  BY <1>1, <1>2, <1>3, <1>4, <1>5, ReaderHolds, TypeCorrect, PTL DEF Spec
==============================================================================
