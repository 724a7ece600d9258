----------------------------- MODULE NamesProofs -----------------------------
(***************************************************************************)
(* Proofs about Names, for any sizes of fields and any names given: what   *)
(* path_split() makes of a name fits, or had to be truncated, and a reader *)
(* finds each entry under the name wished for.                             *)
(***************************************************************************)
EXTENDS Names, SequenceTheorems, WellFoundedInduction, TLAPS

\* A set of numbers has a least one.
LEMMA LeastNumber ==
  ASSUME NEW S \in SUBSET Nat, S # {}
  PROVE  \E x \in S : \A y \in S : x <= y
PROOF
<1>1. PICK x \in S : \A y \in S : ~(<<y, x>> \in OpToRel(<, Nat))
  BY NatLessThanWellFounded, WFMin
<1>2. \A y \in S : ~(y < x)
  BY <1>1 DEF OpToRel
<1>3. QED
  BY <1>2

\* What holds of the empty sequence, and of any other if of all but its last.
LEMMA SeqInduction ==
  ASSUME NEW S, NEW Good \in SUBSET Seq(S), <<>> \in Good,
         \A s \in Good, x \in S : Append(s, x) \in Good
  PROVE  \A s \in Seq(S) : s \in Good
PROOF
<1> DEFINE Bad == {n \in Nat : \E s \in Seq(S) : Len(s) = n /\ s \notin Good}
<1>1. SUFFICES ASSUME Bad # {} PROVE FALSE
  BY LenProperties
<1>2. PICK n \in Bad : \A m \in Bad : n <= m
  BY <1>1, LeastNumber
<1>3. PICK s \in Seq(S) : Len(s) = n /\ s \notin Good
  BY <1>2
<1>4. s # <<>>
  BY <1>3
<1>5. PICK t \in Seq(S), x \in S : s = Append(t, x)
  BY <1>4, SequenceEmptyOrAppend
<1>6. Len(t) \in Nat /\ Len(s) = Len(t) + 1
  <2>1. Len(t) \in Nat
    BY LenProperties
  <2>2. Len(Append(t, x)) = Len(t) + 1
    BY AppendProperties
  <2>3. QED
    BY <1>5, <2>1, <2>2
<1>7. Len(t) \notin Bad
  <2> HIDE DEF Bad
  <2>1. \A m \in Bad : n <= m
    BY <1>2
  <2>2. n = Len(t) + 1
    BY <1>3, <1>6
  <2>3. QED
    BY <1>6, <2>1, <2>2
<1>8. t \in Good
  BY <1>6, <1>7
<1>9. QED
  BY <1>3, <1>5, <1>8

-----------------------------------------------------------------------------
\* Without() goes through a string from its start.
Keeping(s, d, f) ==
  /\ f = [i \in 0..Len(s) |-> f[i]] /\ f[0] = <<>>
  /\ \A i \in 1..Len(s) : f[i] = IF s[i] \in d THEN f[i - 1] ELSE Append(f[i - 1], s[i])

LEMMA WithoutIs ==
  ASSUME NEW S, NEW s \in Seq(S), NEW d, NEW g, Keeping(s, d, g)
  PROVE  Without(s, d) = g[Len(s)]
PROOF
<1> DEFINE Is(f) == f = [i \in 0..Len(s) |->
                           IF i = 0 THEN <<>>
                           ELSE IF s[i] \in d THEN f[i - 1] ELSE Append(f[i - 1], s[i])]
           kept == CHOOSE f : Is(f)
<1>1. Len(s) \in Nat
  BY LenProperties
<1>2. Is(g)
  <2>1. \A i \in 0..Len(s) :
          g[i] = IF i = 0 THEN <<>>
                 ELSE IF s[i] \in d THEN g[i - 1] ELSE Append(g[i - 1], s[i])
    <3> TAKE i \in 0..Len(s)
    <3>1. CASE i = 0
      BY <3>1 DEF Keeping
    <3>2. CASE i \in 1..Len(s)
      BY <3>2 DEF Keeping
    <3>3. QED
      BY <1>1, <3>1, <3>2
  <2>2. QED
    BY <2>1 DEF Keeping
<1>3. Is(kept)
  BY <1>2
<1>4. Without(s, d) = kept[Len(s)]
  BY DEF Without
<1> HIDE DEF kept
<1>5. /\ kept[0] = <<>>
      /\ \A i \in 1..Len(s) :
           kept[i] = IF s[i] \in d THEN kept[i - 1] ELSE Append(kept[i - 1], s[i])
  <2>1. \A i \in 0..Len(s) :
          kept[i] = IF i = 0 THEN <<>>
                    ELSE IF s[i] \in d THEN kept[i - 1] ELSE Append(kept[i - 1], s[i])
    BY <1>3
  <2>2. QED
    BY <1>1, <2>1
<1> DEFINE Bad == {i \in 0..Len(s) : kept[i] # g[i]}
<1>6. SUFFICES ASSUME Bad # {} PROVE FALSE
  BY <1>1, <1>4
<1>7. PICK i \in Bad : \A j \in Bad : i <= j
  <2>1. Bad \in SUBSET Nat
    BY <1>1
  <2>2. QED
    BY <1>6, <2>1, LeastNumber
<1>8. i # 0
  BY <1>5, <1>7 DEF Keeping
<1>9. i \in 1..Len(s) /\ i - 1 \in 0..Len(s) /\ i - 1 \notin Bad
  BY <1>1, <1>7, <1>8
<1>10. kept[i - 1] = g[i - 1]
  BY <1>9
<1>11. kept[i] = g[i]
  BY <1>5, <1>9, <1>10 DEF Keeping
<1>12. QED
  BY <1>7, <1>11

LEMMA KeepingMore ==
  ASSUME NEW S, NEW s \in Seq(S), NEW x \in S, NEW d, NEW f, Keeping(s, d, f)
  PROVE  \E g : /\ Keeping(Append(s, x), d, g) /\ g[Len(s)] = f[Len(s)]
                /\ g[Len(s) + 1] = IF x \in d THEN f[Len(s)] ELSE Append(f[Len(s)], x)
PROOF
<1> DEFINE n == Len(s)
           last == IF x \in d THEN f[n] ELSE Append(f[n], x)
           t == Append(s, x)
           g == [i \in 0..(n + 1) |-> IF i <= n THEN f[i] ELSE last]
<1>1. /\ n \in Nat /\ Len(t) = n + 1 /\ t[n + 1] = x
      /\ \A i \in 1..n : t[i] = s[i]
  BY LenProperties, AppendProperties
<1>2. /\ f[0] = <<>>
      /\ \A i \in 1..n : f[i] = IF s[i] \in d THEN f[i - 1] ELSE Append(f[i - 1], s[i])
  BY DEF Keeping
<1>3. g = [i \in 0..(n + 1) |-> g[i]]
  OBVIOUS
<1>4. g[n + 1] = last /\ \A i \in 0..n : g[i] = f[i]
  BY <1>1
<1> HIDE DEF g, last, t, n
<1>5. g[0] = <<>>
  BY <1>1, <1>2, <1>4
<1>6. \A i \in 1..(n + 1) : g[i] = IF t[i] \in d THEN g[i - 1] ELSE Append(g[i - 1], t[i])
  <2> TAKE i \in 1..(n + 1)
  <2>1. CASE i = n + 1
    <3>1. i - 1 = n
      BY <1>1, <2>1
    <3>2. g[i - 1] = f[n] /\ t[i] = x /\ g[i] = last
      BY <1>1, <1>4, <2>1, <3>1
    <3>3. QED
      BY <3>2 DEF last
  <2>2. CASE i \in 1..n
    <3>1. i - 1 \in 0..n /\ i \in 0..n
      BY <1>1, <2>2
    <3>2. g[i] = f[i] /\ g[i - 1] = f[i - 1] /\ t[i] = s[i]
      BY <1>1, <1>4, <2>2, <3>1
    <3>3. QED
      BY <1>2, <2>2, <3>2
  <2>3. QED
    BY <1>1, <2>1, <2>2
<1>7. Keeping(t, d, g)
  BY <1>1, <1>3, <1>5, <1>6 DEF Keeping
<1>8. g[n] = f[n]
  BY <1>1, <1>4
<1>9. QED
  BY <1>4, <1>7, <1>8 DEF last, t, n

LEMMA KeepingExists ==
  ASSUME NEW S, NEW s \in Seq(S), NEW d
  PROVE  \E f : Keeping(s, d, f)
PROOF
<1> DEFINE Good == {t \in Seq(S) : \E f : Keeping(t, d, f)}
<1>1. <<>> \in Good
  <2> DEFINE f == [i \in 0..0 |-> <<>>]
  <2>1. Keeping(<<>>, d, f)
    BY EmptySeq DEF Keeping
  <2>2. QED
    BY <2>1, EmptySeq
<1>2. ASSUME NEW t \in Good, NEW x \in S PROVE Append(t, x) \in Good
  BY KeepingMore, AppendProperties
<1> HIDE DEF Good
<1>3. \A t \in Seq(S) : t \in Good
  <2>1. Good \in SUBSET Seq(S)
    BY DEF Good
  <2>2. QED
    BY <1>1, <1>2, <2>1, SeqInduction
<1>4. QED
  BY <1>3 DEF Good

\* What Without() does with a component more.
LEMMA WithoutEmpty ==
  ASSUME NEW d
  PROVE  Without(<<>>, d) = <<>>
PROOF
<1>1. <<>> \in Seq({}) /\ Len(<<>>) = 0
  BY EmptySeq
<1>2. PICK f : Keeping(<<>>, d, f)
  BY <1>1, KeepingExists
<1>3. Without(<<>>, d) = f[0]
  BY <1>1, <1>2, WithoutIs
<1>4. QED
  BY <1>2, <1>3 DEF Keeping

LEMMA WithoutAppend ==
  ASSUME NEW S, NEW s \in Seq(S), NEW x \in S, NEW d
  PROVE  Without(Append(s, x), d) =
           IF x \in d THEN Without(s, d) ELSE Append(Without(s, d), x)
PROOF
<1>1. PICK f : Keeping(s, d, f)
  BY KeepingExists
<1>2. PICK g : /\ Keeping(Append(s, x), d, g) /\ g[Len(s)] = f[Len(s)]
               /\ g[Len(s) + 1] = IF x \in d THEN f[Len(s)] ELSE Append(f[Len(s)], x)
  BY <1>1, KeepingMore
<1>3. Append(s, x) \in Seq(S) /\ Len(Append(s, x)) = Len(s) + 1
  BY AppendProperties
<1>4. Without(s, d) = f[Len(s)]
  BY <1>1, WithoutIs
<1>5. Without(Append(s, x), d) = g[Len(s) + 1]
  BY <1>2, <1>3, WithoutIs
<1>6. QED
  BY <1>2, <1>4, <1>5

\* Nothing that is dropped is left.
LEMMA WithoutLeft ==
  ASSUME NEW S, NEW s \in Seq(S), NEW d
  PROVE  Without(s, d) \in Seq(S \ d)
PROOF
<1> DEFINE Good == {t \in Seq(S) : Without(t, d) \in Seq(S \ d)}
<1>1. <<>> \in Good
  BY WithoutEmpty, EmptySeq
<1>2. ASSUME NEW t \in Good, NEW x \in S PROVE Append(t, x) \in Good
  <2>1. Append(t, x) \in Seq(S)
    BY AppendProperties
  <2>2. Without(Append(t, x), d) = IF x \in d THEN Without(t, d) ELSE Append(Without(t, d), x)
    BY WithoutAppend
  <2>3. x \notin d => Append(Without(t, d), x) \in Seq(S \ d)
    <3>1. SUFFICES ASSUME x \notin d PROVE Append(Without(t, d), x) \in Seq(S \ d)
      OBVIOUS
    <3>2. x \in S \ d /\ Without(t, d) \in Seq(S \ d)
      BY <3>1
    <3>3. QED
      BY <3>2, AppendProperties
  <2>4. QED
    BY <2>1, <2>2, <2>3
<1>3. \A t \in Seq(S) : t \in Good
  <2> HIDE DEF Good
  <2>1. Good \in SUBSET Seq(S)
    BY DEF Good
  <2>2. QED
    BY <1>1, <1>2, <2>1, SeqInduction
<1>4. QED
  BY <1>3

LEMMA AppendToConcat ==
  ASSUME NEW S, NEW s \in Seq(S), NEW t \in Seq(S), NEW x \in S
  PROVE  s \o Append(t, x) = Append(s \o t, x)
PROOF
<1>1. <<x>> \in Seq(S) /\ s \o t \in Seq(S)
  BY ConcatProperties
<1>2. Append(t, x) = t \o <<x>> /\ Append(s \o t, x) = (s \o t) \o <<x>>
  BY <1>1, AppendIsConcat
<1>3. QED
  BY <1>1, <1>2, ConcatAssociative

LEMMA WithoutConcat ==
  ASSUME NEW S, NEW s \in Seq(S), NEW t \in Seq(S), NEW d
  PROVE  Without(s \o t, d) = Without(s, d) \o Without(t, d)
PROOF
<1> DEFINE Good == {u \in Seq(S) : Without(s \o u, d) = Without(s, d) \o Without(u, d)}
<1>1. Without(s, d) \in Seq(S \ d)
  BY WithoutLeft
<1>2. <<>> \in Good
  <2>1. s \o <<>> = s /\ Without(s, d) \o <<>> = Without(s, d) /\ <<>> \in Seq(S)
    BY <1>1, ConcatEmptySeq, EmptySeq
  <2>2. QED
    BY <2>1, WithoutEmpty
<1>3. ASSUME NEW u \in Good, NEW x \in S PROVE Append(u, x) \in Good
  <2>1. Append(u, x) \in Seq(S) /\ s \o u \in Seq(S)
    BY AppendProperties, ConcatProperties
  <2>2. s \o Append(u, x) = Append(s \o u, x)
    BY AppendToConcat
  <2>3. Without(s \o Append(u, x), d)
          = IF x \in d THEN Without(s \o u, d) ELSE Append(Without(s \o u, d), x)
    <3> DEFINE v == s \o u
    <3> HIDE DEF v
    <3>1. v \in Seq(S)
      BY <2>1 DEF v
    <3>2. Without(Append(v, x), d) = IF x \in d THEN Without(v, d) ELSE Append(Without(v, d), x)
      BY <3>1, WithoutAppend
    <3>3. QED
      BY <2>2, <3>2 DEF v
  <2>4. Without(Append(u, x), d) = IF x \in d THEN Without(u, d) ELSE Append(Without(u, d), x)
    BY WithoutAppend
  <2>5. Without(s \o u, d) = Without(s, d) \o Without(u, d)
    OBVIOUS
  <2>6. CASE x \in d
    BY <2>1, <2>3, <2>4, <2>5, <2>6
  <2>7. CASE x \notin d
    <3>1. Without(u, d) \in Seq(S \ d) /\ x \in S \ d
      BY <2>7, WithoutLeft
    <3>2. Without(s, d) \o Append(Without(u, d), x) = Append(Without(s, d) \o Without(u, d), x)
      BY <1>1, <3>1, AppendToConcat
    <3>3. QED
      BY <2>1, <2>3, <2>4, <2>5, <2>7, <3>2
  <2>8. QED
    BY <2>6, <2>7
<1>4. \A u \in Seq(S) : u \in Good
  <2> HIDE DEF Good
  <2>1. Good \in SUBSET Seq(S)
    BY DEF Good
  <2>2. QED
    BY <1>2, <1>3, <2>1, SeqInduction
<1>5. QED
  BY <1>4

LEMMA WithoutNone ==
  ASSUME NEW S, NEW s \in Seq(S), NEW d, S \cap d = {}
  PROVE  Without(s, d) = s
PROOF
<1> DEFINE Good == {u \in Seq(S) : Without(u, d) = u}
<1>1. <<>> \in Good
  BY WithoutEmpty, EmptySeq
<1>2. ASSUME NEW u \in Good, NEW x \in S PROVE Append(u, x) \in Good
  <2>1. Append(u, x) \in Seq(S) /\ x \notin d
    BY AppendProperties
  <2>2. Without(Append(u, x), d) = Append(Without(u, d), x)
    BY <2>1, WithoutAppend
  <2>3. QED
    BY <2>1, <2>2
<1>3. \A u \in Seq(S) : u \in Good
  <2> HIDE DEF Good
  <2>1. Good \in SUBSET Seq(S)
    BY DEF Good
  <2>2. QED
    BY <1>1, <1>2, <2>1, SeqInduction
<1>4. QED
  BY <1>3

LEMMA WithoutAll ==
  ASSUME NEW S, NEW s \in Seq(S), NEW d, S \subseteq d
  PROVE  Without(s, d) = <<>>
PROOF
<1>1. Without(s, d) \in Seq({})
  <2>1. S \ d = {}
    OBVIOUS
  <2>2. QED
    BY <2>1, WithoutLeft
<1>2. QED
  BY <1>1, SequenceEmptyOrAppend

\* To drop some components first changes nothing.
LEMMA WithoutTwice ==
  ASSUME NEW S, NEW s \in Seq(S), NEW d, NEW e, d \subseteq e
  PROVE  Without(Without(s, d), e) = Without(s, e)
PROOF
<1> DEFINE Good == {u \in Seq(S) : Without(Without(u, d), e) = Without(u, e)}
<1>1. <<>> \in Good
  BY WithoutEmpty, EmptySeq
<1>2. ASSUME NEW u \in Good, NEW x \in S PROVE Append(u, x) \in Good
  <2>1. Append(u, x) \in Seq(S)
    BY AppendProperties
  <2>2. /\ Without(Append(u, x), d)
             = IF x \in d THEN Without(u, d) ELSE Append(Without(u, d), x)
        /\ Without(Append(u, x), e)
             = IF x \in e THEN Without(u, e) ELSE Append(Without(u, e), x)
    BY WithoutAppend
  <2>3. x \notin d => Without(Append(Without(u, d), x), e)
          = IF x \in e THEN Without(Without(u, d), e)
            ELSE Append(Without(Without(u, d), e), x)
    <3>1. SUFFICES ASSUME x \notin d
                   PROVE  Without(Append(Without(u, d), x), e)
                            = IF x \in e THEN Without(Without(u, d), e)
                              ELSE Append(Without(Without(u, d), e), x)
      OBVIOUS
    <3> DEFINE v == Without(u, d)
    <3>2. v \in Seq(S \ d) /\ x \in S \ d
      BY <3>1, WithoutLeft
    <3> HIDE DEF v
    <3>3. Without(Append(v, x), e) = IF x \in e THEN Without(v, e) ELSE Append(Without(v, e), x)
      BY <3>2, WithoutAppend, SMTT(30)
    <3>4. QED
      BY <3>3 DEF v
  <2>4. Without(Without(u, d), e) = Without(u, e)
    OBVIOUS
  <2>5. Without(Without(Append(u, x), d), e) = Without(Append(u, x), e)
    BY <2>2, <2>3, <2>4
  <2>6. QED
    BY <2>1, <2>5
<1>3. \A u \in Seq(S) : u \in Good
  <2> HIDE DEF Good
  <2>1. Good \in SUBSET Seq(S)
    BY DEF Good
  <2>2. QED
    BY <1>1, <1>2, <2>1, SeqInduction
<1>4. QED
  BY <1>3

-----------------------------------------------------------------------------
\* What a name is made of by path_new().
Items == Components \cup {Slash}

LEMMA ItemFacts ==
  /\ Empty \in Components /\ Dot \in Components /\ Empty.len = 0
  /\ Dot # Empty /\ Slash # Empty /\ Slash # Dot /\ Slash.len = 1 /\ Slash \notin Components
  /\ \A c \in Items : c.len \in Nat /\ (c.len = 0 <=> c = Empty)
PROOF
<1>1. <<>> \in Seq(Letters) /\ <<"dot">> \in Seq(Letters) /\ <<"slash">> \in Seq(Letters)
  BY NamesAssumption, EmptySeq
<1>2. Empty \in Components /\ Dot \in Components /\ Empty.len = 0 /\ Slash.len = 1
      /\ Dot # Empty /\ Slash # Empty /\ Slash # Dot /\ Slash \notin Components
  <2>1. <<"dot">> # <<"slash">> /\ <<>> # <<"dot">> /\ <<>> # <<"slash">>
    OBVIOUS
  <2>2. QED
    BY <1>1, <2>1 DEF Empty, Dot, Slash, Components
<1>3. ASSUME NEW c \in Components PROVE c.len \in Nat /\ (c.len = 0 <=> c = Empty)
  BY <1>3 DEF Components, Empty
<1>4. QED
  BY <1>2, <1>3 DEF Items

\* Length() goes through them from the start.
Summing(s, f) ==
  /\ f = [i \in 0..Len(s) |-> f[i]] /\ f[0] = 0
  /\ \A i \in 1..Len(s) : f[i] = f[i - 1] + s[i].len

LEMMA LengthIs ==
  ASSUME NEW S, NEW s \in Seq(S), NEW g, Summing(s, g)
  PROVE  Length(s) = Len(s) - 1 + g[Len(s)]
PROOF
<1> DEFINE Is(f) == f = [i \in 0..Len(s) |->
                           IF i = 0 THEN 0 ELSE f[i - 1] + s[i].len]
           sum == CHOOSE f : Is(f)
<1>1. Len(s) \in Nat
  BY LenProperties
<1>2. Is(g)
  <2>1. \A i \in 0..Len(s) :
          g[i] = IF i = 0 THEN 0 ELSE g[i - 1] + s[i].len
    <3> TAKE i \in 0..Len(s)
    <3>1. CASE i = 0
      BY <3>1 DEF Summing
    <3>2. CASE i \in 1..Len(s)
      BY <3>2 DEF Summing
    <3>3. QED
      BY <1>1, <3>1, <3>2
  <2>2. QED
    BY <2>1 DEF Summing
<1>3. Is(sum)
  BY <1>2
<1>4. Length(s) = Len(s) - 1 + sum[Len(s)]
  BY DEF Length
<1> HIDE DEF sum
<1>5. /\ sum[0] = 0
      /\ \A i \in 1..Len(s) :
           sum[i] = sum[i - 1] + s[i].len
  <2>1. \A i \in 0..Len(s) :
          sum[i] = IF i = 0 THEN 0 ELSE sum[i - 1] + s[i].len
    BY <1>3
  <2>2. QED
    BY <1>1, <2>1
<1> DEFINE Bad == {i \in 0..Len(s) : sum[i] # g[i]}
<1>6. SUFFICES ASSUME Bad # {} PROVE FALSE
  BY <1>1, <1>4
<1>7. PICK i \in Bad : \A j \in Bad : i <= j
  <2>1. Bad \in SUBSET Nat
    BY <1>1
  <2>2. QED
    BY <1>6, <2>1, LeastNumber
<1>8. i # 0
  BY <1>5, <1>7 DEF Summing
<1>9. i \in 1..Len(s) /\ i - 1 \in 0..Len(s) /\ i - 1 \notin Bad
  BY <1>1, <1>7, <1>8
<1>10. sum[i - 1] = g[i - 1]
  BY <1>9
<1>11. sum[i] = g[i]
  BY <1>5, <1>9, <1>10 DEF Summing
<1>12. QED
  BY <1>7, <1>11

LEMMA SummingMore ==
  ASSUME NEW S, NEW s \in Seq(S), NEW x \in S, NEW f, Summing(s, f)
  PROVE  \E g : /\ Summing(Append(s, x), g) /\ g[Len(s)] = f[Len(s)]
                /\ g[Len(s) + 1] = f[Len(s)] + x.len
PROOF
<1> DEFINE n == Len(s)
           last == f[n] + x.len
           t == Append(s, x)
           g == [i \in 0..(n + 1) |-> IF i <= n THEN f[i] ELSE last]
<1>1. /\ n \in Nat /\ Len(t) = n + 1 /\ t[n + 1] = x
      /\ \A i \in 1..n : t[i] = s[i]
  BY LenProperties, AppendProperties
<1>2. /\ f[0] = 0
      /\ \A i \in 1..n : f[i] = f[i - 1] + s[i].len
  BY DEF Summing
<1>3. g = [i \in 0..(n + 1) |-> g[i]]
  OBVIOUS
<1>4. g[n + 1] = last /\ \A i \in 0..n : g[i] = f[i]
  BY <1>1
<1> HIDE DEF g, last, t, n
<1>5. g[0] = 0
  BY <1>1, <1>2, <1>4
<1>6. \A i \in 1..(n + 1) : g[i] = g[i - 1] + t[i].len
  <2> TAKE i \in 1..(n + 1)
  <2>1. CASE i = n + 1
    <3>1. i - 1 = n
      BY <1>1, <2>1
    <3>2. g[i - 1] = f[n] /\ t[i] = x /\ g[i] = last
      BY <1>1, <1>4, <2>1, <3>1
    <3>3. QED
      BY <3>2 DEF last
  <2>2. CASE i \in 1..n
    <3>1. i - 1 \in 0..n /\ i \in 0..n
      BY <1>1, <2>2
    <3>2. g[i] = f[i] /\ g[i - 1] = f[i - 1] /\ t[i] = s[i]
      BY <1>1, <1>4, <2>2, <3>1
    <3>3. QED
      BY <1>2, <2>2, <3>2
  <2>3. QED
    BY <1>1, <2>1, <2>2
<1>7. Summing(t, g)
  BY <1>1, <1>3, <1>5, <1>6 DEF Summing
<1>8. g[n] = f[n]
  BY <1>1, <1>4
<1>9. QED
  BY <1>4, <1>7, <1>8 DEF last, t, n

LEMMA SummingExists ==
  ASSUME NEW S, NEW s \in Seq(S)
  PROVE  \E f : Summing(s, f)
PROOF
<1> DEFINE Good == {t \in Seq(S) : \E f : Summing(t, f)}
<1>1. <<>> \in Good
  <2> DEFINE f == [i \in 0..0 |-> 0]
  <2>1. Summing(<<>>, f)
    BY EmptySeq DEF Summing
  <2>2. QED
    BY <2>1, EmptySeq
<1>2. ASSUME NEW t \in Good, NEW x \in S PROVE Append(t, x) \in Good
  BY SummingMore, AppendProperties
<1> HIDE DEF Good
<1>3. \A t \in Seq(S) : t \in Good
  <2>1. Good \in SUBSET Seq(S)
    BY DEF Good
  <2>2. QED
    BY <1>1, <1>2, <2>1, SeqInduction
<1>4. QED
  BY <1>3 DEF Good

LEMMA LengthEmpty == Length(<<>>) = -1
PROOF
<1>1. <<>> \in Seq({}) /\ Len(<<>>) = 0
  BY EmptySeq
<1>2. PICK f : Summing(<<>>, f)
  BY <1>1, SummingExists
<1>3. Length(<<>>) = Len(<<>>) - 1 + f[0]
  BY <1>1, <1>2, LengthIs
<1>4. QED
  BY <1>1, <1>2, <1>3 DEF Summing

\* An item more has its length and that of the slash before it.
LEMMA LengthAppend ==
  ASSUME NEW s \in Seq(Items), NEW x \in Items
  PROVE  /\ Length(s) \in Int
         /\ Length(Append(s, x)) = Length(s) + 1 + x.len
PROOF
<1> DEFINE Good == {t \in Seq(Items) : \E f : Summing(t, f) /\ f[Len(t)] \in Nat}
<1>1. <<>> \in Good
  <2> DEFINE f == [i \in 0..0 |-> 0]
  <2>1. Summing(<<>>, f) /\ f[Len(<<>>)] \in Nat
    BY EmptySeq DEF Summing
  <2>2. QED
    BY <2>1, EmptySeq
<1>2. ASSUME NEW t \in Good, NEW y \in Items PROVE Append(t, y) \in Good
  <2>1. PICK f : Summing(t, f) /\ f[Len(t)] \in Nat
    OBVIOUS
  <2>2. PICK g : Summing(Append(t, y), g) /\ g[Len(t) + 1] = f[Len(t)] + y.len
    BY <2>1, SummingMore
  <2>3. Append(t, y) \in Seq(Items) /\ Len(Append(t, y)) = Len(t) + 1
    BY AppendProperties
  <2>4. g[Len(Append(t, y))] \in Nat
    BY <2>1, <2>2, <2>3, ItemFacts
  <2>5. QED
    BY <2>2, <2>3, <2>4
<1>3. s \in Good
  <2> HIDE DEF Good
  <2>1. Good \in SUBSET Seq(Items)
    BY DEF Good
  <2>2. QED
    BY <1>1, <1>2, <2>1, SeqInduction
<1>4. PICK f : Summing(s, f) /\ f[Len(s)] \in Nat
  BY <1>3
<1>5. PICK g : Summing(Append(s, x), g) /\ g[Len(s) + 1] = f[Len(s)] + x.len
  BY <1>4, SummingMore
<1>6. Append(s, x) \in Seq(Items) /\ Len(Append(s, x)) = Len(s) + 1 /\ Len(s) \in Nat
  BY AppendProperties, LenProperties
<1>7. Length(s) = Len(s) - 1 + f[Len(s)]
  BY <1>4, LengthIs
<1>8. Length(Append(s, x)) = Len(Append(s, x)) - 1 + g[Len(Append(s, x))]
  BY <1>5, <1>6, LengthIs
<1>9. QED
  BY <1>4, <1>5, <1>6, <1>7, <1>8, ItemFacts

LEMMA LengthConcat ==
  ASSUME NEW s \in Seq(Items), NEW t \in Seq(Items)
  PROVE  Length(s \o t) = Length(s) + Length(t) + 1
PROOF
<1> DEFINE Good == {u \in Seq(Items) : Length(s \o u) = Length(s) + Length(u) + 1}
<1>0. Length(s) \in Int
  BY LengthAppend, ItemFacts DEF Items
<1>1. <<>> \in Good
  BY <1>0, LengthEmpty, EmptySeq, ConcatEmptySeq
<1>2. ASSUME NEW u \in Good, NEW x \in Items PROVE Append(u, x) \in Good
  <2>1. Append(u, x) \in Seq(Items) /\ s \o u \in Seq(Items)
    BY AppendProperties, ConcatProperties
  <2>2. s \o Append(u, x) = Append(s \o u, x)
    BY AppendToConcat
  <2>3. Length(Append(u, x)) = Length(u) + 1 + x.len /\ Length(u) \in Int
    BY LengthAppend
  <2>4. Length(Append(s \o u, x)) = Length(s \o u) + 1 + x.len
    BY <2>1, LengthAppend
  <2>5. Length(s \o u) = Length(s) + Length(u) + 1
    OBVIOUS
  <2>6. Length(s \o Append(u, x)) = Length(s) + Length(Append(u, x)) + 1
    BY <1>0, <2>2, <2>3, <2>4, <2>5, ItemFacts, SMTT(30)
  <2>7. QED
    BY <2>1, <2>6
<1>3. t \in Good
  <2> HIDE DEF Good
  <2>1. Good \in SUBSET Seq(Items)
    BY DEF Good
  <2>2. QED
    BY <1>1, <1>2, <2>1, SeqInduction
<1>4. QED
  BY <1>3

\* Items that are not empty need at least a character and a slash each.
LEMMA LengthAtLeast ==
  ASSUME NEW s \in Seq(Items \ {Empty})
  PROVE  Length(s) \in Int /\ Len(s) \in Nat /\ Length(s) >= 2 * Len(s) - 1
PROOF
<1> DEFINE T == Items \ {Empty}
           Good == {u \in Seq(T) : Length(u) \in Int /\ Length(u) >= 2 * Len(u) - 1}
<1>1. <<>> \in Good
  BY LengthEmpty, EmptySeq
<1>2. ASSUME NEW u \in Good, NEW x \in T PROVE Append(u, x) \in Good
  <2>1. Append(u, x) \in Seq(T) /\ Len(Append(u, x)) = Len(u) + 1 /\ Len(u) \in Nat
        /\ u \in Seq(Items) /\ x \in Items
    BY AppendProperties, LenProperties, SeqMonotonic
  <2>2. Length(Append(u, x)) = Length(u) + 1 + x.len
    BY <2>1, LengthAppend
  <2>3. x.len \in Nat /\ x.len # 0
    BY <2>1, ItemFacts
  <2>4. QED
    BY <2>1, <2>2, <2>3
<1>3. s \in Good
  <2> HIDE DEF Good
  <2>1. Good \in SUBSET Seq(T)
    BY DEF Good
  <2>2. QED
    BY <1>1, <1>2, <2>1, SeqInduction
<1>4. QED
  BY <1>3, LenProperties

-----------------------------------------------------------------------------
\* What path_new() makes of a name that is more than slashes.
Real  == Components \ {Empty}
Proper == Components \ {Empty, Dot}
Kept(items) == <<Head(items)>> \o Without(Tail(items), {Dot})
OnlyFirstDot(s) == \A i \in 2..Len(s) : s[i] # Dot

LEMMA InRange ==
  ASSUME NEW S, NEW T, NEW s \in Seq(S), \A i \in 1..Len(s) : s[i] \in T
  PROVE  s \in Seq(T)
PROOF
<1>1. Len(s) \in Nat /\ s \in [1..Len(s) -> S]
  BY LenProperties
<1>2. s \in [1..Len(s) -> T]
  BY <1>1
<1>3. QED
  BY <1>1, <1>2

LEMMA HeadAndTail ==
  ASSUME NEW S, NEW s \in Seq(S), s # <<>>
  PROVE  /\ s = <<Head(s)>> \o Tail(s) /\ <<Head(s)>> \in Seq(S) /\ Tail(s) \in Seq(S)
PROOF
<1> DEFINE h == <<Head(s)>>
           t == Tail(s)
<1>1. /\ Head(s) \in S /\ t \in Seq(S) /\ Len(t) = Len(s) - 1
      /\ \A i \in 1..Len(t) : t[i] = s[i + 1]
  BY HeadTailProperties
<1>2. Len(s) \in Nat \ {0} /\ Head(s) = s[1]
  BY EmptySeq
<1>3. h \in Seq(S) /\ Len(h) = 1 /\ h[1] = s[1]
  BY <1>1, <1>2
<1> HIDE DEF h, t
<1>4. /\ h \o t \in Seq(S) /\ Len(h \o t) = Len(h) + Len(t)
      /\ \A i \in 1..(Len(h) + Len(t)) :
           (h \o t)[i] = IF i <= Len(h) THEN h[i] ELSE t[i - Len(h)]
  <2>1. h \in Seq(S) /\ t \in Seq(S)
    BY <1>1, <1>3
  <2>2. QED
    BY <2>1, ConcatProperties
<1>5. Len(h \o t) = Len(s)
  BY <1>1, <1>2, <1>3, <1>4
<1>6. \A i \in 1..Len(s) : s[i] = (h \o t)[i]
  <2> TAKE i \in 1..Len(s)
  <2>1. CASE i = 1
    BY <1>1, <1>2, <1>3, <1>4, <2>1
  <2>2. CASE i # 1
    <3>1. i - 1 \in 1..Len(t) /\ i \in 1..(Len(h) + Len(t)) /\ ~(i <= Len(h))
      BY <1>1, <1>2, <1>3, <2>2
    <3>2. QED
      BY <1>1, <1>2, <1>3, <1>4, <3>1
  <2>3. QED
    BY <2>1, <2>2
<1>7. s = h \o t
  BY <1>4, <1>5, <1>6, SeqEqual
<1>8. QED
  BY <1>1, <1>3, <1>7 DEF h, t

LEMMA ConcatThree ==
  ASSUME NEW S, NEW s \in Seq(S), NEW t \in Seq(S), NEW u \in Seq(S)
  PROVE  (s \o t) \o u = s \o (t \o u)
BY ConcatAssociative

LEMMA KeptFacts ==
  ASSUME NEW items \in Seq(Real), items # <<>>
  PROVE  /\ Kept(items) \in Seq(Real) /\ Kept(items) # <<>>
         /\ OnlyFirstDot(Kept(items))
         /\ Meaning(Kept(items)) = Meaning(items)
         /\ OnlyFirstDot(items) => Kept(items) = items
PROOF
<1> DEFINE h == <<Head(items)>>
           t == Tail(items)
           u == Without(t, {Dot})
<1>1. items = h \o t /\ h \in Seq(Real) /\ t \in Seq(Real) /\ Kept(items) = h \o u
  BY HeadAndTail DEF Kept
<1>2. Len(h) = 1 /\ Len(t) = Len(items) - 1 /\ Len(items) \in Nat
      /\ \A i \in 1..Len(t) : t[i] = items[i + 1]
  BY HeadTailProperties, LenProperties
<1> HIDE DEF h, t
<1>3. u \in Seq(Real \ {Dot})
  BY <1>1, WithoutLeft
<1>4. u \in Seq(Real)
  BY <1>3, SeqMonotonic
<1>5. /\ h \o u \in Seq(Real) /\ Len(h \o u) = 1 + Len(u) /\ Len(u) \in Nat
      /\ \A i \in 1..(1 + Len(u)) : (h \o u)[i] = IF i <= 1 THEN h[i] ELSE u[i - 1]
  BY <1>1, <1>2, <1>4, ConcatProperties, LenProperties
<1>6. OnlyFirstDot(h \o u)
  <2>1. \A i \in 1..Len(u) : u[i] # Dot
    BY <1>3, ElementOfSeq
  <2>2. ASSUME NEW i \in 2..Len(h \o u) PROVE (h \o u)[i] # Dot
    <3>1. i \in 1..(1 + Len(u)) /\ ~(i <= 1) /\ i - 1 \in 1..Len(u)
      BY <1>5
    <3>2. (h \o u)[i] = u[i - 1]
      BY <1>5, <3>1
    <3>3. QED
      BY <2>1, <3>1, <3>2
  <2>3. QED
    BY <2>2 DEF OnlyFirstDot
<1>7. Meaning(h \o u) = Meaning(items)
  <2> DEFINE e == {Empty, Dot}
  <2>0. {Dot} \subseteq e
    OBVIOUS
  <2> HIDE DEF e
  <2>1. Without(h \o u, e) = Without(h, e) \o Without(u, e)
    <3> HIDE DEF u
    <3>1. h \in Seq(Real) /\ u \in Seq(Real)
      BY <1>1, <1>4
    <3>2. QED
      BY <3>1, WithoutConcat
  <2>2. Without(u, e) = Without(t, e)
    BY <1>1, <2>0, WithoutTwice
  <2>3. Without(h \o t, e) = Without(h, e) \o Without(t, e)
    BY <1>1, WithoutConcat
  <2>4. QED
    BY <1>1, <2>1, <2>2, <2>3 DEF Meaning, e
<1>8. OnlyFirstDot(items) => u = t
  <2>1. SUFFICES ASSUME OnlyFirstDot(items) PROVE u = t
    OBVIOUS
  <2>2. \A i \in 1..Len(t) : t[i] \in Real \ {Dot}
    <3>1. ASSUME NEW i \in 1..Len(t) PROVE t[i] # Dot
      <4>1. i + 1 \in 2..Len(items) /\ t[i] = items[i + 1]
        BY <1>2
      <4>2. QED
        BY <2>1, <4>1 DEF OnlyFirstDot
    <3>2. QED
      BY <1>1, <3>1, ElementOfSeq
  <2>3. t \in Seq(Real \ {Dot})
    BY <1>1, <2>2, InRange
  <2>4. QED
    BY <2>3, WithoutNone
<1>9. h \o u # <<>>
  BY <1>5, EmptySeq
<1>10. QED
  BY <1>1, <1>5, <1>6, <1>7, <1>8, <1>9

LEMMA PathNew ==
  ASSUME NEW s \in Strings
  PROVE  LET items == Without(s, {Empty}) IN
         /\ s \in Seq(Components) /\ s # <<>>
         /\ items \in Seq(Real) /\ Meaning(items) = Meaning(s)
         /\ items = <<>> => path_new(s) \in {<<>>, <<Slash>>} /\ Meaning(s) = <<>>
         /\ items # <<>> => path_new(s) \in {Kept(items), <<Empty>> \o Kept(items)}
PROOF
<1> DEFINE items == Without(s, {Empty})
<1>1. s \in Seq(Components) /\ s # <<>>
  BY DEF Strings
<1>2. items \in Seq(Real)
  BY <1>1, WithoutLeft DEF Real
<1>3. Meaning(items) = Meaning(s)
  BY <1>1, WithoutTwice DEF Meaning
<1>4. items = <<>> => path_new(s) \in {<<>>, <<Slash>>} /\ Meaning(s) = <<>>
  <2>1. SUFFICES ASSUME items = <<>>
                 PROVE  path_new(s) \in {<<>>, <<Slash>>} /\ Meaning(s) = <<>>
    OBVIOUS
  <2>2. Meaning(s) = <<>>
    BY <1>3, <2>1, WithoutEmpty DEF Meaning
  <2>3. QED
    BY <2>1, <2>2 DEF path_new
<1>5. items # <<>> => path_new(s) \in {Kept(items), <<Empty>> \o Kept(items)}
  <2>1. SUFFICES ASSUME items # <<>>
                 PROVE  path_new(s) \in {Kept(items), <<Empty>> \o Kept(items)}
    OBVIOUS
  <2>2. \E leading \in {<<>>, <<Empty>>} :
          path_new(s) = (leading \o <<Head(items)>>) \o Without(Tail(items), {Dot})
    BY <2>1 DEF path_new
  <2>3. PICK leading : /\ leading = <<>> \/ leading = <<Empty>>
                       /\ path_new(s) = (leading \o <<Head(items)>>)
                                          \o Without(Tail(items), {Dot})
    BY <2>2
  <2> DEFINE h == <<Head(items)>>
             u == Without(Tail(items), {Dot})
  <2>4. h \in Seq(Components) /\ Tail(items) \in Seq(Components)
    <3>1. items \in Seq(Components)
      BY <1>2, SeqMonotonic DEF Real
    <3>2. QED
      BY <2>1, <3>1, HeadAndTail
  <2>5. u \in Seq(Components \ {Dot})
    BY <2>4, WithoutLeft
  <2>6. u \in Seq(Components)
    BY <2>5, SeqMonotonic
  <2>7. leading \in Seq(Components)
    <3>1. <<>> \in Seq(Components) /\ <<Empty>> \in Seq(Components)
      BY ItemFacts, EmptySeq
    <3>2. QED
      BY <2>3, <3>1
  <2> HIDE DEF h, u
  <2>8. (leading \o h) \o u = leading \o (h \o u)
    BY <2>4, <2>6, <2>7, ConcatThree
  <2>9. h \o u \in Seq(Components)
    BY <2>4, <2>6, ConcatProperties
  <2>10. leading = <<>> => leading \o (h \o u) = h \o u
    BY <2>9, ConcatEmptySeq
  <2>11. Kept(items) = h \o u
    BY DEF Kept, h, u
  <2>12. path_new(s) = leading \o Kept(items)
    BY <2>3, <2>8, <2>11 DEF h, u
  <2>13. QED
    BY <2>3, <2>10, <2>11, <2>12
<1>6. QED
  BY <1>1, <1>2, <1>3, <1>4, <1>5

LEMMA ConsHeadTail ==
  ASSUME NEW S, NEW x \in S, NEW t \in Seq(S)
  PROVE  /\ <<x>> \o t \in Seq(S) /\ <<x>> \o t # <<>> /\ Len(<<x>> \o t) = 1 + Len(t)
         /\ Head(<<x>> \o t) = x /\ Tail(<<x>> \o t) = t
         /\ (<<x>> \o t)[1] = x /\ \A i \in 1..Len(t) : (<<x>> \o t)[1 + i] = t[i]
PROOF
<1> DEFINE h == <<x>>
           u == h \o t
<1>1. h \in Seq(S) /\ Len(h) = 1 /\ h[1] = x /\ Len(t) \in Nat
  BY LenProperties
<1> HIDE DEF h
<1>2. /\ u \in Seq(S) /\ Len(u) = Len(h) + Len(t)
      /\ \A i \in 1..(Len(h) + Len(t)) : u[i] = IF i <= Len(h) THEN h[i] ELSE t[i - Len(h)]
  BY <1>1, ConcatProperties
<1> HIDE DEF u
<1>3. u[1] = x /\ \A i \in 1..Len(t) : u[1 + i] = t[i]
  BY <1>1, <1>2
<1>4. u # <<>>
  BY <1>1, <1>2, EmptySeq
<1>5. Head(u) = x
  BY <1>2, <1>3, <1>4
<1>6. /\ Tail(u) \in Seq(S) /\ Len(Tail(u)) = Len(t)
      /\ \A i \in 1..Len(Tail(u)) : Tail(u)[i] = u[i + 1]
  <2>1. /\ Tail(u) \in Seq(S) /\ Len(Tail(u)) = Len(u) - 1
        /\ \A i \in 1..Len(Tail(u)) : Tail(u)[i] = u[i + 1]
    BY <1>2, <1>4, HeadTailProperties
  <2>2. QED
    BY <1>1, <1>2, <2>1
<1>7. Tail(u) = t
  <2> DEFINE v == Tail(u)
  <2>1. v \in Seq(S) /\ Len(v) = Len(t) /\ \A i \in 1..Len(v) : v[i] = t[i]
    BY <1>3, <1>6
  <2> HIDE DEF v
  <2>2. v = t
    BY <2>1, SeqEqual
  <2>3. QED
    BY <2>2 DEF v
<1>8. QED
  BY <1>1, <1>2, <1>3, <1>4, <1>5, <1>7 DEF u, h

\* The parts that path_split() divides.
PartsOf(name) ==
  LET items == path_new(name) IN IF Head(items).len = 0 THEN Tail(items) ELSE items

LEMMA PartsFacts ==
  ASSUME NEW m \in Strings, path_new(m) # <<>>
  PROVE  PartsOf(m) = IF Without(m, {Empty}) = <<>> THEN <<Slash>>
                      ELSE Kept(Without(m, {Empty}))
PROOF
<1> DEFINE items == Without(m, {Empty})
<1>1. /\ items \in Seq(Real)
      /\ items = <<>> => path_new(m) \in {<<>>, <<Slash>>}
      /\ items # <<>> => path_new(m) \in {Kept(items), <<Empty>> \o Kept(items)}
  BY PathNew
<1> HIDE DEF items
<1>2. CASE items = <<>>
  <2>1. path_new(m) = <<Slash>>
    BY <1>1, <1>2
  <2>2. PartsOf(m) = <<Slash>>
    BY <2>1, ItemFacts DEF PartsOf
  <2>3. QED
    BY <1>2, <2>2 DEF items
<1>3. CASE items # <<>>
  <2> DEFINE u == Kept(items)
  <2>1. u \in Seq(Real) /\ u # <<>>
    BY <1>1, <1>3, KeptFacts
  <2>2. u \in Seq(Components)
    BY <2>1, SeqMonotonic DEF Real
  <2> HIDE DEF u
  <2>3. Head(u) \in Real
    BY <2>1, HeadTailProperties
  <2>4. Head(u).len # 0
    BY <2>3, ItemFacts DEF Real, Items
  <2>5. Head(<<Empty>> \o u) = Empty /\ Tail(<<Empty>> \o u) = u
    BY <2>2, ItemFacts, ConsHeadTail
  <2>6. path_new(m) \in {u, <<Empty>> \o u}
    BY <1>1, <1>3 DEF u
  <2>7. PartsOf(m) = u
    BY <2>4, <2>5, <2>6, ItemFacts DEF PartsOf
  <2>8. QED
    BY <1>3, <2>7 DEF u, items
<1>4. QED
  BY <1>2, <1>3

\* A name that was cleaned, or that entries were added to: "." is only ever its first
\* component, and only slashes end in one.
Tidy(c) ==
  /\ c \in Strings
  /\ OnlyFirstDot(Without(c, {Empty}))
  /\ Without(c, {Empty}) # <<>> => Last(c) # Empty

LEMMA AddedTo ==
  ASSUME NEW c \in Seq(Components), NEW b \in Seq(Proper)
  PROVE  /\ c \o b \in Seq(Components)
         /\ Without(c \o b, {Empty}) = Without(c, {Empty}) \o b
         /\ Meaning(c \o b) = Meaning(c) \o b
PROOF
<1>1. b \in Seq(Components)
  BY SeqMonotonic DEF Proper
<1>2. Without(b, {Empty}) = b /\ Without(b, {Empty, Dot}) = b
  <2>1. b \in Seq(Components \ {Empty})
    BY SeqMonotonic DEF Proper
  <2>2. Without(b, {Empty}) = b
    BY <2>1, WithoutNone
  <2>3. b \in Seq(Components \ {Empty, Dot})
    BY DEF Proper
  <2>4. Without(b, {Empty, Dot}) = b
    BY <2>3, WithoutNone
  <2>5. QED
    BY <2>2, <2>4
<1>3. Without(c \o b, {Empty}) = Without(c, {Empty}) \o Without(b, {Empty})
  BY <1>1, WithoutConcat
<1>4. Without(c \o b, {Empty, Dot}) = Without(c, {Empty, Dot}) \o Without(b, {Empty, Dot})
  BY <1>1, WithoutConcat
<1>5. c \o b \in Seq(Components)
  BY <1>1, ConcatProperties
<1>6. QED
  BY <1>2, <1>3, <1>4, <1>5 DEF Meaning

LEMMA TidyMore ==
  ASSUME NEW c \in Seq(Components), OnlyFirstDot(Without(c, {Empty})),
         NEW b \in Seq(Proper), b # <<>>
  PROVE  Tidy(c \o b)
PROOF
<1> DEFINE t == Without(c, {Empty})
           u == c \o b
<1>1. u \in Seq(Components) /\ Without(u, {Empty}) = t \o b
  BY AddedTo
<1>2. Len(b) \in Nat \ {0} /\ Len(c) \in Nat
  BY EmptySeq, LenProperties
<1>3. b \in Seq(Components) /\ t \in Seq(Components) /\ Len(t) \in Nat
  <2>1. t \in Seq(Components \ {Empty})
    BY WithoutLeft
  <2>2. b \in Seq(Components) /\ t \in Seq(Components)
    BY <2>1, SeqMonotonic DEF Proper
  <2>3. QED
    BY <2>2, LenProperties
<1> HIDE DEF t
<1>4. /\ Len(u) = Len(c) + Len(b)
      /\ u[Len(c) + Len(b)] = b[Len(b)]
  <2>1. /\ Len(u) = Len(c) + Len(b)
        /\ \A i \in 1..(Len(c) + Len(b)) : u[i] = IF i <= Len(c) THEN c[i] ELSE b[i - Len(c)]
    BY <1>3, ConcatProperties
  <2> HIDE DEF u
  <2>2. QED
    BY <1>2, <2>1
<1>5. b[Len(b)] \in Proper
  BY <1>2, ElementOfSeq
<1>6. u # <<>>
  BY <1>2, <1>4, EmptySeq
<1>7. OnlyFirstDot(t \o b)
  <2>1. /\ Len(t \o b) = Len(t) + Len(b)
        /\ \A i \in 1..(Len(t) + Len(b)) : (t \o b)[i] = IF i <= Len(t) THEN t[i] ELSE b[i - Len(t)]
    BY <1>3, ConcatProperties
  <2>2. \A i \in 2..Len(t) : t[i] # Dot
    BY DEF OnlyFirstDot, t
  <2>3. \A i \in 1..Len(b) : b[i] # Dot
    BY ElementOfSeq DEF Proper
  <2>4. ASSUME NEW i \in 2..Len(t \o b) PROVE (t \o b)[i] # Dot
    <3>1. CASE i <= Len(t)
      BY <1>2, <1>3, <2>1, <2>2, <3>1
    <3>2. CASE ~(i <= Len(t))
      <4>1. i - Len(t) \in 1..Len(b) /\ i \in 1..(Len(t) + Len(b))
        BY <1>2, <1>3, <2>1, <3>2
      <4>2. (t \o b)[i] = b[i - Len(t)]
        BY <2>1, <3>2, <4>1
      <4>3. QED
        BY <2>3, <4>1, <4>2
    <3>3. QED
      BY <3>1, <3>2
  <2>5. QED
    BY <2>4 DEF OnlyFirstDot
<1>8. Last(u) # Empty
  BY <1>2, <1>4, <1>5 DEF Last, Proper
<1>9. QED
  BY <1>1, <1>6, <1>7, <1>8 DEF Tidy, Strings

LEMMA PathClean ==
  ASSUME NEW s \in Strings
  PROVE  Tidy(path_clean(s)) /\ Meaning(path_clean(s)) = Meaning(s)
PROOF
<1> DEFINE items == Without(s, {Empty})
<1>1. /\ s \in Seq(Components) /\ items \in Seq(Real) /\ Meaning(items) = Meaning(s)
      /\ items = <<>> => path_new(s) \in {<<>>, <<Slash>>} /\ Meaning(s) = <<>>
      /\ items # <<>> => path_new(s) \in {Kept(items), <<Empty>> \o Kept(items)}
  BY PathNew
<1> HIDE DEF items
<1>2. CASE items = <<>>
  <2>1. path_clean(s) \in {<<Empty>>, Root}
    BY <1>1, <1>2 DEF path_clean, join
  <2>2. ASSUME NEW c \in {<<Empty>>, Root} PROVE Tidy(c) /\ Meaning(c) = <<>>
    <3>1. c \in Seq({Empty}) /\ c \in Seq(Components) /\ c # <<>>
      <4>1. <<Empty>> \in Seq({Empty}) /\ <<Empty, Empty>> \in Seq({Empty})
        OBVIOUS
      <4>2. <<Empty>> # <<>> /\ <<Empty, Empty>> # <<>>
        OBVIOUS
      <4>3. c \in Seq({Empty}) /\ c # <<>>
        BY <4>1, <4>2 DEF Root
      <4>4. QED
        BY <4>3, ItemFacts, SeqMonotonic
    <3>2. Without(c, {Empty}) = <<>> /\ Meaning(c) = <<>>
      BY <3>1, WithoutAll DEF Meaning
    <3>3. OnlyFirstDot(<<>>)
      BY EmptySeq DEF OnlyFirstDot
    <3>4. QED
      BY <3>1, <3>2, <3>3 DEF Tidy, Strings
  <2>3. QED
    BY <1>1, <1>2, <2>1, <2>2
<1>3. CASE items # <<>>
  <2> DEFINE u == Kept(items)
  <2>1. /\ u \in Seq(Real) /\ u # <<>> /\ OnlyFirstDot(u) /\ Meaning(u) = Meaning(s)
    BY <1>1, <1>3, KeptFacts
  <2>2. u \in Seq(Components)
    BY <2>1, SeqMonotonic DEF Real
  <2>3. path_new(s) \in {u, <<Empty>> \o u}
    BY <1>1, <1>3
  <2> HIDE DEF u
  <2>4. /\ <<Empty>> \o u # <<>> /\ <<Empty>> \o u \in Seq(Components)
        /\ (<<Empty>> \o u)[1] = Empty
        /\ Len(<<Empty>> \o u) = 1 + Len(u) /\ \A i \in 1..Len(u) : (<<Empty>> \o u)[1 + i] = u[i]
    BY <2>2, ItemFacts, ConsHeadTail
  <2>5. Len(u) \in Nat \ {0}
    BY <2>1, EmptySeq
  <2>6. u[1] \in Real /\ u[Len(u)] \in Real
    BY <2>1, <2>5, ElementOfSeq
  <2>7. path_clean(s) \in {u, <<Empty>> \o u}
    <3>1. u # <<Slash>> /\ <<Empty>> \o u # <<Slash>>
      <4>1. \A x : x = <<Slash>> => x[1] = Slash
        OBVIOUS
      <4>2. QED
        BY <2>4, <2>6, <4>1, ItemFacts DEF Real
    <3>2. QED
      BY <2>1, <2>3, <2>4, <3>1 DEF path_clean, join
  <2>8. Without(u, {Empty}) = u
    BY <2>1, WithoutNone DEF Real
  <2>9. Without(<<Empty>>, {Empty}) = <<>> /\ Without(<<Empty>>, {Empty, Dot}) = <<>>
    <3>1. <<Empty>> \in Seq({Empty})
      OBVIOUS
    <3>2. QED
      BY <3>1, WithoutAll
  <2>10. Without(<<Empty>> \o u, {Empty}) = u /\ Meaning(<<Empty>> \o u) = Meaning(u)
    <3>1. <<Empty>> \in Seq(Components)
      BY ItemFacts
    <3> DEFINE e == <<Empty>>
    <3>a. e \in Seq(Components)
      BY <3>1
    <3> HIDE DEF e
    <3>2. /\ Without(e \o u, {Empty}) = Without(e, {Empty}) \o Without(u, {Empty})
          /\ Without(e \o u, {Empty, Dot}) = Without(e, {Empty, Dot}) \o Without(u, {Empty, Dot})
      <4>1. Without(e \o u, {Empty}) = Without(e, {Empty}) \o Without(u, {Empty})
        BY <2>2, <3>a, WithoutConcat
      <4>2. Without(e \o u, {Empty, Dot}) = Without(e, {Empty, Dot}) \o Without(u, {Empty, Dot})
        BY <2>2, <3>a, WithoutConcat
      <4>3. QED
        BY <4>1, <4>2
    <3>3. Without(u, {Empty, Dot}) \in Seq(Real \ {Empty, Dot})
      BY <2>1, WithoutLeft
    <3>4. <<>> \o u = u /\ <<>> \o Without(u, {Empty, Dot}) = Without(u, {Empty, Dot})
      BY <2>2, <3>3, ConcatEmptySeq
    <3>5. QED
      BY <2>8, <2>9, <3>2, <3>4 DEF e, Meaning
  <2>11. Last(u) # Empty /\ Last(<<Empty>> \o u) # Empty
    <3>1. Len(u) \in 1..Len(u)
      BY <2>5
    <3>2. (<<Empty>> \o u)[1 + Len(u)] = u[Len(u)]
      BY <2>4, <3>1
    <3>3. QED
      BY <2>4, <2>6, <3>2 DEF Last, Real
  <2>12. QED
    BY <2>1, <2>2, <2>4, <2>7, <2>8, <2>10, <2>11 DEF Tidy, Strings
<1>4. QED
  BY <1>2, <1>3

-----------------------------------------------------------------------------
\* The path of an entry, and the member name it is given.
ItemPath(path, b) ==
  IF path = Root THEN IF b = <<>> THEN Root ELSE <<Empty>> \o b ELSE path \o b
Named(path, member, b) ==
  IF b = <<>> THEN member ELSE subst_member_name(path, member, ItemPath(path, b))

\* The rest of a string after its beginning.
LEMMA Remainder ==
  ASSUME NEW S, NEW s \in Seq(S), NEW t \in Seq(S), t # <<>>
  PROVE  SubSeq(s \o t, Len(s) + 1, Len(s \o t)) = t
PROOF
<1> DEFINE n == Len(s) + Len(t)
<1>1. Len(s \o t) = n /\ Len(s) \in Nat /\ Len(t) \in Nat \ {0}
  BY ConcatProperties, LenProperties, EmptySeq
<1>2. Len(s) + 1 \in (Len(s) + 1)..n /\ n \in (Len(s) + 1)..n
  BY <1>1
<1>3. SubSeq(s \o t, Len(s) + 1, n) = SubSeq(t, Len(s) + 1 - Len(s), n - Len(s))
  <2> DEFINE m == Len(s) + 1
  <2>1. m \in (Len(s) + 1)..(Len(s) + Len(t)) /\ n \in (Len(s) + 1)..(Len(s) + Len(t))
    BY <1>2
  <2> HIDE DEF m, n
  <2>2. SubSeq(s \o t, m, n) = SubSeq(t, m - Len(s), n - Len(s))
    BY <2>1, SubSeqOfConcat2
  <2>3. QED
    BY <2>2 DEF m, n
<1>4. Len(s) + 1 - Len(s) = 1 /\ n - Len(s) = Len(t)
  BY <1>1
<1>5. SubSeq(t, 1, Len(t)) = t
  BY SubSeqFull
<1>6. QED
  BY <1>1, <1>3, <1>4, <1>5

\* A string is all but its last component, and that.
LEMMA FrontAndLast ==
  ASSUME NEW S, NEW s \in Seq(S), s # <<>>
  PROVE  /\ Front(s) \in Seq(S) /\ Last(s) \in S /\ s = Append(Front(s), Last(s))
         /\ Len(s) = Len(Front(s)) + 1 /\ Len(Front(s)) \in Nat
PROOF
<1>1. PICK t \in Seq(S), x \in S : s = Append(t, x)
  BY SequenceEmptyOrAppend
<1>2. /\ Len(s) = Len(t) + 1 /\ Len(t) \in Nat
      /\ \A i \in 1..Len(t) : s[i] = t[i]
      /\ s[Len(t) + 1] = x
  BY <1>1, AppendProperties, LenProperties
<1>3. Last(s) = x
  BY <1>2 DEF Last
<1>4. Front(s) = t
  <2> DEFINE n == Len(s) - 1
             u == SubSeq(s, 1, n)
  <2>1. n = Len(t) /\ n \in Int /\ 1 \in Int
    BY <1>2
  <2>2. \A i \in 1..n : s[i] \in S
    BY <1>2, <2>1, ElementOfSeq
  <2> HIDE DEF n
  <2>3. /\ u \in Seq(S) /\ Len(u) = (IF 1 <= n THEN n - 1 + 1 ELSE 0)
        /\ \A i \in 1..(n - 1 + 1) : u[i] = s[1 + i - 1]
    BY <2>1, <2>2, SubSeqProperties
  <2> HIDE DEF u
  <2>4. Len(u) = Len(t)
    BY <1>2, <2>1, <2>3
  <2>5. \A i \in 1..Len(u) : u[i] = t[i]
    BY <1>2, <2>1, <2>3, <2>4
  <2>6. u = t
    BY <2>3, <2>4, <2>5, SeqEqual
  <2>7. QED
    BY <2>6 DEF Front, u, n
<1>5. QED
  BY <1>1, <1>2, <1>3, <1>4

\* Where an entry is added to a path, the result is the path of the entry.
LEMMA PathOfEntry ==
  ASSUME NEW path \in Seq(Components), NEW b \in Seq(Proper), NEW name \in Proper
  PROVE  /\ dir_read(ItemPath(path, b), name) = ItemPath(path, Append(b, name))
         /\ Append(b, name) \in Seq(Proper) /\ Append(b, name) # <<>>
PROOF
<1>1. Append(b, name) \in Seq(Proper) /\ Append(b, name) # <<>>
  BY AppendProperties
<1>2. b \in Seq(Components) /\ name \in Components
  BY SeqMonotonic DEF Proper
<1>3. ASSUME NEW c \in Seq(Components), b # <<>> PROVE c \o b # Root
  <2>1. /\ Len(c \o b) = Len(c) + Len(b) /\ Len(b) \in Nat \ {0} /\ Len(c) \in Nat
        /\ \A i \in 1..(Len(c) + Len(b)) : (c \o b)[i] = IF i <= Len(c) THEN c[i] ELSE b[i - Len(c)]
    BY <1>2, <1>3, ConcatProperties, LenProperties, EmptySeq
  <2>2. (c \o b)[Len(c) + Len(b)] = b[Len(b)]
    BY <2>1
  <2>3. b[Len(b)] \in Proper
    BY <2>1, ElementOfSeq
  <2>4. (c \o b)[Len(c \o b)] # Empty
    BY <2>1, <2>2, <2>3 DEF Proper
  <2>5. Root[Len(Root)] = Empty
    BY DEF Root
  <2>6. QED
    BY <2>4, <2>5
<1>4. CASE path = Root /\ b = <<>>
  <2>1. Append(b, name) = <<name>>
    BY <1>4
  <2>2. dir_read(Root, name) = <<Empty, name>>
    BY DEF dir_read
  <2>3. <<Empty>> \o <<name>> = <<Empty, name>>
    <3> DEFINE t == <<name>>
               u == <<Empty>> \o t
               v == <<Empty, name>>
    <3>1. t \in Seq(Components) /\ Len(t) = 1 /\ t[1] = name
      BY <1>2
    <3>2. v \in Seq(Components) /\ Len(v) = 2 /\ v[1] = Empty /\ v[2] = name
      BY <1>2, ItemFacts
    <3> HIDE DEF t
    <3>3. /\ u \in Seq(Components) /\ Len(u) = 1 + Len(t)
          /\ u[1] = Empty /\ \A i \in 1..Len(t) : u[1 + i] = t[i]
      <4>1. t \in Seq(Components) /\ Empty \in Components
        BY <3>1, ItemFacts
      <4>2. QED
        BY <4>1, ConsHeadTail
    <3> HIDE DEF u, v
    <3>4. Len(u) = 2 /\ u[1] = Empty /\ u[2] = name
      <4>1. 1 \in 1..Len(t) /\ 1 + 1 = 2
        BY <3>1
      <4>2. QED
        BY <3>1, <3>3, <4>1
    <3>5. u = v
      <4>1. \A i \in 1..Len(u) : u[i] = v[i]
        BY <3>2, <3>4
      <4>2. QED
        BY <3>2, <3>3, <3>4, <4>1, SeqEqual
    <3>6. QED
      BY <3>5 DEF t, u, v
  <2>4. QED
    BY <1>1, <1>4, <2>1, <2>2, <2>3 DEF ItemPath
<1>5. CASE path = Root /\ b # <<>>
  <2> DEFINE e == <<Empty>>
  <2>1. e \in Seq(Components)
    BY ItemFacts
  <2> HIDE DEF e
  <2>2. e \o b # Root
    BY <1>3, <1>5, <2>1
  <2>3. e \o Append(b, name) = Append(e \o b, name)
    BY <1>2, <2>1, AppendToConcat
  <2>4. QED
    BY <1>1, <1>5, <2>2, <2>3 DEF ItemPath, dir_read, e
<1>6. CASE path # Root
  <2>1. path \o b # Root
    <3>1. CASE b = <<>>
      BY <1>6, <3>1, ConcatEmptySeq
    <3>2. QED
      BY <1>3, <3>1
  <2>2. path \o Append(b, name) = Append(path \o b, name)
    BY <1>2, AppendToConcat
  <2>3. QED
    BY <1>1, <1>6, <2>1, <2>2 DEF ItemPath, dir_read
<1>7. QED
  BY <1>4, <1>5, <1>6

\* With no slash between them, two components are one, and a proper one if the second
\* is.
LEMMA GluedFacts ==
  ASSUME NEW c \in Components, NEW d \in Proper
  PROVE  /\ Glued(c, d) \in Proper
         /\ Glued(Empty, d) = d
PROOF
<1>1. /\ c \in [id : Seq(Letters), len : Nat] /\ (c.len = 0 <=> c.id = <<>>)
      /\ d \in [id : Seq(Letters), len : Nat] /\ (d.len = 0 <=> d.id = <<>>)
      /\ d # Empty /\ d # Dot /\ d # Slash /\ d \in Components
  BY DEF Components, Proper
<1>2. d.len # 0 /\ d.id # <<>>
  BY <1>1 DEF Empty
<1>3. Glued(Empty, d) = d
  <2>1. <<>> \o d.id = d.id /\ 0 + d.len = d.len
    BY <1>1, ConcatEmptySeq
  <2>2. QED
    BY <1>1, <2>1 DEF Glued, Empty
<1>4. CASE c = Empty
  BY <1>3, <1>4
<1>5. CASE c # Empty
  <2>1. c.len # 0 /\ c.id # <<>>
    BY <1>1, <1>5 DEF Empty
  <2>2. c.id \o d.id \in Seq(Letters) /\ Len(c.id \o d.id) = Len(c.id) + Len(d.id)
        /\ Len(c.id) \in Nat \ {0} /\ Len(d.id) \in Nat \ {0}
    BY <1>1, <1>2, <2>1, ConcatProperties, EmptySeq, LenProperties
  <2>3. c.id \o d.id # <<>> /\ c.id \o d.id # <<"dot">> /\ c.id \o d.id # <<"slash">>
    <3>1. Len(<<>>) = 0 /\ Len(<<"dot">>) = 1 /\ Len(<<"slash">>) = 1
      OBVIOUS
    <3> DEFINE n == Len(c.id)
               k == Len(d.id)
               i == c.id \o d.id
    <3>2. Len(i) = n + k /\ n \in Nat \ {0} /\ k \in Nat \ {0}
      BY <2>2
    <3> HIDE DEF n, k, i
    <3>3. Len(i) # 0 /\ Len(i) # 1
      BY <3>2
    <3>4. i # <<>> /\ i # <<"dot">> /\ i # <<"slash">>
      BY <3>1, <3>3
    <3>5. QED
      BY <3>4 DEF i
  <2>4. c.len + d.len \in Nat /\ c.len + d.len # 0
    BY <1>1, <1>2, <2>1
  <2>5. Glued(c, d).id = c.id \o d.id /\ Glued(c, d).len = c.len + d.len
        /\ Glued(c, d) \in [id : Seq(Letters), len : Nat]
    BY <2>2, <2>4 DEF Glued
  <2>6. Glued(c, d) # Empty /\ Glued(c, d) # Dot /\ Glued(c, d) # Slash
    <3>1. Empty.id = <<>> /\ Dot.id = <<"dot">> /\ Slash.id = <<"slash">>
      BY DEF Empty, Dot, Slash
    <3>2. QED
      BY <2>3, <2>5, <3>1
  <2>7. Glued(c, d) \in Components
    BY <2>3, <2>4, <2>5, <2>6 DEF Components
  <2>8. QED
    BY <1>5, <1>3, <2>6, <2>7 DEF Proper
<1>6. QED
  BY <1>3, <1>4, <1>5

\* What a name is made of, less its last component.
LEMMA FrontTidy ==
  ASSUME NEW c \in Strings, OnlyFirstDot(Without(c, {Empty}))
  PROVE  /\ Front(c) \in Seq(Components) /\ Last(c) \in Components
         /\ OnlyFirstDot(Without(Front(c), {Empty}))
PROOF
<1> DEFINE f == Front(c)
           x == Last(c)
           w == Without(f, {Empty})
<1>1. c \in Seq(Components) /\ c # <<>>
  BY DEF Strings
<1>2. f \in Seq(Components) /\ x \in Components /\ c = Append(f, x)
  BY <1>1, FrontAndLast
<1> HIDE DEF f, x
<1>3. Without(c, {Empty}) = IF x \in {Empty} THEN w ELSE Append(w, x)
  BY <1>2, WithoutAppend
<1>4. w \in Seq(Components \ {Empty})
  BY <1>2, WithoutLeft
<1>5. w \in Seq(Components)
  BY <1>4, SeqMonotonic
<1> HIDE DEF w
<1>6. CASE x = Empty
  BY <1>2, <1>3, <1>6 DEF f, x, w
<1>7. CASE x # Empty
  <2>1. /\ Len(Append(w, x)) = Len(w) + 1 /\ Len(w) \in Nat
        /\ \A i \in 1..Len(w) : Append(w, x)[i] = w[i]
    BY <1>2, <1>5, AppendProperties, LenProperties
  <2>2. OnlyFirstDot(Append(w, x))
    BY <1>3, <1>7
  <2>3. ASSUME NEW i \in 2..Len(w) PROVE w[i] # Dot
    <3>1. i \in 2..Len(Append(w, x)) /\ i \in 1..Len(w)
      BY <2>1
    <3>2. QED
      BY <2>1, <2>2, <3>1 DEF OnlyFirstDot
  <2>4. OnlyFirstDot(w)
    BY <2>3 DEF OnlyFirstDot
  <2>5. QED
    BY <1>2, <2>4 DEF f, x, w
<1>8. QED
  BY <1>6, <1>7

\* After "/" there is no slash to follow the member name: the last component of it and
\* the first of the entry's path become one.
LEMMA GluedName ==
  ASSUME NEW c \in Strings, NEW b \in Seq(Proper), b # <<>>, c # Root
  PROVE  LET x == Glued(Last(c), Head(b)) IN
         /\ x \in Proper /\ <<x>> \o Tail(b) \in Seq(Proper)
         /\ subst_member_name(Root, c, <<Empty>> \o b) = Front(c) \o (<<x>> \o Tail(b))
PROOF
<1> DEFINE e == <<Empty>>
           t == Tail(b)
           x == Glued(Last(c), Head(b))
           u == e \o b
           f == Front(c)
<1>1. c \in Seq(Components) /\ c # <<>>
  BY DEF Strings
<1>2. f \in Seq(Components) /\ Last(c) \in Components
  BY <1>1, FrontAndLast
<1>3. /\ Head(b) \in Proper /\ t \in Seq(Proper) /\ Head(b) = b[1]
      /\ Len(t) = Len(b) - 1 /\ \A i \in 1..Len(t) : t[i] = b[i + 1]
  BY HeadTailProperties
<1>4. x \in Proper
  BY <1>2, <1>3, GluedFacts
<1>5. <<x>> \o t \in Seq(Proper)
  <2> HIDE DEF t, x
  <2>1. QED
    BY <1>3, <1>4, ConsHeadTail
<1>6. b \in Seq(Components) /\ t \in Seq(Components) /\ x \in Components
  BY <1>3, <1>4, SeqMonotonic DEF Proper
<1>7. Len(b) \in Nat \ {0} /\ Len(t) \in Nat
  BY <1>3, EmptySeq, LenProperties
<1>8. /\ u \in Seq(Components) /\ Len(u) = 1 + Len(b)
      /\ \A i \in 1..Len(b) : u[1 + i] = b[i]
  BY <1>6, ItemFacts, ConsHeadTail
<1> HIDE DEF u
<1>9. u[2] = Head(b)
  <2>1. 1 \in 1..Len(b) /\ 1 + 1 = 2
    BY <1>7
  <2>2. QED
    BY <1>3, <1>8, <2>1
<1>10. SubSeq(u, 3, Len(u)) = t
  <2> DEFINE n == Len(u)
             v == SubSeq(u, 3, n)
  <2>1. 3 \in Int /\ n \in Int /\ n = Len(t) + 2
    BY <1>3, <1>7, <1>8
  <2>2. \A i \in 3..n : u[i] \in Components
    BY <1>8, <2>1, ElementOfSeq
  <2> HIDE DEF n
  <2>3. /\ v \in Seq(Components) /\ Len(v) = (IF 3 <= n THEN n - 3 + 1 ELSE 0)
        /\ \A i \in 1..(n - 3 + 1) : v[i] = u[3 + i - 1]
    BY <2>1, <2>2, SubSeqProperties
  <2> HIDE DEF v, t
  <2>4. Len(v) = Len(t)
    <3>1. Len(t) \in Nat /\ n = Len(t) + 2 /\ Len(v) = (IF 3 <= n THEN n - 3 + 1 ELSE 0)
      BY <1>7, <2>1, <2>3
    <3>2. CASE 3 <= n
      BY <3>1, <3>2
    <3>3. CASE ~(3 <= n)
      BY <3>1, <3>3
    <3>4. QED
      BY <3>2, <3>3
  <2>5. ASSUME NEW i \in 1..Len(v) PROVE v[i] = t[i]
    <3>1. i \in 1..(n - 3 + 1) /\ i + 1 \in 1..Len(b) /\ 3 + i - 1 = 1 + (i + 1) /\ i \in 1..Len(t)
      BY <1>3, <1>7, <2>1, <2>4
    <3>2. v[i] = u[1 + (i + 1)]
      BY <2>3, <3>1
    <3>3. QED
      BY <1>3, <1>8, <3>1, <3>2
  <2>6. v = t
    BY <1>6, <2>3, <2>4, <2>5, SeqEqual
  <2>7. QED
    BY <2>6 DEF v, n
<1>11. subst_member_name(Root, c, u) = (f \o <<x>>) \o t
  BY <1>9, <1>10 DEF subst_member_name
<1>12. (f \o <<x>>) \o t = f \o (<<x>> \o t)
  <2> DEFINE y == <<x>>
  <2> HIDE DEF x
  <2>1. y \in Seq(Components)
    BY <1>6
  <2> HIDE DEF y, f, t
  <2>2. (f \o y) \o t = f \o (y \o t)
    BY <1>2, <1>6, <2>1, ConcatThree
  <2>3. QED
    BY <2>2 DEF y
<1>13. QED
  BY <1>4, <1>5, <1>11, <1>12 DEF u

\* The name of an entry is tidy.
LEMMA NamedTidy ==
  ASSUME NEW path, NEW member, Tidy(path), Tidy(member), NEW b \in Seq(Proper)
  PROVE  Tidy(Named(path, member, b))
PROOF
<1>1. /\ path \in Strings /\ path \in Seq(Components) /\ OnlyFirstDot(Without(path, {Empty}))
      /\ member \in Strings /\ member \in Seq(Components) /\ OnlyFirstDot(Without(member, {Empty}))
  BY DEF Tidy, Strings
<1>2. CASE b = <<>>
  BY <1>2 DEF Named
<1>3. CASE b # <<>>
  <2>1. b \in Seq(Components)
    BY SeqMonotonic DEF Proper
  <2>2. Named(path, member, b) = subst_member_name(path, member, ItemPath(path, b))
    BY <1>3 DEF Named
  <2>3. CASE path = member
    <3>1. CASE path = Root
      <4> DEFINE e == <<Empty>>
      <4>1. e \in Seq(Components) /\ e \in Seq({Empty})
        BY ItemFacts
      <4> HIDE DEF e
      <4>2. Without(e, {Empty}) = <<>>
        BY <4>1, WithoutAll
      <4>3. OnlyFirstDot(Without(e, {Empty}))
        BY <4>2, EmptySeq DEF OnlyFirstDot
      <4>4. Tidy(e \o b)
        BY <1>3, <4>1, <4>3, TidyMore
      <4>5. QED
        BY <1>3, <2>2, <2>3, <3>1, <4>4 DEF subst_member_name, ItemPath, e
    <3>2. CASE path # Root
      <4>1. Tidy(path \o b)
        BY <1>1, <1>3, TidyMore
      <4>2. QED
        BY <2>2, <2>3, <3>2, <4>1 DEF subst_member_name, ItemPath
    <3>3. QED
      BY <3>1, <3>2
  <2>4. CASE path # member /\ path # Root
    <3>1. SubSeq(path \o b, Len(path) + 1, Len(path \o b)) = b
      BY <1>1, <1>3, <2>1, Remainder
    <3>2. Named(path, member, b) = member \o b
      BY <2>2, <2>4, <3>1 DEF subst_member_name, ItemPath
    <3>3. Tidy(member \o b)
      BY <1>1, <1>3, TidyMore
    <3>4. QED
      BY <3>2, <3>3
  <2>5. CASE path # member /\ path = Root
    <3> DEFINE x == Glued(Last(member), Head(b))
               d == <<x>> \o Tail(b)
               f == Front(member)
    <3>1. /\ x \in Proper /\ d \in Seq(Proper)
          /\ subst_member_name(Root, member, <<Empty>> \o b) = f \o d
      BY <1>1, <1>3, <2>5, GluedName
    <3>2. d # <<>>
      <4>1. x \in Proper /\ Tail(b) \in Seq(Proper)
        BY <1>3, <3>1, HeadTailProperties
      <4> HIDE DEF x
      <4>2. QED
        BY <4>1, ConsHeadTail
    <3>3. f \in Seq(Components) /\ OnlyFirstDot(Without(f, {Empty}))
      BY <1>1, FrontTidy
    <3> HIDE DEF f, d
    <3>4. Tidy(f \o d)
      BY <3>1, <3>2, <3>3, TidyMore
    <3>5. QED
      BY <1>3, <2>2, <2>5, <3>1, <3>4 DEF ItemPath
  <2>6. QED
    BY <2>3, <2>4, <2>5
<1>4. QED
  BY <1>2, <1>3

\* Other names for the root are not considered: its slash is lost.
RootAsItself ==
  \A g \in Given : path_clean(g[1]) = Root => path_clean(g[2]) \in {Root, <<Empty>>}

LEMMA NamedMeaning ==
  ASSUME NEW path, NEW member, Tidy(path), Tidy(member), NEW b \in Seq(Proper),
         path = Root => member \in {Root, <<Empty>>}
  PROVE  Meaning(Named(path, member, b)) = Meaning(member) \o b
PROOF
<1>1. /\ path \in Strings /\ path \in Seq(Components)
      /\ member \in Strings /\ member \in Seq(Components)
  BY DEF Tidy, Strings
<1>2. b \in Seq(Components)
  BY SeqMonotonic DEF Proper
<1>3. Meaning(member) \in Seq(Components \ {Empty, Dot})
  BY <1>1, WithoutLeft DEF Meaning
<1>4. CASE b = <<>>
  BY <1>3, <1>4, ConcatEmptySeq DEF Named
<1>5. CASE b # <<>>
  <2>1. Named(path, member, b) = subst_member_name(path, member, ItemPath(path, b))
    BY <1>5 DEF Named
  <2>2. ASSUME NEW e, e = <<Empty>> \/ e = Root
        PROVE  Meaning(e) = <<>> /\ Meaning(e \o b) = b
    <3>1. <<Empty>> \in Seq({Empty, Dot}) /\ <<Empty, Empty>> \in Seq({Empty, Dot})
      OBVIOUS
    <3>2. e \in Seq({Empty, Dot})
      BY <2>2, <3>1 DEF Root
    <3>3. e \in Seq(Components)
      <4>1. {Empty, Dot} \subseteq Components
        BY ItemFacts
      <4>2. QED
        BY <3>2, <4>1, SeqMonotonic
    <3>4. Meaning(e) = <<>>
      BY <3>2, WithoutAll DEF Meaning
    <3>5. Meaning(e \o b) = Meaning(e) \o b
      BY <3>3, AddedTo
    <3>6. QED
      BY <1>2, <3>4, <3>5, ConcatEmptySeq
  <2>3. CASE path = member
    <3>1. CASE path = Root
      <4>1. Meaning(<<Empty>> \o b) = b /\ Meaning(Root) = <<>>
        BY <2>2
      <4>2. <<>> \o b = b
        BY <1>2, ConcatEmptySeq
      <4>3. QED
        BY <1>5, <2>1, <2>3, <3>1, <4>1, <4>2 DEF subst_member_name, ItemPath
    <3>2. CASE path # Root
      <4>1. Meaning(path \o b) = Meaning(path) \o b
        BY <1>1, AddedTo
      <4>2. QED
        BY <2>1, <2>3, <3>2, <4>1 DEF subst_member_name, ItemPath
    <3>3. QED
      BY <3>1, <3>2
  <2>4. CASE path # member /\ path # Root
    <3>1. SubSeq(path \o b, Len(path) + 1, Len(path \o b)) = b
      BY <1>1, <1>2, <1>5, Remainder
    <3>2. Named(path, member, b) = member \o b
      BY <2>1, <2>4, <3>1 DEF subst_member_name, ItemPath
    <3>3. QED
      BY <1>1, <3>2, AddedTo
  <2>5. CASE path # member /\ path = Root
    <3>1. member = <<Empty>>
      BY <2>5
    <3>2. Front(member) = <<>> /\ Last(member) = Empty
      <4>1. Len(<<Empty>>) = 1 /\ <<Empty>>[1] = Empty
        OBVIOUS
      <4>2. SubSeq(<<Empty>>, 1, 0) = <<>>
        BY SubSeqEmpty
      <4>3. QED
        BY <3>1, <4>1, <4>2 DEF Front, Last
    <3>3. Head(b) \in Proper /\ Tail(b) \in Seq(Proper) /\ b = <<Head(b)>> \o Tail(b)
      <4>1. Head(b) \in Proper
        BY <1>5, HeadTailProperties
      <4>2. QED
        BY <1>5, <4>1, HeadAndTail
    <3>4. Glued(Empty, Head(b)) = Head(b)
      BY <3>3, ItemFacts, GluedFacts
    <3>5. subst_member_name(Root, member, <<Empty>> \o b) = Front(member) \o (<<Glued(Last(member), Head(b))>> \o Tail(b))
      BY <1>1, <1>5, <2>5, GluedName
    <3>6. Named(path, member, b) = <<>> \o b
      BY <1>5, <2>1, <2>5, <3>2, <3>3, <3>4, <3>5 DEF ItemPath
    <3>7. <<>> \o b = b /\ Meaning(<<>> \o b) = b
      <4>1. <<>> \o b = b
        BY <1>2, ConcatEmptySeq
      <4>2. b \in Seq(Components \ {Empty, Dot})
        BY DEF Proper
      <4>3. Without(b, {Empty, Dot}) = b
        BY <4>2, WithoutNone
      <4>4. QED
        BY <4>1, <4>3 DEF Meaning
    <3>8. Meaning(member) = <<>>
      BY <2>2, <3>1
    <3>9. QED
      BY <3>6, <3>7, <3>8
  <2>6. QED
    BY <2>3, <2>4, <2>5
<1>6. QED
  BY <1>4, <1>5

-----------------------------------------------------------------------------
\* The walk: each entry has the name made from the strings given and from the
\* directories above it.
NameInv ==
  /\ given \in Given /\ below \in Seq(Entries) /\ dir \in BOOLEAN
  /\ pc \in {"find", "split", "refused", "pop", "encode", "header"}
  /\ pc = "find" => below = <<>>
  /\ pc # "find" => /\ clean_path = path_clean(given[1])
                    /\ clean_member_name = path_clean(given[2])
                    /\ current = ItemPath(clean_path, below)
                    /\ member_name = Named(clean_path, clean_member_name, below)

LEMMA GivenFacts ==
  ASSUME NEW g \in Given
  PROVE  /\ g[1] \in Strings /\ g[2] \in Strings
         /\ Tidy(path_clean(g[1])) /\ Tidy(path_clean(g[2]))
         /\ Meaning(path_clean(g[2])) = Meaning(g[2])
PROOF
<1>1. g[1] \in Strings /\ g[2] \in Strings
  BY NamesAssumption
<1>2. QED
  BY <1>1, PathClean

LEMMA EntriesProper == Entries \subseteq Proper /\ \A b \in Seq(Entries) : b \in Seq(Proper)
PROOF
<1>1. Entries \subseteq Proper
  BY NamesAssumption DEF Proper
<1>2. QED
  BY <1>1, SeqMonotonic

LEMMA NameStep == NameInv /\ [Next]_vars => NameInv'
PROOF
<1>1. SUFFICES ASSUME NameInv, [Next]_vars PROVE NameInv'
  OBVIOUS
<1>2. CASE FindArgument
  <2>1. path_clean(given[1]) \in Seq(Components)
    BY <1>1, GivenFacts DEF NameInv, Tidy, Strings
  <2>2. /\ clean_path' = path_clean(given[1]) /\ clean_member_name' = path_clean(given[2])
        /\ current' = clean_path' /\ member_name' = clean_member_name' /\ pc' = "split"
        /\ given' = given /\ below' = below /\ dir' = dir /\ below = <<>>
    BY <1>1, <1>2 DEF FindArgument, NameInv
  <2>3. current' = ItemPath(clean_path', <<>>)
    BY <2>1, <2>2, ConcatEmptySeq DEF ItemPath
  <2>4. member_name' = Named(clean_path', clean_member_name', <<>>)
    BY <2>2 DEF Named
  <2>5. QED
    BY <1>1, <2>2, <2>3, <2>4 DEF NameInv
<1>3. ASSUME NEW name \in Entries, ReadEntry(name) PROVE NameInv'
  <2>1. /\ pc = "header" /\ below' = Append(below, name)
        /\ current' = dir_read(current, name) /\ dir' \in BOOLEAN /\ pc' = "split"
        /\ member_name' = subst_member_name(clean_path, clean_member_name, current')
        /\ given' = given /\ clean_path' = clean_path /\ clean_member_name' = clean_member_name
    BY <1>3 DEF ReadEntry
  <2>2. /\ given \in Given /\ below \in Seq(Entries) /\ below \in Seq(Proper) /\ name \in Proper
        /\ clean_path = path_clean(given[1]) /\ clean_member_name = path_clean(given[2])
        /\ current = ItemPath(clean_path, below)
    BY <1>1, <2>1, EntriesProper DEF NameInv
  <2>3. clean_path \in Seq(Components)
    BY <2>2, GivenFacts DEF Tidy, Strings
  <2>4. current' = ItemPath(clean_path, below') /\ below' # <<>>
    BY <2>1, <2>2, <2>3, PathOfEntry
  <2>5. below' \in Seq(Entries)
    BY <2>1, <2>2, AppendProperties
  <2>6. member_name' = Named(clean_path, clean_member_name, below')
    BY <2>1, <2>4 DEF Named
  <2>7. QED
    BY <2>1, <2>2, <2>4, <2>5, <2>6 DEF NameInv
<1>4. CASE SplitBegin
  BY <1>1, <1>4 DEF SplitBegin, entry, NameInv
<1>5. CASE SplitEmpty
  BY <1>1, <1>5 DEF SplitEmpty, entry, NameInv
<1>6. CASE PopItem
  BY <1>1, <1>6 DEF PopItem, entry, NameInv
<1>7. CASE Assemble
  BY <1>1, <1>7 DEF Assemble, entry, NameInv
<1>8. CASE Encode
  BY <1>1, <1>8 DEF Encode, entry, NameInv
<1>9. CASE UNCHANGED vars
  BY <1>1, <1>9 DEF vars, NameInv
<1>10. QED
  BY <1>1, <1>2, <1>3, <1>4, <1>5, <1>6, <1>7, <1>8, <1>9 DEF Next

LEMMA NameInit == Init => NameInv
PROOF
<1>1. <<>> \in Seq(Entries)
  BY EmptySeq
<1>2. QED
  BY <1>1 DEF Init, NameInv

\* What follows for the name that is split.
LEMMA NameOfEntry ==
  ASSUME NameInv, pc # "find"
  PROVE  /\ Tidy(member_name)
         /\ RootAsItself => Meaning(member_name) = Meaning(given[2]) \o below
PROOF
<1>1. /\ given \in Given /\ below \in Seq(Proper)
      /\ clean_path = path_clean(given[1]) /\ clean_member_name = path_clean(given[2])
      /\ member_name = Named(clean_path, clean_member_name, below)
  BY EntriesProper DEF NameInv
<1>2. /\ Tidy(clean_path) /\ Tidy(clean_member_name)
      /\ Meaning(clean_member_name) = Meaning(given[2])
  BY <1>1, GivenFacts
<1>3. Tidy(member_name)
  BY <1>1, <1>2, NamedTidy
<1>4. RootAsItself => (clean_path = Root => clean_member_name \in {Root, <<Empty>>})
  BY <1>1 DEF RootAsItself
<1>5. RootAsItself => Meaning(member_name) = Meaning(given[2]) \o below
  BY <1>1, <1>2, <1>4, NamedMeaning
<1>6. QED
  BY <1>3, <1>5

-----------------------------------------------------------------------------
\* A stack holds the last item pushed last; its string has it first.
LEMMA ReverseFacts ==
  ASSUME NEW S, NEW s \in Seq(S)
  PROVE  /\ Reverse(s) \in Seq(S) /\ Len(Reverse(s)) = Len(s)
         /\ \A i \in 1..Len(s) : Reverse(s)[i] = s[(Len(s) - i) + 1]
PROOF
<1> DEFINE n == Len(s)
           r == [i \in 1..n |-> s[(n - i) + 1]]
<1>1. n \in Nat
  BY LenProperties
<1>2. \A i \in 1..n : s[(n - i) + 1] \in S
  <2> TAKE i \in 1..n
  <2>1. (n - i) + 1 \in 1..n
    BY <1>1
  <2>2. QED
    BY <2>1, ElementOfSeq
<1>3. r \in Seq(S) /\ Len(r) = n
  BY <1>1, <1>2, IsASeq
<1>4. Reverse(s) = r
  BY DEF Reverse
<1>5. QED
  BY <1>3, <1>4

LEMMA ReverseCons ==
  ASSUME NEW S, NEW x \in S, NEW t \in Seq(S)
  PROVE  Reverse(<<x>> \o t) = Append(Reverse(t), x)
PROOF
<1> DEFINE u == <<x>> \o t
           n == Len(t)
<1>1. /\ u \in Seq(S) /\ Len(u) = 1 + n /\ n \in Nat
      /\ u[1] = x /\ \A i \in 1..n : u[1 + i] = t[i]
  BY ConsHeadTail, LenProperties
<1> HIDE DEF u
<1>2. /\ Reverse(u) \in Seq(S) /\ Len(Reverse(u)) = 1 + n
      /\ \A i \in 1..(1 + n) : Reverse(u)[i] = u[((1 + n) - i) + 1]
  BY <1>1, ReverseFacts
<1>3. /\ Reverse(t) \in Seq(S) /\ Len(Reverse(t)) = n
      /\ \A i \in 1..n : Reverse(t)[i] = t[(n - i) + 1]
  BY ReverseFacts
<1> DEFINE a == Append(Reverse(t), x)
<1>4. /\ a \in Seq(S) /\ Len(a) = n + 1
      /\ \A i \in 1..n : a[i] = Reverse(t)[i]
      /\ a[n + 1] = x
  BY <1>3, AppendProperties
<1> HIDE DEF a, n
<1>5. ASSUME NEW i \in 1..(n + 1) PROVE Reverse(u)[i] = a[i]
  <2>1. CASE i = n + 1
    BY <1>1, <1>2, <1>4, <2>1
  <2>2. CASE i # n + 1
    <3>1. i \in 1..n /\ i \in 1..(1 + n) /\ (n - i) + 1 \in 1..n
          /\ ((1 + n) - i) + 1 = 1 + ((n - i) + 1)
      BY <1>1, <2>2
    <3>2. Reverse(u)[i] = u[1 + ((n - i) + 1)]
      BY <1>2, <3>1
    <3>3. QED
      BY <1>1, <1>3, <1>4, <3>1, <3>2
  <2>3. QED
    BY <2>1, <2>2
<1>6. Reverse(u) = a
  <2>1. Len(Reverse(u)) = Len(a) /\ \A i \in 1..Len(Reverse(u)) : Reverse(u)[i] = a[i]
    BY <1>1, <1>2, <1>4, <1>5
  <2>2. QED
    BY <1>2, <1>4, <2>1, SeqEqual
<1>7. QED
  BY <1>6 DEF u, a

LEMMA ReverseTwice ==
  ASSUME NEW S, NEW s \in Seq(S)
  PROVE  Reverse(Reverse(s)) = s
PROOF
<1> DEFINE r == Reverse(s)
           n == Len(s)
<1>1. /\ r \in Seq(S) /\ Len(r) = n /\ n \in Nat
      /\ \A i \in 1..n : r[i] = s[(n - i) + 1]
  BY ReverseFacts, LenProperties
<1> HIDE DEF r
<1>2. /\ Reverse(r) \in Seq(S) /\ Len(Reverse(r)) = n
      /\ \A i \in 1..n : Reverse(r)[i] = r[(n - i) + 1]
  BY <1>1, ReverseFacts
<1>3. ASSUME NEW i \in 1..n PROVE Reverse(r)[i] = s[i]
  <2>1. (n - i) + 1 \in 1..n /\ (n - ((n - i) + 1)) + 1 = i
    BY <1>1
  <2>2. QED
    BY <1>1, <1>2, <2>1
<1>4. QED
  BY <1>2, <1>3, SeqEqual DEF r

-----------------------------------------------------------------------------
\* Items that a name is divided into, and the length of those on one side: the size
\* path_split() counts, and the length of the string they are joined to.
Whole == Items \ {Empty}
Total(s) == IF s = <<>> THEN 0 ELSE Length(s)

LEMMA WholeIn == \A s \in Seq(Whole) : s \in Seq(Items)
BY SeqMonotonic DEF Whole

LEMMA TotalFacts ==
  ASSUME NEW s \in Seq(Whole)
  PROVE  /\ Total(s) \in Nat /\ (Total(s) = 0 <=> s = <<>>)
         /\ Length(s) \in Int /\ Len(s) \in Nat /\ (Len(s) = 0 <=> s = <<>>)
         /\ s # <<>> => Total(s) = Length(s) /\ Length(s) >= 1
         /\ s = <<>> => Length(s) = -1
PROOF
<1>1. Length(s) \in Int /\ Len(s) \in Nat /\ Length(s) >= 2 * Len(s) - 1
  BY LengthAtLeast DEF Whole
<1>2. Len(s) = 0 <=> s = <<>>
  BY EmptySeq
<1>3. QED
  BY <1>1, <1>2, LengthEmpty DEF Total

\* An item more, in front.
LEMMA TotalMore ==
  ASSUME NEW x \in Whole, NEW s \in Seq(Whole)
  PROVE  /\ <<x>> \o s \in Seq(Whole) /\ <<x>> \o s # <<>>
         /\ Len(<<x>> \o s) = 1 + Len(s)
         /\ Length(<<x>> \o s) = Joined(Total(s), x)
         /\ Total(<<x>> \o s) = Joined(Total(s), x)
         /\ x.len \in Nat \ {0}
PROOF
<1> DEFINE e == <<x>>
<1>1. <<x>> \o s \in Seq(Whole) /\ <<x>> \o s # <<>> /\ Len(<<x>> \o s) = 1 + Len(s)
  BY ConsHeadTail
<1>2. x \in Items /\ x # Empty /\ s \in Seq(Items) /\ e \in Seq(Items)
  BY WholeIn DEF Whole
<1>3. x.len \in Nat \ {0}
  BY <1>2, ItemFacts
<1>4. Length(e) = x.len
  <2>1. <<>> \in Seq(Items) /\ Append(<<>>, x) = e
    BY EmptySeq
  <2>2. Length(Append(<<>>, x)) = Length(<<>>) + 1 + x.len
    BY <1>2, <2>1, LengthAppend
  <2>3. QED
    BY <1>3, <2>1, <2>2, LengthEmpty
<1> HIDE DEF e
<1>5. Length(e \o s) = Length(e) + Length(s) + 1
  BY <1>2, LengthConcat
<1>6. Length(e \o s) = Joined(Total(s), x)
  BY <1>3, <1>4, <1>5, TotalFacts DEF Joined
<1>7. QED
  BY <1>1, <1>3, <1>6 DEF e, Total

\* More of them are longer, and by more than a slash.
LEMMA LengthMore ==
  ASSUME NEW s \in Seq(Whole), NEW t \in Seq(Whole), s # <<>>
  PROVE  Length(s \o t) >= Length(t) + 2 /\ (t # <<>> => Length(s \o t) >= Length(s) + 2)
PROOF
<1>1. Length(s \o t) = Length(s) + Length(t) + 1
  BY WholeIn, LengthConcat
<1>2. Length(s) \in Int /\ Length(t) \in Int /\ Length(s) >= 1 /\ (t # <<>> => Length(t) >= 1)
  BY TotalFacts
<1>3. QED
  BY <1>1, <1>2

LEMMA JoinedLength ==
  ASSUME NEW s \in Seq(Whole)
  PROVE  join(s) \in Seq(Items) /\ Length(join(s)) = Total(s)
PROOF
<1>1. Empty \in Items /\ Empty.len = 0 /\ Slash.len = 1 /\ Slash \in Items /\ <<>> \in Seq(Items)
  BY ItemFacts, EmptySeq DEF Items
<1>2. ASSUME NEW x \in Items PROVE <<x>> \in Seq(Items) /\ Length(<<x>>) = x.len
  <2>1. Append(<<>>, x) = <<x>> /\ <<x>> \in Seq(Items)
    OBVIOUS
  <2>2. Length(Append(<<>>, x)) = Length(<<>>) + 1 + x.len
    BY <1>1, LengthAppend
  <2>3. x.len \in Nat
    BY ItemFacts
  <2>4. QED
    BY <2>1, <2>2, <2>3, LengthEmpty
<1>3. CASE s = <<>>
  <2>1. join(s) = <<Empty>>
    BY <1>3 DEF join
  <2>2. QED
    BY <1>1, <1>2, <1>3, <2>1 DEF Total
<1>4. CASE s = <<Slash>>
  <2>1. s # <<>>
    BY <1>4
  <2>2. join(s) = Root
    BY <1>4, <2>1 DEF join
  <2>3. Total(s) = 1
    BY <1>1, <1>2, <1>4, <2>1 DEF Total
  <2> DEFINE e == <<Empty>>
  <2>4. e \in Seq(Items) /\ Length(e) = 0 /\ Root = Append(e, Empty)
    BY <1>1, <1>2 DEF Root
  <2> HIDE DEF e
  <2>5. Append(e, Empty) \in Seq(Items) /\ Length(Append(e, Empty)) = Length(e) + 1 + Empty.len
    BY <1>1, <2>4, LengthAppend, AppendProperties
  <2>6. QED
    BY <1>1, <2>2, <2>3, <2>4, <2>5
<1>5. CASE s # <<>> /\ s # <<Slash>>
  BY <1>5, WholeIn DEF join, Total
<1>6. QED
  BY <1>3, <1>4, <1>5

-----------------------------------------------------------------------------
\* The parts of a tidy name: only the slashes of "/" are an item of their own.
LEMMA PartsIn ==
  ASSUME NEW m, Tidy(m), path_new(m) # <<>>
  PROVE  /\ PartsOf(m) \in Seq(Whole) /\ PartsOf(m) # <<>>
         /\ Without(m, {Empty}) = <<>> => PartsOf(m) = <<Slash>>
         /\ Without(m, {Empty}) # <<>> => PartsOf(m) = Without(m, {Empty})
PROOF
<1> DEFINE items == Without(m, {Empty})
<1>1. m \in Strings /\ OnlyFirstDot(items)
  BY DEF Tidy
<1>2. items \in Seq(Real)
  BY <1>1, PathNew
<1>3. PartsOf(m) = IF items = <<>> THEN <<Slash>> ELSE Kept(items)
  BY <1>1, PartsFacts
<1>4. items # <<>> => Kept(items) = items
  BY <1>1, <1>2, KeptFacts
<1> HIDE DEF items
<1>5. Real \subseteq Whole /\ Slash \in Whole
  BY ItemFacts DEF Real, Whole, Items
<1>6. <<Slash>> \in Seq(Whole) /\ <<Slash>> # <<>>
  BY <1>5
<1>7. items \in Seq(Whole)
  BY <1>2, <1>5, SeqMonotonic
<1>8. QED
  BY <1>3, <1>4, <1>6, <1>7 DEF items

\* A string of items is more than the suffix field takes, with the slash of a
\* directory; the code wants two bytes for the last name of one.
TooLong(s) ==
  Length(s) + (IF dir THEN IF Len(s) = 1 THEN 2 ELSE 1 ELSE 0) > SuffixSize

\* Items were moved to the prefix only when the suffix had no room for the last of
\* them, and only the name of what is no directory may be longer than the suffix.
Divided(P, S) ==
  /\ P # <<>> => TooLong(<<Last(P)>> \o S) /\ (dir \/ S # <<>>)
  /\ S # <<>> => ~TooLong(S) \/ (~dir /\ Len(S) = 1)

\* What path_split() has done so far, and what is left of the name.
PopInv ==
  path_new(member_name) # <<>> /\
  \E P \in Seq(Whole), S \in Seq(Whole) :
    /\ parts \in Seq(Whole) /\ parts \o (P \o S) = PartsOf(member_name)
    /\ prefix_items = Reverse(P) /\ suffix_items = Reverse(S)
    /\ prefix_size = Total(P) /\ suffix_size = Total(S)
    /\ add_to_prefix \in BOOLEAN /\ (add_to_prefix <=> P # <<>>)
    /\ Divided(P, S)

\* What path_split() returns.
DoneInv ==
  path_new(member_name) # <<>> /\
  \E P \in Seq(Whole), S \in Seq(Whole) :
    /\ P \o S = PartsOf(member_name) /\ Divided(P, S)
    /\ data = [prefix    |-> join(P),
               suffix    |-> join(S) \o (IF dir THEN <<Empty>> ELSE <<>>),
               truncated |-> \/ Total(S) + (IF dir THEN 1 ELSE 0) > SuffixSize
                             \/ Total(P) > PrefixSize]

SplitInv ==
  /\ NameInv
  /\ pc = "pop" => PopInv
  /\ pc \in {"encode", "header"} => DoneInv
  /\ pc = "header" => size \in Nat /\ size_field.value = size

\* When the code finds that the suffix overflows.
LEMMA OverflowsWhen ==
  ASSUME NEW x \in Whole, NEW S \in Seq(Whole), suffix_size = Total(S), dir \in BOOLEAN
  PROVE  Overflows(x) <=> TooLong(<<x>> \o S) /\ (dir \/ S # <<>>)
PROOF
<1>1. /\ Len(<<x>> \o S) = 1 + Len(S) /\ Length(<<x>> \o S) = Joined(Total(S), x)
      /\ x.len \in Nat \ {0}
  BY TotalMore
<1>2. /\ Total(S) \in Nat /\ Len(S) \in Nat /\ (Len(S) = 0 <=> S = <<>>)
      /\ (Total(S) = 0 <=> S = <<>>)
  BY TotalFacts
<1>3. SuffixSize \in Nat
  BY NamesAssumption
<1> DEFINE n == Total(S)
           k == Len(S)
           l == x.len
           u == <<x>> \o S
<1> HIDE DEF n, k, l, u
<1>4. /\ Len(u) = 1 + k /\ Length(u) = (IF n # 0 THEN n + 1 ELSE 0) + l
      /\ l \in Nat \ {0} /\ n \in Nat /\ k \in Nat /\ (k = 0 <=> S = <<>>) /\ (n = 0 <=> S = <<>>)
  BY <1>1, <1>2 DEF Joined, n, k, l, u
<1>5. Overflows(x) <=> \/ n # 0 /\ n + l >= SuffixSize
                       \/ dir /\ n + l + 1 >= SuffixSize
  BY DEF Overflows, n, l
<1>6. TooLong(u) <=> Length(u) + (IF dir THEN IF Len(u) = 1 THEN 2 ELSE 1 ELSE 0) > SuffixSize
  BY DEF TooLong
<1>7. CASE S = <<>> /\ dir
  BY <1>3, <1>4, <1>5, <1>6, <1>7 DEF u
<1>8. CASE S = <<>> /\ ~dir
  BY <1>3, <1>4, <1>5, <1>6, <1>8 DEF u
<1>9. CASE S # <<>> /\ dir
  BY <1>3, <1>4, <1>5, <1>6, <1>9 DEF u
<1>10. CASE S # <<>> /\ ~dir
  BY <1>3, <1>4, <1>5, <1>6, <1>10 DEF u
<1>11. QED
  BY <1>7, <1>8, <1>9, <1>10

LEMMA LastOfCons ==
  ASSUME NEW S, NEW x \in S, NEW t \in Seq(S)
  PROVE  Last(<<x>> \o t) = IF t = <<>> THEN x ELSE Last(t)
PROOF
<1> DEFINE u == <<x>> \o t
<1>1. /\ Len(u) = 1 + Len(t) /\ u[1] = x /\ \A i \in 1..Len(t) : u[1 + i] = t[i]
      /\ Len(t) \in Nat
  BY ConsHeadTail, LenProperties
<1> HIDE DEF u
<1>2. CASE t = <<>>
  <2>1. Len(t) = 0
    BY <1>2
  <2>2. QED
    BY <1>1, <1>2, <2>1 DEF Last, u
<1>3. CASE t # <<>>
  <2>1. Len(t) \in 1..Len(t)
    BY <1>1, <1>3, EmptySeq
  <2>2. QED
    BY <1>1, <1>3, <2>1 DEF Last, u
<1>4. QED
  BY <1>2, <1>3

LEMMA PopStep ==
  ASSUME NameInv, pc = "pop", PopInv, PopItem
  PROVE  PopInv'
PROOF
<1> DEFINE x == Last(parts)
           f == Front(parts)
<1>1. PICK P \in Seq(Whole), S \in Seq(Whole) :
        /\ parts \in Seq(Whole) /\ parts \o (P \o S) = PartsOf(member_name)
        /\ prefix_items = Reverse(P) /\ suffix_items = Reverse(S)
        /\ prefix_size = Total(P) /\ suffix_size = Total(S)
        /\ add_to_prefix \in BOOLEAN /\ (add_to_prefix <=> P # <<>>)
        /\ Divided(P, S)
  BY DEF PopInv
<1>2. /\ parts # <<>> /\ parts' = f
      /\ add_to_prefix' = (add_to_prefix \/ Overflows(x))
      /\ add_to_prefix' => /\ prefix_items' = Append(prefix_items, x)
                           /\ prefix_size' = Joined(prefix_size, x)
                           /\ suffix_items' = suffix_items /\ suffix_size' = suffix_size
      /\ ~add_to_prefix' => /\ suffix_items' = Append(suffix_items, x)
                            /\ suffix_size' = Joined(suffix_size, x)
                            /\ prefix_items' = prefix_items /\ prefix_size' = prefix_size
      /\ member_name' = member_name /\ dir' = dir
  BY DEF PopItem, entry
<1>3. /\ f \in Seq(Whole) /\ x \in Whole /\ parts = Append(f, x)
  BY <1>1, <1>2, FrontAndLast
<1>4. dir \in BOOLEAN
  BY DEF NameInv
<1>5. Overflows(x) <=> TooLong(<<x>> \o S) /\ (dir \/ S # <<>>)
  BY <1>1, <1>3, <1>4, OverflowsWhen
<1> HIDE DEF x, f
<1>6. PartsOf(member_name) = f \o (<<x>> \o (P \o S)) /\ <<x>> \in Seq(Whole)
  <2> DEFINE y == <<x>>
  <2>1. parts = f \o y /\ y \in Seq(Whole)
    BY <1>3, AppendIsConcat
  <2>2. P \o S \in Seq(Whole)
    BY ConcatProperties
  <2> DEFINE r == P \o S
  <2> HIDE DEF y, r
  <2>3. (f \o y) \o r = f \o (y \o r)
    BY <1>3, <2>1, <2>2, ConcatThree, SMTT(30) DEF r
  <2>4. QED
    BY <1>1, <2>1, <2>3 DEF y, r
<1>7. \A U, V : Divided(U, V) => Divided(U, V)'
  BY <1>2 DEF Divided, TooLong
<1>8. path_new(member_name) # <<>>
  BY DEF PopInv
<1>9. CASE add_to_prefix'
  <2>0. PICK Q : Q = <<x>> \o P
    OBVIOUS
  <2>1. /\ Q \in Seq(Whole) /\ Q # <<>> /\ Total(Q) = Joined(Total(P), x)
    BY <1>3, <2>0, TotalMore
  <2>2. Reverse(Q) = Append(Reverse(P), x)
    BY <1>3, <2>0, ReverseCons
  <2>3. Last(Q) = IF P = <<>> THEN x ELSE Last(P)
    BY <1>3, <2>0, LastOfCons
  <2>4. Q \o S = <<x>> \o (P \o S)
    BY <1>6, <2>0, ConcatThree
  <2>5. Divided(Q, S)
    <3>1. CASE P = <<>>
      BY <1>1, <1>2, <1>5, <1>9, <2>3, <3>1 DEF Divided
    <3>2. CASE P # <<>>
      BY <1>1, <2>3, <3>2 DEF Divided
    <3>3. QED
      BY <3>1, <3>2
  <2>6. Divided(Q, S)'
    BY <1>7, <2>5
  <2>7. /\ parts' \in Seq(Whole) /\ parts' \o (Q \o S) = PartsOf(member_name')
        /\ prefix_items' = Reverse(Q) /\ suffix_items' = Reverse(S)
        /\ prefix_size' = Total(Q) /\ suffix_size' = Total(S)
        /\ add_to_prefix' \in BOOLEAN /\ (add_to_prefix' <=> Q # <<>>)
        /\ path_new(member_name') # <<>>
    BY <1>1, <1>2, <1>3, <1>6, <1>8, <1>9, <2>1, <2>2, <2>4
  <2>8. QED
    BY <2>1, <2>6, <2>7 DEF PopInv
<1>10. CASE ~add_to_prefix'
  <2>a. PICK R : R = <<x>> \o S
    OBVIOUS
  <2>0. P = <<>> /\ ~Overflows(x) /\ ~add_to_prefix
    BY <1>1, <1>2, <1>10
  <2>1. /\ R \in Seq(Whole) /\ R # <<>> /\ Total(R) = Joined(Total(S), x)
        /\ Len(R) = 1 + Len(S)
    BY <1>3, <2>a, TotalMore
  <2>2. Reverse(R) = Append(Reverse(S), x)
    BY <1>3, <2>a, ReverseCons
  <2>3. P \o S = S
    BY <2>0, ConcatEmptySeq
  <2>4. P \o R = R
    BY <2>0, <2>1, ConcatEmptySeq
  <2>5. Divided(P, R)
    <3>1. S = <<>> => Len(R) = 1
      BY <2>1
    <3>2. ~TooLong(R) \/ (~dir /\ S = <<>>)
      BY <1>5, <2>0, <2>a
    <3>3. QED
      BY <2>0, <2>1, <3>1, <3>2 DEF Divided
  <2>6. Divided(P, R)'
    BY <1>7, <2>5
  <2>7. /\ parts' \in Seq(Whole) /\ parts' \o (P \o R) = PartsOf(member_name')
        /\ prefix_items' = Reverse(P) /\ suffix_items' = Reverse(R)
        /\ prefix_size' = Total(P) /\ suffix_size' = Total(R)
        /\ add_to_prefix' \in BOOLEAN /\ (add_to_prefix' <=> P # <<>>)
        /\ path_new(member_name') # <<>>
    BY <1>1, <1>2, <1>3, <1>6, <1>8, <1>10, <2>0, <2>1, <2>2, <2>3, <2>4, <2>a
  <2>8. QED
    BY <2>1, <2>6, <2>7 DEF PopInv
<1>11. QED
  BY <1>9, <1>10

LEMMA BeginStep ==
  ASSUME NameInv, SplitBegin
  PROVE  PopInv'
PROOF
<1>1. /\ path_new(member_name) # <<>> /\ parts' = PartsOf(member_name)
      /\ prefix_items' = <<>> /\ suffix_items' = <<>> /\ prefix_size' = 0 /\ suffix_size' = 0
      /\ add_to_prefix' = FALSE /\ member_name' = member_name /\ pc = "split"
  BY DEF SplitBegin, PartsOf, entry
<1>2. Tidy(member_name)
  BY <1>1, NameOfEntry
<1>3. PartsOf(member_name) \in Seq(Whole)
  BY <1>1, <1>2, PartsIn
<1> DEFINE P == <<>>
           S == <<>>
<1>4. P \in Seq(Whole) /\ S \in Seq(Whole) /\ Total(P) = 0 /\ P = <<>> /\ S = <<>>
  BY EmptySeq DEF Total
<1>5. Reverse(P) = <<>>
  BY <1>4, ReverseFacts, EmptySeq
<1>6. P \o S = <<>>
  BY <1>4, ConcatEmptySeq
<1>7. parts' \o (P \o S) = PartsOf(member_name')
  <2>1. parts' \o <<>> = parts'
    BY <1>1, <1>3, ConcatEmptySeq
  <2>2. QED
    BY <1>1, <1>6, <2>1
<1>8. Divided(P, S)'
  BY <1>4 DEF Divided
<1> HIDE DEF P, S
<1>9. QED
  BY <1>1, <1>3, <1>4, <1>5, <1>7, <1>8 DEF PopInv

LEMMA AssembleStep ==
  ASSUME NameInv, PopInv, Assemble
  PROVE  DoneInv'
PROOF
<1>1. PICK P \in Seq(Whole), S \in Seq(Whole) :
        /\ parts \in Seq(Whole) /\ parts \o (P \o S) = PartsOf(member_name)
        /\ prefix_items = Reverse(P) /\ suffix_items = Reverse(S)
        /\ prefix_size = Total(P) /\ suffix_size = Total(S)
        /\ add_to_prefix \in BOOLEAN /\ (add_to_prefix <=> P # <<>>)
        /\ Divided(P, S)
  BY DEF PopInv
<1>2. Reverse(prefix_items) = P /\ Reverse(suffix_items) = S
  BY <1>1, ReverseTwice
<1>3. /\ parts = <<>> /\ member_name' = member_name /\ dir' = dir
      /\ data' = [prefix    |-> join(P),
                  suffix    |-> join(S) \o (IF dir THEN <<Empty>> ELSE <<>>),
                  truncated |-> \/ Total(S) + (IF dir THEN 1 ELSE 0) > SuffixSize
                                \/ Total(P) > PrefixSize]
  BY <1>1, <1>2 DEF Assemble, entry
<1>4. P \o S = PartsOf(member_name)
  <2>1. P \o S \in Seq(Whole)
    BY ConcatProperties
  <2> DEFINE r == P \o S
  <2> HIDE DEF r
  <2>2. <<>> \o r = r
    BY <2>1, ConcatEmptySeq DEF r
  <2>3. QED
    BY <1>1, <1>3, <2>2 DEF r
<1>5. Divided(P, S)'
  BY <1>1, <1>3 DEF Divided, TooLong
<1>6. path_new(member_name) # <<>>
  BY DEF PopInv
<1>7. QED
  BY <1>3, <1>4, <1>5, <1>6 DEF DoneInv

\* A size is encoded such that it is read back, whether it fits the octal digits or not.
LEMMA SizeEncoded ==
  ASSUME NEW n \in Nat
  PROVE  EncodedSize(n).value = n
PROOF
<1>1. MaxFileSize \in Nat /\ MaxFileSize = 8^SizeDigits
  BY NamesAssumption
<1>2. CASE n >= MaxFileSize
  BY <1>2 DEF EncodedSize
<1>3. CASE ~(n >= MaxFileSize)
  <2>1. n < MaxFileSize
    BY <1>1, <1>3
  <2>2. n < 8^SizeDigits
    BY <1>1, <2>1
  <2>3. Octal(SizeDigits, n).value = n
    BY <2>2 DEF Octal
  <2>4. QED
    BY <1>3, <2>3 DEF EncodedSize
<1>4. QED
  BY <1>2, <1>3

LEMMA EncodeStep ==
  ASSUME NameInv, DoneInv, Encode
  PROVE  DoneInv' /\ size' \in Nat /\ size_field'.value = size'
PROOF
<1>1. /\ size' \in (IF dir THEN {0} ELSE Sizes) /\ size_field' = EncodedSize(size')
      /\ member_name' = member_name /\ dir' = dir /\ data' = data
  BY DEF Encode, entry
<1>2. size' \in Nat
  BY <1>1, NamesAssumption
<1>3. DoneInv'
  BY <1>1, ZenonT(30) DEF DoneInv, Divided, TooLong
<1>4. QED
  BY <1>1, <1>2, <1>3, SizeEncoded

LEMMA SplitStep == SplitInv /\ [Next]_vars => SplitInv'
PROOF
<1>1. SUFFICES ASSUME SplitInv, [Next]_vars PROVE SplitInv'
  OBVIOUS
<1>2. NameInv /\ NameInv'
  BY <1>1, NameStep DEF SplitInv
<1>3. CASE FindArgument
  BY <1>2, <1>3 DEF FindArgument, SplitInv
<1>4. ASSUME NEW name \in Entries, ReadEntry(name) PROVE SplitInv'
  BY <1>2, <1>4 DEF ReadEntry, SplitInv
<1>5. CASE SplitBegin
  <2>1. PopInv' /\ pc' = "pop"
    BY <1>2, <1>5, BeginStep DEF SplitBegin
  <2>2. QED
    BY <1>2, <2>1 DEF SplitInv
<1>6. CASE SplitEmpty
  BY <1>2, <1>6 DEF SplitEmpty, SplitInv
<1>7. CASE PopItem
  <2>1. pc = "pop" /\ PopInv
    BY <1>1, <1>7 DEF PopItem, SplitInv
  <2>2. pc' = "pop"
    BY <1>7, <2>1 DEF PopItem
  <2>3. PopInv'
    BY <1>2, <1>7, <2>1, PopStep
  <2>4. QED
    BY <1>2, <2>2, <2>3 DEF SplitInv
<1>8. CASE Assemble
  <2>1. PopInv /\ pc' = "encode"
    BY <1>1, <1>8 DEF Assemble, SplitInv
  <2>2. DoneInv'
    BY <1>2, <1>8, <2>1, AssembleStep
  <2>3. QED
    BY <1>2, <2>1, <2>2 DEF SplitInv
<1>9. CASE Encode
  <2>1. DoneInv /\ pc' = "header"
    BY <1>1, <1>9 DEF Encode, SplitInv
  <2>2. DoneInv' /\ size' \in Nat /\ size_field'.value = size'
    BY <1>2, <1>9, <2>1, EncodeStep
  <2>3. QED
    BY <1>2, <2>1, <2>2 DEF SplitInv
<1>10. CASE UNCHANGED vars
  <2>1. UNCHANGED <<pc, member_name, dir, parts, prefix_items, suffix_items, prefix_size,
                    suffix_size, add_to_prefix, data, size, size_field>>
    BY <1>10 DEF vars
  <2>2. PopInv => PopInv'
    BY <2>1 DEF PopInv, Divided, TooLong
  <2>3. DoneInv => DoneInv'
    BY <2>1, ZenonT(30) DEF DoneInv, Divided, TooLong
  <2>4. QED
    BY <1>1, <1>2, <2>1, <2>2, <2>3 DEF SplitInv
<1>11. QED
  BY <1>1, <1>3, <1>4, <1>5, <1>6, <1>7, <1>8, <1>9, <1>10 DEF Next

\* The name of each entry comes from the strings given, and while it is split, and once
\* it is, the parts make up the name: path_clean(), b_find() and path_split().
THEOREM SplitCorrect == Spec => []SplitInv
PROOF
<1>1. Init => SplitInv
  BY NameInit DEF Init, SplitInv
<1>2. QED
  BY <1>1, SplitStep, PTL DEF Spec

-----------------------------------------------------------------------------
LEMMA FieldsFitNow == SplitInv => FieldsFit
PROOF
<1>1. SUFFICES ASSUME SplitInv, pc = "header"
               PROVE  /\ ~data.truncated => /\ Length(data.prefix) <= PrefixSize
                                            /\ Length(data.suffix) <= SuffixSize
                      /\ size_field.value = size
  BY DEF FieldsFit
<1>2. DoneInv /\ size_field.value = size /\ dir \in BOOLEAN
  BY <1>1 DEF SplitInv, NameInv
<1> DEFINE tail == IF dir THEN <<Empty>> ELSE <<>>
           room == IF dir THEN 1 ELSE 0
<1>3. PICK P \in Seq(Whole), S \in Seq(Whole) :
        data = [prefix |-> join(P), suffix |-> join(S) \o tail,
                truncated |-> Total(S) + room > SuffixSize \/ Total(P) > PrefixSize]
  BY <1>2 DEF DoneInv
<1>4. Length(join(P)) = Total(P) /\ Total(P) \in Nat
  BY JoinedLength, TotalFacts
<1>5. join(S) \in Seq(Items) /\ Length(join(S)) = Total(S) /\ Total(S) \in Nat
  BY JoinedLength, TotalFacts
<1>6. Length(join(S) \o tail) = Total(S) + room
  <2>1. CASE dir
    <3> DEFINE e == <<Empty>>
    <3>1. Empty \in Items /\ Empty.len = 0 /\ <<>> \in Seq(Items) /\ Append(<<>>, Empty) = e
          /\ e \in Seq(Items)
      BY ItemFacts, EmptySeq DEF Items
    <3>2. Length(Append(<<>>, Empty)) = Length(<<>>) + 1 + Empty.len
      BY <3>1, LengthAppend
    <3>3. Length(e) = 0
      BY <3>1, <3>2, LengthEmpty
    <3> HIDE DEF e
    <3>4. Length(join(S) \o e) = Length(join(S)) + Length(e) + 1
      BY <1>5, <3>1, LengthConcat
    <3>5. QED
      BY <1>5, <2>1, <3>3, <3>4 DEF e
  <2>2. CASE ~dir
    <3>1. join(S) \o <<>> = join(S)
      BY <1>5, ConcatEmptySeq
    <3>2. QED
      BY <1>5, <2>2, <3>1
  <2>3. QED
    BY <2>1, <2>2
<1>7. PrefixSize \in Nat /\ SuffixSize \in Nat /\ room \in Nat
  BY NamesAssumption
<1> HIDE DEF tail, room
<1>8. ~data.truncated => Total(S) + room <= SuffixSize /\ Total(P) <= PrefixSize
  <2>1. data.truncated <=> (Total(S) + room > SuffixSize \/ Total(P) > PrefixSize)
    <3> DEFINE over == Total(S) + room > SuffixSize \/ Total(P) > PrefixSize
    <3>1. data.truncated = over
      BY <1>3
    <3> HIDE DEF over
    <3>2. data.truncated <=> over
      BY <3>1
    <3>3. QED
      BY <3>2 DEF over
  <2>2. QED
    BY <1>4, <1>5, <1>7, <2>1
<1>9. Length(data.prefix) = Total(P) /\ Length(data.suffix) = Total(S) + room
  <2>1. data.prefix = join(P) /\ data.suffix = join(S) \o tail
    BY <1>3
  <2>2. QED
    BY <1>4, <1>6, <2>1
<1>10. QED
  BY <1>2, <1>8, <1>9

\* The fields of each header take what is put into them, unless the name is said to be
\* truncated, whatever the sizes of the fields: path_split(), b_header_encode_block().
THEOREM FieldsFitHolds == Spec => []FieldsFit
BY SplitCorrect, FieldsFitNow, PTL

-----------------------------------------------------------------------------
\* Items up to some place in a name, and those after it.
LEMMA TwoParts ==
  ASSUME NEW S, NEW s \in Seq(S), NEW i \in 0..Len(s)
  PROVE  /\ SubSeq(s, 1, i) \in Seq(S) /\ SubSeq(s, i + 1, Len(s)) \in Seq(S)
         /\ Len(SubSeq(s, 1, i)) = i /\ Len(SubSeq(s, i + 1, Len(s))) = Len(s) - i
         /\ s = SubSeq(s, 1, i) \o SubSeq(s, i + 1, Len(s))
PROOF
<1> DEFINE n == Len(s)
           p == SubSeq(s, 1, i)
           q == SubSeq(s, i + 1, n)
<1>1. n \in Nat /\ i \in Nat /\ i \in Int /\ n \in Int /\ i + 1 \in Int /\ i <= n
  BY LenProperties
<1>2. \A j \in 1..n : s[j] \in S
  BY ElementOfSeq
<1> HIDE DEF n
<1>3. /\ p \in Seq(S) /\ Len(p) = (IF 1 <= i THEN i - 1 + 1 ELSE 0)
      /\ \A j \in 1..(i - 1 + 1) : p[j] = s[1 + j - 1]
  <2>1. \A j \in 1..i : s[j] \in S
    BY <1>1, <1>2
  <2>2. QED
    BY <1>1, <2>1, SubSeqProperties
<1>4. /\ q \in Seq(S) /\ Len(q) = (IF i + 1 <= n THEN n - (i + 1) + 1 ELSE 0)
      /\ \A j \in 1..(n - (i + 1) + 1) : q[j] = s[(i + 1) + j - 1]
  <2> DEFINE m == i + 1
  <2>1. \A j \in m..n : s[j] \in S
    BY <1>1, <1>2
  <2>2. m \in Int
    BY <1>1
  <2> HIDE DEF m
  <2>3. /\ SubSeq(s, m, n) \in Seq(S) /\ Len(SubSeq(s, m, n)) = (IF m <= n THEN n - m + 1 ELSE 0)
        /\ \A j \in 1..(n - m + 1) : SubSeq(s, m, n)[j] = s[m + j - 1]
    BY <1>1, <2>1, <2>2, SubSeqProperties
  <2>4. QED
    BY <2>3 DEF m
<1> HIDE DEF p, q
<1>5. Len(p) = i /\ \A j \in 1..i : p[j] = s[j]
  BY <1>1, <1>3
<1>6. Len(q) = n - i /\ \A j \in 1..(n - i) : q[j] = s[i + j]
  <2>1. Len(q) = n - i
    BY <1>1, <1>4
  <2>2. ASSUME NEW j \in 1..(n - i) PROVE q[j] = s[i + j]
    <3>1. j \in 1..(n - (i + 1) + 1) /\ (i + 1) + j - 1 = i + j
      BY <1>1
    <3>2. QED
      BY <1>4, <3>1
  <2>3. QED
    BY <2>1, <2>2
<1>7. /\ p \o q \in Seq(S) /\ Len(p \o q) = Len(p) + Len(q)
      /\ \A j \in 1..(Len(p) + Len(q)) : (p \o q)[j] = IF j <= Len(p) THEN p[j] ELSE q[j - Len(p)]
  BY <1>3, <1>4, ConcatProperties
<1>8. s = p \o q
  <2>1. Len(p \o q) = n
    BY <1>1, <1>5, <1>6, <1>7
  <2>2. ASSUME NEW j \in 1..n PROVE (p \o q)[j] = s[j]
    <3>1. CASE j <= i
      BY <1>1, <1>5, <1>6, <1>7, <3>1
    <3>2. CASE ~(j <= i)
      <4>1. j - i \in 1..(n - i) /\ i + (j - i) = j /\ j \in 1..(Len(p) + Len(q))
        BY <1>1, <1>5, <1>6, <3>2
      <4>2. QED
        BY <1>5, <1>6, <1>7, <3>2, <4>1
    <3>3. QED
      BY <3>1, <3>2
  <2>3. QED
    BY <1>7, <2>1, <2>2, SeqEqual DEF n
<1>9. QED
  BY <1>3, <1>4, <1>5, <1>6, <1>8 DEF p, q, n

\* A sequence that is made up in two ways: what is longer begins with what is shorter.
Overlap(p, q, u, v) == p \o q = u \o v /\ Len(p) <= Len(u)
Makes(s, t, u) == s \o t = u

LEMMA TwoWays ==
  ASSUME NEW S, NEW p \in Seq(S), NEW q \in Seq(S), NEW u \in Seq(S), NEW v \in Seq(S)
  PROVE  Overlap(p, q, u, v) => \E w \in Seq(S) : Makes(p, w, u) /\ Makes(w, v, q)
PROOF
<1>0. SUFFICES ASSUME p \o q = u \o v, Len(p) <= Len(u)
               PROVE  \E w \in Seq(S) : Makes(p, w, u) /\ Makes(w, v, q)
  BY DEF Overlap
<1> DEFINE k == Len(p)
           m == Len(u)
           w == SubSeq(u, k + 1, m)
<1>1. k \in 0..m /\ k \in Nat /\ m \in Nat
  BY <1>0, LenProperties
<1>2. w \in Seq(S) /\ SubSeq(u, 1, k) \in Seq(S) /\ Len(SubSeq(u, 1, k)) = k
      /\ u = SubSeq(u, 1, k) \o w
  BY <1>1, TwoParts, ZenonT(30)
<1> DEFINE h == SubSeq(u, 1, k)
<1> HIDE DEF w, h
<1>3. p = h
  <2>1. /\ Len(p \o q) = k + Len(q) /\ Len(q) \in Nat
        /\ \A i \in 1..(k + Len(q)) : (p \o q)[i] = IF i <= k THEN p[i] ELSE q[i - k]
    BY ConcatProperties, LenProperties
  <2>2. h \in Seq(S) /\ Len(h) = k /\ u = h \o w
    BY <1>2 DEF h
  <2>3. w \o v \in Seq(S) /\ (h \o w) \o v = h \o (w \o v)
    <3>1. w \in Seq(S) /\ h \in Seq(S)
      BY <1>2, <2>2
    <3>2. (h \o w) \o v = h \o (w \o v)
      BY <3>1, ConcatThree, SMTT(30)
    <3>3. QED
      BY <3>1, <3>2, ConcatProperties
  <2> DEFINE r == w \o v
  <2> HIDE DEF r
  <2>4. /\ r \in Seq(S) /\ p \o q = h \o r
    BY <1>0, <2>2, <2>3 DEF r
  <2>5. /\ Len(h \o r) = Len(h) + Len(r) /\ Len(r) \in Nat
        /\ \A i \in 1..(Len(h) + Len(r)) : (h \o r)[i] = IF i <= Len(h) THEN h[i] ELSE r[i - Len(h)]
    BY <2>2, <2>4, ConcatProperties, LenProperties
  <2> HIDE DEF k
  <2>6. ASSUME NEW i \in 1..k PROVE p[i] = h[i]
    <3>1. i \in 1..(k + Len(q)) /\ i \in 1..(Len(h) + Len(r)) /\ i <= k /\ i <= Len(h)
      BY <1>1, <2>1, <2>2, <2>5
    <3>2. (p \o q)[i] = p[i]
      BY <2>1, <3>1
    <3>3. (h \o r)[i] = h[i]
      BY <2>5, <3>1
    <3>4. QED
      BY <2>4, <3>2, <3>3
  <2>7. QED
    BY <2>2, <2>6, SeqEqual DEF k
<1>4. u = p \o w
  BY <1>2, <1>3 DEF h
<1>5. q = w \o v
  <2>1. (p \o w) \o v = p \o (w \o v) /\ w \o v \in Seq(S)
    <3>1. w \in Seq(S)
      BY <1>2
    <3>2. (p \o w) \o v = p \o (w \o v)
      BY <3>1, ConcatThree, SMTT(30)
    <3>3. QED
      BY <3>1, <3>2, ConcatProperties
  <2> DEFINE r == w \o v
  <2>2. r \in Seq(S)
    BY <2>1
  <2> HIDE DEF r
  <2>3. p \o q = p \o r
    BY <1>0, <1>4, <2>1 DEF r
  <2>4. q = r
    BY <2>2, <2>3, ConcatSimplifications
  <2>5. QED
    BY <2>4 DEF r
<1>6. QED
  BY <1>2, <1>4, <1>5 DEF Makes

-----------------------------------------------------------------------------
\* A longer end of a name is too long if a shorter one is.
LEMMA TooLongMore ==
  ASSUME NEW s \in Seq(Whole), NEW t \in Seq(Whole), t # <<>>, dir \in BOOLEAN, TooLong(t)
  PROVE  TooLong(s \o t)
PROOF
<1>1. CASE s = <<>>
  BY <1>1, ConcatEmptySeq
<1>2. CASE s # <<>>
  <2>1. Length(s \o t) >= Length(t) + 2
    BY <1>2, LengthMore
  <2>2. s \o t \in Seq(Whole)
    BY ConcatProperties
  <2>3. Length(t) \in Int /\ Length(s \o t) \in Int
    BY <2>2, TotalFacts
  <2>4. SuffixSize \in Nat
    BY NamesAssumption
  <2> DEFINE n == Length(t)
             m == Length(s \o t)
             k == IF dir THEN IF Len(t) = 1 THEN 2 ELSE 1 ELSE 0
             j == IF dir THEN IF Len(s \o t) = 1 THEN 2 ELSE 1 ELSE 0
  <2>5. k \in 0..2 /\ j \in 0..2 /\ (k = 0 <=> j = 0) /\ n + k > SuffixSize
    BY DEF TooLong
  <2>6. m >= n + 2 /\ n \in Int /\ m \in Int
    BY <2>1, <2>3
  <2> HIDE DEF n, m, k, j
  <2>7. m + j > SuffixSize
    BY <2>4, <2>5, <2>6
  <2>8. QED
    BY <2>7 DEF TooLong, m, j
<1>3. QED
  BY <1>1, <1>2

LEMMA ConcatWhole ==
  \A s, t, u \in Seq(Whole) : (s \o t) \o u = s \o (t \o u)
BY ConcatThree

LEMMA TruncatedNow == SplitInv => TruncatedOnlyWhenMust
PROOF
<1> DEFINE items == Without(member_name, {Empty})
           room == IF dir THEN 1 ELSE 0
<1>1. SUFFICES ASSUME SplitInv, pc = "header", data.truncated,
                      NEW i \in 0..(Len(items) - 1), SplitFits(items, i)
               PROVE  FALSE
  BY DEF TruncatedOnlyWhenMust
<1>2. DoneInv /\ dir \in BOOLEAN /\ Tidy(member_name)
  BY <1>1, NameOfEntry DEF SplitInv, NameInv
<1>3. PICK P \in Seq(Whole), S \in Seq(Whole) :
        /\ P \o S = PartsOf(member_name) /\ Divided(P, S)
        /\ data = [prefix    |-> join(P),
                   suffix    |-> join(S) \o (IF dir THEN <<Empty>> ELSE <<>>),
                   truncated |-> Total(S) + room > SuffixSize \/ Total(P) > PrefixSize]
  BY <1>2 DEF DoneInv
<1>4. Total(S) + room > SuffixSize \/ Total(P) > PrefixSize
  BY <1>1, <1>3
<1>5. items # <<>>
  <2>1. Len(<<>>) = 0
    OBVIOUS
  <2>2. QED
    BY <1>1, <2>1
<1>6. items \in Seq(Whole) /\ P \o S = items
  BY <1>2, <1>3, <1>5, PartsIn DEF DoneInv
<1> HIDE DEF items
<1>7. PICK p \in Seq(Whole), q \in Seq(Whole) :
        /\ p = SubSeq(items, 1, i) /\ q = SubSeq(items, i + 1, Len(items))
        /\ p \o q = items /\ Len(p) = i /\ Len(q) = Len(items) - i
  <2>1. i \in 0..Len(items)
    BY <1>1, <1>6, LenProperties
  <2> DEFINE a == SubSeq(items, 1, i)
             b == SubSeq(items, i + 1, Len(items))
  <2>2. /\ a \in Seq(Whole) /\ b \in Seq(Whole)
        /\ Len(a) = i /\ Len(b) = Len(items) - i /\ items = a \o b
    BY <1>6, <2>1, TwoParts
  <2> HIDE DEF a, b
  <2>3. \E p \in Seq(Whole), q \in Seq(Whole) :
          p = a /\ q = b /\ p \o q = items /\ Len(p) = i /\ Len(q) = Len(items) - i
    BY <2>2
  <2>4. QED
    BY <2>3 DEF a, b
<1>8. /\ Len(items) \in Nat /\ Len(q) \in Nat \ {0} /\ q # <<>>
      /\ Len(p) \in Nat /\ Len(P) \in Nat /\ Len(S) \in Nat
  <2>1. Len(items) \in Nat /\ Len(p) \in Nat /\ Len(P) \in Nat /\ Len(S) \in Nat
    BY <1>6, LenProperties
  <2>2. Len(q) \in Nat \ {0}
    <3>1. i \in 0..(Len(items) - 1) /\ Len(q) = Len(items) - i
      BY <1>1, <1>7
    <3> DEFINE n == Len(items)
               k == Len(q)
    <3>2. i \in 0..(n - 1) /\ k = n - i /\ n \in Nat
      BY <2>1, <3>1
    <3> HIDE DEF n, k
    <3>3. k \in Nat \ {0}
      BY <3>2
    <3>4. QED
      BY <3>3 DEF k
  <2>3. q # <<>>
    BY <2>2, EmptySeq
  <2>4. QED
    BY <2>1, <2>2, <2>3
<1>9. PrefixSize \in Nat /\ SuffixSize \in Nat
  BY NamesAssumption
<1>10. /\ Length(q) + (IF dir THEN IF Len(q) = 1 THEN 2 ELSE 1 ELSE 0) <= SuffixSize
       /\ i # 0 => Length(p) <= PrefixSize
  BY <1>1, <1>7 DEF SplitFits
<1>11. ~TooLong(q)
  <2>1. Length(q) \in Int
    BY TotalFacts
  <2> DEFINE r == IF dir THEN IF Len(q) = 1 THEN 2 ELSE 1 ELSE 0
  <2>2. r \in Nat /\ Length(q) + r <= SuffixSize
    BY <1>10
  <2> HIDE DEF r
  <2>3. ~(Length(q) + r > SuffixSize)
    BY <1>9, <2>1, <2>2
  <2>4. QED
    BY <2>3 DEF TooLong, r
<1>12. CASE Len(p) < Len(P)
  <2>1. P # <<>>
    BY <1>8, <1>12, EmptySeq
  <2> DEFINE F == Front(P)
             l == Last(P)
  <2>2. F \in Seq(Whole) /\ l \in Whole /\ P = Append(F, l) /\ Len(P) = Len(F) + 1 /\ Len(F) \in Nat
    BY <2>1, FrontAndLast
  <2>3. TooLong(<<l>> \o S)
    BY <1>3, <2>1 DEF Divided
  <2> HIDE DEF F, l
  <2> DEFINE y == <<l>>
             v == y \o S
  <2>4. y \in Seq(Whole) /\ v \in Seq(Whole) /\ v # <<>>
    BY <2>2, TotalMore
  <2>5. P = F \o y
    BY <2>2, AppendIsConcat
  <2> HIDE DEF y
  <2>6. (F \o y) \o S = F \o v
    <3>1. F \in Seq(Whole) /\ y \in Seq(Whole)
      BY <2>2, <2>4
    <3>2. QED
      BY <3>1, ConcatWhole, SMTT(30)
  <2> HIDE DEF v
  <2>7. p \o q = F \o v
    BY <1>6, <1>7, <2>5, <2>6
  <2>8. Len(p) <= Len(F)
    BY <1>8, <1>12, <2>2
  <2>9. PICK w \in Seq(Whole) : q = w \o v
    <3>1. F \in Seq(Whole) /\ v \in Seq(Whole)
      BY <2>2, <2>4
    <3>2. Overlap(p, q, F, v)
      BY <2>7, <2>8 DEF Overlap
    <3>3. PICK w \in Seq(Whole) : Makes(w, v, q)
      BY <3>1, <3>2, TwoWays
    <3>4. q = w \o v
      BY <3>3 DEF Makes
    <3>5. QED
      BY <3>4
  <2>10. TooLong(v)
    BY <2>3 DEF v, y
  <2>11. TooLong(q)
    BY <1>2, <2>4, <2>9, <2>10, TooLongMore
  <2>12. QED
    BY <1>11, <2>11
<1>13. CASE Len(P) <= Len(p)
  <2>1. P \o S = p \o q
    BY <1>6, <1>7
  <2>2. PICK w \in Seq(Whole) : p = P \o w /\ S = w \o q
    <3>1. Overlap(P, S, p, q)
      BY <1>13, <2>1 DEF Overlap
    <3>2. PICK w \in Seq(Whole) : Makes(P, w, p) /\ Makes(w, q, S)
      BY <3>1, TwoWays
    <3>3. p = P \o w /\ S = w \o q
      BY <3>2 DEF Makes
    <3>4. QED
      BY <3>3
  <2>3. Len(S) = Len(w) + Len(q) /\ Len(w) \in Nat
    BY <2>2, ConcatProperties, LenProperties
  <2>4. S # <<>>
    BY <1>8, <2>3, EmptySeq
  <2>5. ~TooLong(S)
    <3>1. CASE w = <<>>
      <4>1. S = q
        BY <2>2, <3>1, ConcatEmptySeq
      <4>2. QED
        BY <1>11, <4>1
    <3>2. CASE w # <<>>
      <4>1. Len(S) # 1
        BY <1>8, <2>3, <3>2, EmptySeq
      <4>2. QED
        BY <1>3, <2>4, <4>1 DEF Divided
    <3>3. QED
      BY <3>1, <3>2
  <2>6. Total(S) = Length(S) /\ Length(S) \in Int
    BY <2>4, TotalFacts
  <2>7. Total(S) + room <= SuffixSize
    <3> DEFINE r == IF dir THEN IF Len(S) = 1 THEN 2 ELSE 1 ELSE 0
    <3>1. ~(Length(S) + r > SuffixSize)
      BY <2>5 DEF TooLong
    <3>2. r \in Nat /\ room \in Nat /\ room <= r
      OBVIOUS
    <3> HIDE DEF r, room
    <3>3. QED
      BY <1>9, <2>6, <3>1, <3>2
  <2>8. Total(P) > PrefixSize
    <3>1. Total(S) \in Nat /\ room \in Nat
      BY TotalFacts
    <3> HIDE DEF room
    <3>2. QED
      BY <1>4, <1>9, <2>7, <3>1
  <2>9. Total(P) \in Nat /\ P # <<>> /\ Total(P) = Length(P) /\ Length(P) \in Int /\ Len(P) # 0
    BY <1>9, <2>8, TotalFacts, SMTT(30)
  <2>10. Length(p) <= PrefixSize
    <3>1. Len(p) # 0
      BY <1>8, <1>13, <2>9
    <3>2. QED
      BY <1>7, <1>10, <3>1
  <2>11. Length(p) >= Length(P) /\ Length(p) \in Int
    <3>1. Length(p) \in Int
      BY TotalFacts
    <3>2. CASE w = <<>>
      <4>1. p = P
        BY <2>2, <3>2, ConcatEmptySeq
      <4>2. QED
        BY <2>9, <4>1
    <3>3. CASE w # <<>>
      <4>1. Length(p) >= Length(P) + 2
        BY <2>2, <2>9, <3>3, LengthMore
      <4>2. QED
        BY <2>9, <3>1, <4>1
    <3>4. QED
      BY <3>1, <3>2, <3>3
  <2>12. QED
    BY <1>9, <2>8, <2>9, <2>10, <2>11
<1>14. QED
  BY <1>8, <1>12, <1>13

\* path_split() gives a name up only if no slash divides it into parts that fit, the
\* suffix of a directory's last name having one byte less: for any sizes and names.
THEOREM TruncatedOnlyWhenMustHolds == Spec => []TruncatedOnlyWhenMust
BY SplitCorrect, TruncatedNow, PTL

-----------------------------------------------------------------------------
\* The slash of a directory.
SlashOf(d) == IF d THEN <<Empty>> ELSE <<>>

LEMMA SlashAdded ==
  ASSUME NEW c \in Seq(Components), NEW d \in BOOLEAN
  PROVE  /\ SlashOf(d) \in Seq(Components) /\ SlashOf(d) \in Seq({Empty})
         /\ c \o SlashOf(d) \in Seq(Components)
         /\ Meaning(c \o SlashOf(d)) = Meaning(c)
         /\ d => Last(c \o SlashOf(d)) = Empty
         /\ ~d => c \o SlashOf(d) = c
PROOF
<1>1. <<>> \in Seq({Empty}) /\ <<Empty>> \in Seq({Empty})
  BY EmptySeq
<1>2. PICK t \in Seq({Empty}) : t = SlashOf(d)
  BY <1>1 DEF SlashOf
<1>3. {Empty} \subseteq Components
  BY ItemFacts
<1>4. t \in Seq(Components)
  BY <1>3, SeqMonotonic
<1>5. Without(t, {Empty, Dot}) = <<>>
  <2>1. t \in Seq({Empty, Dot})
    BY SeqMonotonic
  <2>2. QED
    BY <2>1, WithoutAll
<1>6. Without(c \o t, {Empty, Dot}) = Without(c, {Empty, Dot}) \o Without(t, {Empty, Dot})
  BY <1>4, WithoutConcat
<1>7. Without(c, {Empty, Dot}) \in Seq(Components \ {Empty, Dot})
  BY WithoutLeft
<1>8. Meaning(c \o t) = Meaning(c)
  BY <1>5, <1>6, <1>7, ConcatEmptySeq DEF Meaning
<1>9. c \o t \in Seq(Components)
  BY <1>4, ConcatProperties
<1>10. d => Last(c \o t) = Empty
  <2>1. SUFFICES ASSUME d PROVE Last(c \o t) = Empty
    OBVIOUS
  <2>2. t = <<Empty>>
    BY <1>2, <2>1 DEF SlashOf
  <2>3. c \o t = Append(c, Empty) /\ Empty \in Components
    BY <1>3, <2>2, AppendIsConcat
  <2>4. Len(Append(c, Empty)) = Len(c) + 1 /\ Append(c, Empty)[Len(c) + 1] = Empty
    BY <2>3, AppendProperties
  <2>5. QED
    BY <2>3, <2>4 DEF Last
<1>11. ~d => c \o t = c
  BY <1>2, ConcatEmptySeq DEF SlashOf
<1>12. QED
  BY <1>2, <1>4, <1>8, <1>9, <1>10, <1>11

\* The strings that components are joined to.
LEMMA JoinedReal ==
  ASSUME NEW s \in Seq(Real)
  PROVE  /\ s \in Seq(Components)
         /\ join(s) = IF s = <<>> THEN <<Empty>> ELSE s
         /\ (IF join(s) = <<Empty>> THEN <<>> ELSE join(s)) = s
PROOF
<1>1. s \in Seq(Components)
  BY SeqMonotonic DEF Real
<1>2. CASE s = <<>>
  BY <1>1, <1>2 DEF join
<1>3. CASE s # <<>>
  <2>1. s[1] \in Real
    <3>1. 1 \in 1..Len(s)
      BY <1>3, EmptySeq, LenProperties
    <3>2. QED
      BY <3>1, ElementOfSeq
  <2>2. s # <<Slash>> /\ s # <<Empty>>
    <3>1. \A x : s = <<x>> => s[1] = x
      OBVIOUS
    <3>2. QED
      BY <2>1, <3>1, ItemFacts DEF Real
  <2>3. join(s) = s
    BY <1>3, <2>2 DEF join
  <2>4. QED
    BY <1>1, <1>3, <2>2, <2>3
<1>4. QED
  BY <1>2, <1>3

LEMMA HalvesIn ==
  ASSUME NEW S, NEW T, NEW p \in Seq(S), NEW q \in Seq(S), p \o q \in Seq(T)
  PROVE  p \in Seq(T) /\ q \in Seq(T)
PROOF
<1> DEFINE u == p \o q
<1>1. /\ Len(u) = Len(p) + Len(q) /\ Len(p) \in Nat /\ Len(q) \in Nat
      /\ \A i \in 1..(Len(p) + Len(q)) : u[i] = IF i <= Len(p) THEN p[i] ELSE q[i - Len(p)]
  BY ConcatProperties, LenProperties
<1>2. u \in Seq(T)
  OBVIOUS
<1> HIDE DEF u
<1>3. \A i \in 1..Len(u) : u[i] \in T
  BY <1>2, ElementOfSeq
<1>4. ASSUME NEW i \in 1..Len(p) PROVE p[i] \in T
  <2>1. i \in 1..Len(u) /\ u[i] = p[i]
    BY <1>1
  <2>2. QED
    BY <1>3, <2>1
<1>5. ASSUME NEW i \in 1..Len(q) PROVE q[i] \in T
  <2>1. i + Len(p) \in 1..(Len(p) + Len(q)) /\ ~(i + Len(p) <= Len(p)) /\ i + Len(p) - Len(p) = i
    BY <1>1
  <2>2. u[i + Len(p)] = q[i]
    BY <1>1, <2>1
  <2>3. QED
    BY <1>1, <1>3, <2>1, <2>2
<1>6. p \in Seq(T)
  BY <1>4, InRange
<1>7. q \in Seq(T)
  BY <1>5, InRange
<1>8. QED
  BY <1>6, <1>7

LEMMA MeaningConcat ==
  \A s, t \in Seq(Components) : Meaning(s \o t) = Meaning(s) \o Meaning(t)
PROOF
<1> TAKE s, t \in Seq(Components)
<1>1. Without(s \o t, {Empty, Dot}) = Without(s, {Empty, Dot}) \o Without(t, {Empty, Dot})
  BY WithoutConcat
<1>2. QED
  BY <1>1 DEF Meaning

LEMMA WishedNow ==
  ASSUME RootAsItself
  PROVE  SplitInv => NamedAsWished
PROOF
<1> DEFINE items == Without(member_name, {Empty})
           tail == SlashOf(dir)
<1>1. SUFFICES ASSUME SplitInv, pc = "header"
               PROVE  /\ Meaning(NameRead) = Meaning(given[2]) \o below
                      /\ Meaning(NameRead) # <<>> => (dir <=> Last(NameRead) = Empty)
  BY DEF NamedAsWished
<1>2. /\ DoneInv /\ dir \in BOOLEAN /\ Tidy(member_name)
      /\ Meaning(member_name) = Meaning(given[2]) \o below
  BY <1>1, NameOfEntry DEF SplitInv, NameInv
<1>3. /\ member_name \in Strings /\ member_name \in Seq(Components)
      /\ items \in Seq(Real) /\ Meaning(items) = Meaning(member_name)
      /\ items = <<>> => Meaning(member_name) = <<>>
      /\ items # <<>> => Last(member_name) # Empty
  <2>1. member_name \in Strings
    BY <1>2 DEF Tidy
  <2>2. QED
    BY <1>2, <2>1, PathNew DEF Tidy
<1>4. CASE data.truncated
  <2>1. NameRead = member_name \o tail
    BY <1>4 DEF NameRead, SlashOf
  <2>2. /\ Meaning(member_name \o tail) = Meaning(member_name)
        /\ dir => Last(member_name \o tail) = Empty
        /\ ~dir => member_name \o tail = member_name
    BY <1>2, <1>3, SlashAdded
  <2> HIDE DEF items, tail
  <2>3. QED
    BY <1>2, <1>3, <2>1, <2>2
<1>5. CASE ~data.truncated
  <2>1. PICK P \in Seq(Whole), S \in Seq(Whole) :
          /\ P \o S = PartsOf(member_name) /\ Divided(P, S)
          /\ data.prefix = join(P) /\ data.suffix = join(S) \o tail
    <3>1. PICK P \in Seq(Whole), S \in Seq(Whole) :
            /\ P \o S = PartsOf(member_name) /\ Divided(P, S)
            /\ data = [prefix    |-> join(P),
                       suffix    |-> join(S) \o (IF dir THEN <<Empty>> ELSE <<>>),
                       truncated |-> \/ Total(S) + (IF dir THEN 1 ELSE 0) > SuffixSize
                                     \/ Total(P) > PrefixSize]
      BY <1>2 DEF DoneInv
    <3>2. data.prefix = join(P) /\ data.suffix = join(S) \o tail
      BY <3>1 DEF SlashOf
    <3>3. QED
      BY <3>1, <3>2
  <2> DEFINE first == IF join(P) = <<Empty>> THEN <<>> ELSE join(P)
  <2>2. NameRead = first \o (join(S) \o tail)
    BY <1>5, <2>1 DEF NameRead
  <2>3. CASE items # <<>>
    <3>1. P \o S = items
      BY <1>2, <2>1, <2>3, PartsIn DEF DoneInv
    <3>2. P \in Seq(Real) /\ S \in Seq(Real)
      <4>1. P \o S \in Seq(Real)
        BY <1>3, <3>1
      <4>2. QED
        BY <4>1, HalvesIn
    <3> DEFINE j == join(S)
               c == P \o j
    <3>3. P \in Seq(Components) /\ first = P
      BY <3>2, JoinedReal
    <3>4. S \in Seq(Components) /\ j = IF S = <<>> THEN <<Empty>> ELSE S
      BY <3>2, JoinedReal
    <3> HIDE DEF items, first, j
    <3>5. j \in Seq(Components) /\ Meaning(j) = Meaning(S)
      <4>1. CASE S = <<>>
        <5>1. <<>> \o SlashOf(TRUE) = j /\ <<>> \in Seq(Components)
          <6>1. <<Empty>> \in Seq(Components)
            BY ItemFacts
          <6>2. <<>> \o <<Empty>> = <<Empty>>
            BY <6>1, ConcatEmptySeq
          <6>3. QED
            BY <3>4, <4>1, <6>2, EmptySeq DEF SlashOf
        <5>2. /\ <<>> \o SlashOf(TRUE) \in Seq(Components)
              /\ Meaning(<<>> \o SlashOf(TRUE)) = Meaning(<<>>)
          BY <5>1, SlashAdded
        <5>3. QED
          BY <4>1, <5>1, <5>2
      <4>2. CASE S # <<>>
        BY <3>4, <4>2
      <4>3. QED
        BY <4>1, <4>2
    <3>6. c \in Seq(Components)
      BY <3>3, <3>5, ConcatProperties
    <3>7. Meaning(c) = Meaning(member_name)
      <4>1. Meaning(P \o j) = Meaning(P) \o Meaning(j)
        BY <3>3, <3>5, MeaningConcat
      <4>2. Meaning(P \o S) = Meaning(P) \o Meaning(S)
        BY <3>3, <3>4, MeaningConcat
      <4>3. QED
        BY <1>3, <3>1, <3>5, <4>1, <4>2 DEF items
    <3>8. NameRead = c \o tail
      <4>1. tail \in Seq(Components)
        BY <1>2, <3>6, SlashAdded
      <4> HIDE DEF tail
      <4>2. (P \o j) \o tail = P \o (j \o tail)
        BY <3>3, <3>5, <4>1, ConcatThree
      <4>3. QED
        BY <2>2, <3>3, <4>2 DEF j
    <3> HIDE DEF c
    <3>9. /\ Meaning(c \o tail) = Meaning(c)
          /\ dir => Last(c \o tail) = Empty
          /\ ~dir => c \o tail = c
      BY <1>2, <3>6, SlashAdded
    <3>10. ~dir => Last(c) # Empty
      <4>1. SUFFICES ASSUME ~dir PROVE Last(c) # Empty
        OBVIOUS
      <4>2. S # <<>>
        <5>1. CASE P = <<>>
          <6>1. <<>> \o S = S
            BY ConcatEmptySeq
          <6>2. QED
            BY <2>3, <3>1, <5>1, <6>1
        <5>2. CASE P # <<>>
          BY <2>1, <4>1, <5>2 DEF Divided
        <5>3. QED
          BY <5>1, <5>2
      <4>3. c = items
        BY <3>1, <3>4, <4>2 DEF c
      <4>4. Last(items) \in Real
        BY <1>3, <2>3, FrontAndLast DEF items
      <4>5. QED
        BY <4>3, <4>4 DEF Real
    <3> HIDE DEF tail
    <3>11. QED
      BY <1>2, <3>7, <3>8, <3>9, <3>10
  <2>4. CASE items = <<>>
    <3>1. P \o S = <<Slash>>
      BY <1>2, <2>1, <2>4, PartsIn DEF DoneInv
    <3>2. (P = <<>> \/ P = <<Slash>>) /\ (S = <<>> \/ S = <<Slash>>)
      <4>1. Len(P \o S) = Len(P) + Len(S) /\ Len(P) \in Nat /\ Len(S) \in Nat
        BY ConcatProperties, LenProperties
      <4>2. Len(<<Slash>>) = 1
        OBVIOUS
      <4>3. Len(P) = 0 \/ Len(S) = 0
        BY <3>1, <4>1, <4>2
      <4>4. P = <<>> \/ S = <<>>
        BY <4>3, EmptySeq
      <4>5. <<>> \o S = S /\ P \o <<>> = P
        BY ConcatEmptySeq
      <4>6. QED
        BY <3>1, <4>4, <4>5
    <3>3. ASSUME NEW s, s = <<>> \/ s = <<Slash>> PROVE join(s) \in Seq({Empty})
      <4>1. <<Empty>> \in Seq({Empty}) /\ <<Empty, Empty>> \in Seq({Empty})
        OBVIOUS
      <4>2. <<Slash>> # <<>>
        OBVIOUS
      <4>3. join(s) = <<Empty>> \/ join(s) = Root
        BY <3>3, <4>2 DEF join
      <4>4. QED
        BY <4>1, <4>3 DEF Root
    <3>4. join(P) \in Seq({Empty}) /\ join(S) \in Seq({Empty})
      BY <3>2, <3>3
    <3>5. first \in Seq({Empty})
      BY <3>4, EmptySeq
    <3>6. tail \in Seq({Empty})
      BY <1>2, <1>3, SlashAdded
    <3> HIDE DEF first, tail, items
    <3>7. join(S) \o tail \in Seq({Empty})
      BY <3>4, <3>6, ConcatProperties
    <3>8. NameRead \in Seq({Empty})
      BY <2>2, <3>5, <3>7, ConcatProperties
    <3>9. NameRead \in Seq({Empty, Dot})
      BY <3>8, SeqMonotonic
    <3>10. Meaning(NameRead) = <<>>
      BY <3>9, WithoutAll DEF Meaning
    <3>11. QED
      BY <1>2, <1>3, <2>4, <3>10
  <2>5. QED
    BY <2>3, <2>4
<1>6. QED
  BY <1>4, <1>5

\* A reader of the archive finds each entry under the name the caller wished for its
\* argument, with a slash at the end if it is a directory, for any strings given, if "/"
\* is not given another name: path_clean(), subst_member_name(), path_split().
THEOREM NamedAsWishedHolds ==
  ASSUME RootAsItself
  PROVE  Spec => []NamedAsWished
PROOF
<1>1. SplitInv => NamedAsWished
  BY WishedNow
<1>2. QED
  BY <1>1, SplitCorrect, PTL
==============================================================================
