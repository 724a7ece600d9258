------------------------------ MODULE MCNames ------------------------------
(***************************************************************************)
(* Names with the sizes of a ustar header and components at, below and     *)
(* above what its fields hold.                                             *)
(***************************************************************************)
EXTENDS Names

Lengths == {1, 54, 98, 99, 100, 155, 156}
Part(i, len) == [id |-> <<i>>, len |-> len]

\* Member names of one and two components, absolute or not.
MCPlain == {<<Part("a", l)>> : l \in Lengths}
           \cup {<<Part("a", l), Part("b", m)>> : l, m \in Lengths}
MCNames == MCPlain \cup {<<Empty>> \o s : s \in MCPlain}

\* As a caller may write them: with needless slashes and dots.
MCUnclean ==
  LET a == Part("a", 54)  b == Part("b", 100) IN
  {<<a, Empty, b>>, <<a, Dot, b, Empty>>, <<Dot, a>>, <<Dot, Dot>>,
   <<Empty, Empty, a>>, <<Empty, Dot, a>>, <<Dot>>, <<Empty, Dot>>}

MCPath == <<Part("p", 1), Part("q", 1)>>

\* Another name for a directory, its own name, the root as itself, the empty
\* name, which only the contents of a directory can be given.
MCGiven ==
  {<<MCPath, s>> : s \in MCNames \cup MCUnclean}
  \cup {<<s, s>> : s \in MCNames \cup MCUnclean}
  \cup {<<Root, Root>>, <<MCPath, Root>>, <<MCPath, <<Empty>> >>}

MCEntries == {Part("e", l) : l \in {1, 99, 100}}
=============================================================================
