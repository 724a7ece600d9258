----------------------------- MODULE MCMatching -----------------------------
(***************************************************************************)
(* Matching with all short patterns over one letter, one separator and the *)
(* wildcards, some with classes and escapes, and all short files.          *)
(***************************************************************************)
EXTENDS Matching

MCAlphabet == <<"!", "$", "*", "-", "/", "?", "[", "\\", "]", "^", "a", "b", "c">>

Short(S, n) == UNION {[1..k -> S] : k \in 1..n}

\* A `*' and what follows it are read differently from fnmatch(3) where that
\* is a slash (not at the end of the name) or a `?' (not a slash).
Plain(p) ==
  /\ p # <<"/">>
  /\ \A i \in 2..Len(p) :
       /\ p[i] = "/" => p[i - 1] \notin {"/", "*"}
       /\ p[i] = "?" => p[i - 1] # "*"

MCPatterns ==
  {p \in Short({"a", "/", "*", "?"}, 3) : Plain(p)}
    \cup {<<"^", "b">>, <<"^", "a", "$">>, <<"b", "$">>, <<"a", "/", "b", "$">>,
          <<"[", "a", "-", "b", "]">>, <<"[", "!", "a", "]">>, <<"[", "b", "-", "]">>,
          <<"b", "[", "^", "b", "]">>, <<"[", "\\", "b", "-", "c", "]", "/">>,
          <<"\\", "a">>, <<"[", "a">>, <<"\\", "*">>, <<"b", "/", "a", "/">>}

MCCompanions == {<<"a">>, <<"b", "/", "*">>}

MCFiles == Short({"a", NL, ZERO}, 5) \cup {<< >>}

MCNames == {<<"a">>, <<"b">>, <<"b", "a">>, <<"a", "/", "b">>, <<"b", "/", "a">>,
            <<"/", "a">>, <<"b", "/", "a", "/", "b">>}

\* What the theorems about decisions assume of the matcher.
ASSUME MatchesAsMeant
=============================================================================
