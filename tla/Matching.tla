------------------------------ MODULE Matching ------------------------------
(***************************************************************************)
(* Inclusions and exclusions as match_engine.c keeps them: added by the    *)
(* caller or from a file (LineReader), and asked, by b_find() or by        *)
(* is_excluded(), about one name after another (PathMatch).                *)
(***************************************************************************)
EXTENDS LineReader, PathMatch

CONSTANTS
  Patterns,      \* what callers add first
  Companions,    \* what they add besides
  Files,         \* contents of pattern files
  Names,         \* names asked about
  MaxPatterns,   \* bound: patterns a caller adds
  MaxAsked       \* bound: different names asked about

VARIABLES
  exclusions, inclusions,        \* lists of [pattern, matches > 0, given, asked]
  inclusions_unmatched_count,
  reading,    \* the list a file is read for, or "none"
  file,       \* its contents
  lines,      \* the lines it gave
  asked,      \* the names asked about
  answer,     \* the last name and what was said of it
  overrun     \* a match has gone past the end of a name

matchVars == <<exclusions, inclusions, inclusions_unmatched_count>>
vars == <<readerVars, matchVars, reading, file, lines, asked, answer, overrun>>

Characters == ToSet(Alphabet) \cup {NL, ZERO}
ASSUME MatchingAssumption ==
  /\ BuffLength \in Nat \ {0}
  /\ Alphabet \in Seq(ToSet(Alphabet))
  /\ Closed \notin Seq(Characters) /\ NUL \notin Characters /\ "any text" \notin Characters
  /\ Files \subseteq Seq(Characters)
  /\ Patterns \cup Companions \cup Names \subseteq Seq(ToSet(Alphabet))

Unasked == [name |-> << >>, excluded |-> FALSE]

Init ==
  /\ ReaderInit
  /\ exclusions = << >> /\ inclusions = << >> /\ inclusions_unmatched_count = 0
  /\ reading = "none" /\ file = << >> /\ lines = << >>
  /\ asked = {} /\ answer = Unasked
  /\ overrun = FALSE

\* "foo/" is kept as "foo".  `given' and `asked' are for the properties only.
Stripped(pattern) ==
  IF pattern # << >> /\ pattern[Len(pattern)] = "/" THEN Front(pattern) ELSE pattern

add_pattern(list, pattern) ==
  <<[pattern |-> Stripped(pattern), matches |-> FALSE,
     given |-> pattern, asked |-> {}]>> \o list

lafe_exclude(pattern) ==
  /\ exclusions' = add_pattern(exclusions, pattern)
  /\ UNCHANGED <<inclusions, inclusions_unmatched_count>>

lafe_include(pattern) ==
  /\ inclusions' = add_pattern(inclusions, pattern)
  /\ inclusions_unmatched_count' = inclusions_unmatched_count + 1
  /\ UNCHANGED exclusions

AddTo(list, pattern) ==
  \/ list = "exclusions" /\ lafe_exclude(pattern)
  \/ list = "inclusions" /\ lafe_include(pattern)

-----------------------------------------------------------------------------
Idle == reading = "none"

\* What the last file gave is remembered until the next call.
Forget == file' = << >> /\ lines' = << >>

\* exclude() and include().
AddPattern(list, pattern) ==
  /\ Idle /\ Len(exclusions) + Len(inclusions) < MaxPatterns
  /\ \/ exclusions \o inclusions = << >> /\ pattern \in Patterns
     \/ pattern \in Companions
  /\ AddTo(list, pattern)
  /\ Forget
  /\ UNCHANGED <<readerVars, reading, asked, answer, overrun>>

\* exclude_from_file() and include_from_file(); here as the first call.
ReadFile(list, contents) ==
  /\ Idle /\ exclusions \o inclusions = << >> /\ asked = {}
  /\ OpenFile(contents)
  /\ reading' = list /\ file' = contents /\ lines' = << >>
  /\ UNCHANGED <<matchVars, asked, answer, overrun>>

TakeLine(text) ==
  lines' = Append(lines, text) /\ AddTo(reading, text)

Rest == UNCHANGED <<reading, file, asked, answer, overrun>>

ReadLine ==
  /\ ~Idle /\ NextLine
  /\ IF line # << >> THEN TakeLine(line) ELSE UNCHANGED <<matchVars, lines>>
  /\ Rest

ReadLastLine ==
  /\ ~Idle /\ LastLine
  /\ TakeLine(SubSeq(buff, line_start + 1, Len(buff)))
  /\ Rest

ReadMore == ~Idle /\ Refill /\ Rest /\ UNCHANGED <<matchVars, lines>>

EndOfFile ==
  /\ ~Idle /\ NoMoreText /\ reading' = "none"
  /\ UNCHANGED <<matchVars, file, lines, asked, answer, overrun>>

\* The loop ends as at the end of the file, and its caller is told of success.
ReadFails ==
  /\ ~Idle /\ RefillFails /\ reading' = "none" /\ Forget
  /\ UNCHANGED <<matchVars, asked, answer, overrun>>

\* Exclusions are anchored nowhere, inclusions at the start.
match_exclusion(match, name, beyond) ==
  lafe_pathmatch(match.pattern, name, {NO_ANCHOR_START, NO_ANCHOR_END}, beyond)
match_inclusion(match, name, beyond) ==
  lafe_pathmatch(match.pattern, name, {NO_ANCHOR_END}, beyond)

\* Mutant: what matched before is not tried again.
lafe_excluded_once(name, beyond) ==
  LET new == {i \in DOMAIN inclusions : /\ ~inclusions[i].matches
                                        /\ match_inclusion(inclusions[i], name, beyond)}
      excluded == \E i \in DOMAIN exclusions : match_exclusion(exclusions[i], name, beyond)
  IN [new |-> new, excluded |-> excluded \/ (new = {} /\ inclusions # << >>)]

\* lafe_excluded(): the inclusions that match for the first time are marked
\* before anything is decided; those that did before are tried last.
lafe_excluded(name, beyond) ==
  LET Included(i) == match_inclusion(inclusions[i], name, beyond)
      new == {i \in DOMAIN inclusions : ~inclusions[i].matches /\ Included(i)}
      excluded == \E i \in DOMAIN exclusions : match_exclusion(exclusions[i], name, beyond)
      again == \E i \in DOMAIN inclusions : inclusions[i].matches /\ Included(i)
  IN [new |-> new,
      excluded |-> excluded \/ (new = {} /\ ~again /\ inclusions # << >>)]

\* Mutant: an inclusion is counted each time it matches.
MarkEach(new, name) ==
  LET all == {i \in DOMAIN inclusions : match_inclusion(inclusions[i], name, TRUE)} IN
  /\ inclusions' = [i \in DOMAIN inclusions |->
       [inclusions[i] EXCEPT !.matches = @ \/ i \in new, !.asked = @ \cup {name}]]
  /\ inclusions_unmatched_count' = inclusions_unmatched_count - Cardinality(all)

Mark(new, name) ==
  /\ inclusions' = [i \in DOMAIN inclusions |->
       [inclusions[i] EXCEPT !.matches = @ \/ i \in new, !.asked = @ \cup {name}]]
  /\ inclusions_unmatched_count' = inclusions_unmatched_count - Cardinality(new)

Ask(name) ==
  /\ Idle /\ Cardinality(asked \cup {name}) <= MaxAsked
  /\ \E beyond \in BOOLEAN :
       LET said == lafe_excluded(name, beyond) IN
       /\ Mark(said.new, name)
       /\ answer' = [name |-> name, excluded |-> said.excluded]
       /\ overrun' = (overrun \/ said # lafe_excluded(name, ~beyond))
  /\ asked' = asked \cup {name} /\ Forget
  /\ UNCHANGED <<readerVars, exclusions, reading>>

\* lafe_cleanup_exclusions(), when the builder is destroyed.
Cleanup ==
  /\ Idle /\ exclusions \o inclusions # << >>
  /\ exclusions' = << >> /\ inclusions' = << >> /\ inclusions_unmatched_count' = 0
  /\ asked' = {} /\ Forget /\ overrun' = FALSE
  /\ answer' = Unasked
  /\ UNCHANGED <<readerVars, reading>>

ReaderStep == ReadLine \/ ReadLastLine \/ ReadMore \/ EndOfFile

Next ==
  \/ \E list \in {"exclusions", "inclusions"} :
       \/ \E pattern \in Patterns \cup Companions : AddPattern(list, pattern)
       \/ \E contents \in Files : ReadFile(list, contents)
  \/ ReaderStep \/ ReadFails
  \/ \E name \in Names : Ask(name)
  \/ Cleanup

\* Reading a file is a loop of its own, in which nothing waits.
Spec == Init /\ [][Next]_vars /\ WF_vars(ReaderStep)
-----------------------------------------------------------------------------
\* What a pattern means.  Its text is a sequence of items, each a set of
\* characters, but for `*', which stands for any text.
AnyText == {"any text"}

Items(p) ==
  LET from[i \in 1..(Len(p) + 1)] ==
        CASE i > Len(p) -> << >>
          [] i <= Len(p) /\ p[i] = "[" /\ ClassEnd(p, i + 1) # 0 ->
               LET class == SubSeq(p, i + 1, ClassEnd(p, i + 1) - 1) IN
               <<{c \in ToSet(Alphabet) : pm_list(class, c)}>>
                 \o from[ClassEnd(p, i + 1) + 1]
          [] i < Len(p) /\ p[i] = "\\" -> <<{p[i + 1]}>> \o from[i + 2]
          [] OTHER ->
               <<CASE p[i] = "?" -> ToSet(Alphabet)
                   [] p[i] = "*" -> AnyText
                   [] p[i] = "/" -> {"/", NUL}
                   [] OTHER -> {p[i]}>> \o from[i + 1]
  IN from[1]

\* The name's text from one place to another is divided among the items.  A
\* slash may stand for the end of the name, so "a/*" is "a" too.
Divides(items, name, from, to) ==
  \E cut \in [0..Len(items) -> from..to] :
    /\ cut[0] = from /\ cut[Len(items)] = to
    /\ \A i \in DOMAIN items :
         /\ cut[i - 1] <= cut[i]
         /\ \/ items[i] = AnyText
            \/ cut[i] = cut[i - 1] + 1 /\ CharAt(name, cut[i]) \in items[i]

\* A pattern is found between the borders of elements of the name: at its start
\* only, if it is an inclusion or says so, and at its end only, if it says so.
RefMatch(given, name, anchored) ==
  LET text == IF given # << >> /\ given[Len(given)] = "/" THEN Front(given) ELSE given
      start == text # << >> /\ text[1] = "^"
      end == text # << >> /\ text[Len(text)] = "$"
      items == Items(SubSeq(text, IF start THEN 2 ELSE 1,
                            IF end THEN Len(text) - 1 ELSE Len(text)))
      Starts == {k \in 0..Len(name) :
                   \/ k = 0 /\ (anchored \/ start \/ name[1] # "/" \/ items[1] = {"/", NUL})
                   \/ k > 0 /\ name[k] = "/" /\ ~anchored /\ ~start
                            /\ items[1] # {"/", NUL}}
      Ends == {k \in 0..(Len(name) + 1) :
                 \/ k >= Len(name)
                 \/ ~end /\ name[k + 1] = "/"}
  IN text # << >> /\ \E from \in Starts, to \in Ends : Divides(items, name, from, to)

\* The texts between separators that are not empty, as they end one after another.
IsSeparator(text, i) == text[i] \in {NL, ZERO}
TextUpTo(text, i) ==
  SubSeq(text, Max({0} \cup {k \in 1..i : IsSeparator(text, k)}) + 1, i)
LineEnds(text, i) ==
  /\ i > 0 /\ ~IsSeparator(text, i)
  /\ i = Len(text) \/ IsSeparator(text, i + 1)

WithLineTo(i, before, text) ==
  IF LineEnds(text, i) THEN Append(before, TextUpTo(text, i)) ELSE before

RefLines(text) ==
  LET upTo[i \in 0..Len(text)] ==
        IF i = 0 THEN << >> ELSE WithLineTo(i, upTo[i - 1], text)
  IN upTo[Len(text)]

\* The patterns there can be, and what the matcher should say of them as long as
\* it does not count on what is behind the end of a name.
Given == Patterns \cup Companions \cup UNION {ToSet(RefLines(text)) : text \in Files}
MatchesAsMeant ==
  \A given \in Given, name \in Names, anchored \in BOOLEAN :
    LET flags == {NO_ANCHOR_END} \cup (IF anchored THEN {} ELSE {NO_ANCHOR_START}) IN
    lafe_pathmatch(Stripped(given), name, flags, FALSE) <=> RefMatch(given, name, anchored)

RefExcluded(name) ==
  \/ \E i \in DOMAIN exclusions : RefMatch(exclusions[i].given, name, FALSE)
  \/ /\ inclusions # << >>
     /\ \A i \in DOMAIN inclusions : ~RefMatch(inclusions[i].given, name, TRUE)

\* A name is left out if an exclusion matches it or, where there are inclusions,
\* none does: whatever was asked before, in whichever order the patterns were
\* given and whichever way the matcher tried them.
Decided ==
  [][asked' # {} /\ answer' # answer /\ ~overrun' =>
       answer'.excluded = RefExcluded(answer'.name)]_vars

\* Inclusions are counted as unmatched until a name they match is asked about,
\* excluded or not, and only once.
UnmatchedCounted ==
  ~overrun =>
    inclusions_unmatched_count =
      Cardinality({i \in DOMAIN inclusions :
        \A name \in inclusions[i].asked : ~RefMatch(inclusions[i].given, name, TRUE)})

\* A file that was read to its end gave its lines, each once and whole, however
\* they fall on the fillings of the buffer.
LinesRead == Idle => lines = RefLines(file)

\* Reading ends, however long the lines are.
ReadingEnds == ~Idle ~> Idle
=============================================================================
