------------------------------- MODULE Names -------------------------------
(***************************************************************************)
(* From the names a caller gives archive_as() to the name fields of a      *)
(* header: path_clean(), the path and the member name of each entry        *)
(* b_find() meets on its way down, and path_split(), which divides a name  *)
(* between the prefix and the suffix field; and the encoding of a size.    *)
(*                                                                         *)
(* A string is the sequence of what is between its slashes: "/a/" is       *)
(* <<Empty, a, Empty>>, and "/" is <<Empty, Empty>>.  A component is an id  *)
(* and a length.  Traversal says which entries are met; here the walk only *)
(* goes down, for a name depends on nothing but the directories above.     *)
(***************************************************************************)
EXTENDS Integers, SequencesExt

CONSTANTS
  Letters,     \* what ids are made of
  SuffixSize,  \* B_HEADER_SUFFIX_SIZE
  PrefixSize,  \* B_HEADER_PREFIX_SIZE
  SizeDigits,  \* octal digits of the size field: B_HEADER_SIZE_SIZE - 1
  MaxFileSize, \* B_HEADER_MAX_FILE_SIZE, from which sizes are in base 256
  Sizes,       \* sizes of files
  Given,       \* pairs of strings given to archive_as(): path, member name
  Entries,     \* names of directory entries: components
  MaxDepth     \* bound: levels below the argument

VARIABLES
  given,       \* the pair at hand
  below,       \* the entries descended through, the argument's being none
  dir,         \* st says that it is a directory
  pc,
  clean_path, clean_member_name,
  current,     \* path of the entry: item->path
  member_name, \* what write_file() is given
  parts, prefix_items, suffix_items,   \* stacks, the last pushed being last
  prefix_size, suffix_size, add_to_prefix,
  data,        \* what path_split() returns: prefix, suffix, truncated
  size,        \* st_size
  size_field   \* the size as encoded in the header

entry == <<given, below, dir, clean_path, clean_member_name, current,
           member_name>>
number == <<size, size_field>>
split == <<parts, prefix_items, suffix_items, prefix_size, suffix_size,
           add_to_prefix>>
vars  == <<given, below, dir, pc, clean_path, clean_member_name, current,
           member_name, parts, prefix_items, suffix_items, prefix_size,
           suffix_size, add_to_prefix, data, size, size_field>>

Empty == [id |-> <<>>, len |-> 0]
Dot   == [id |-> <<"dot">>, len |-> 1]
Slash == [id |-> <<"slash">>, len |-> 1]   \* an item of a stack, not a component

\* Nothing but the empty one has no length, and none holds a slash.
Components == {c \in [id : Seq(Letters), len : Nat] :
                 (c.len = 0 <=> c.id = <<>>) /\ c # Slash}
Strings == Seq(Components) \ {<<>>}

\* The entries of a directory are neither nameless nor the directory itself.
ASSUME NamesAssumption ==
  /\ {"dot", "slash"} \subseteq Letters
  /\ SuffixSize \in Nat \ {0} /\ PrefixSize \in Nat
  /\ SizeDigits \in Nat /\ MaxFileSize \in Nat /\ MaxFileSize = 8^SizeDigits
  /\ Sizes \subseteq Nat
  /\ Given \subseteq Strings \X Strings
  /\ Entries \subseteq Components \ {Empty, Dot}

Root     == <<Empty, Empty>>
Nothing  == [prefix |-> <<Empty>>, suffix |-> <<Empty>>, truncated |-> FALSE]

\* What is left of a string without some components.
Without(s, dropped) ==
  LET kept[i \in 0..Len(s)] ==
        IF i = 0 THEN <<>>
        ELSE IF s[i] \in dropped THEN kept[i - 1] ELSE Append(kept[i - 1], s[i])
  IN  kept[Len(s)]

\* What a name means: its components, without empty ones and ".".
Meaning(s) == Without(s, {Empty, Dot})

\* The root and the working directory are directories.
Init ==
  /\ given \in Given /\ below = <<>>
  /\ dir \in BOOLEAN /\ (Meaning(given[1]) = <<>> => dir)
  /\ pc = "find"
  /\ clean_path = <<Empty>> /\ clean_member_name = <<Empty>>
  /\ current = <<Empty>> /\ member_name = <<Empty>>
  /\ parts = <<>> /\ prefix_items = <<>> /\ suffix_items = <<>>
  /\ prefix_size = 0 /\ suffix_size = 0 /\ add_to_prefix = FALSE
  /\ data = Nothing /\ size = 0 /\ size_field = 0

-----------------------------------------------------------------------------
\* b_path_new(): strtok_r() drops what is empty, and a "." that is not first is
\* dropped too; an absolute path begins with an empty item, or is all slashes.
path_new(s) ==
  LET items    == Without(s, {Empty})
      absolute == Len(s) > 1 /\ s[1] = Empty
      leading  == IF absolute THEN <<Empty>> ELSE <<>>
  IN  IF items = <<>>
        THEN IF absolute THEN <<Slash>> ELSE <<>>
        ELSE leading \o <<Head(items)>> \o Without(Tail(items), {Dot})

\* b_string_join() with slashes.
join(items) ==
  CASE items = <<>>      -> <<Empty>>
    [] items = <<Slash>> -> Root
    [] OTHER             -> items

path_clean(s) == join(path_new(s))

\* The path of an entry of a directory, by b_dir_read().
dir_read(path, name) ==
  IF path = Root THEN <<Empty, name>> ELSE Append(path, name)

\* Two components with no slash between them.
Glued(c, d) == [id |-> c.id \o d.id, len |-> c.len + d.len]

\* Mutant: the path of the entry is not replaced.
subst_nothing(path, member, item) == item

\* subst_member_name(): the first strlen(path) characters of the entry's path
\* give way to the member name.  After "/" no slash is left to follow it.
subst_member_name(path, member, item) ==
  CASE path = member -> item
    [] path # member /\ path # Root ->
         member \o SubSeq(item, Len(path) + 1, Len(item))
    [] OTHER ->
         Front(member) \o <<Glued(Last(member), item[2])>>
         \o SubSeq(item, 3, Len(item))

-----------------------------------------------------------------------------
\* b_find() cleans both names and hands the argument itself to write_file().
FindArgument ==
  /\ pc = "find"
  /\ clean_path' = path_clean(given[1])
  /\ clean_member_name' = path_clean(given[2])
  /\ current' = clean_path' /\ member_name' = clean_member_name'
  /\ pc' = "split"
  /\ UNCHANGED <<given, below, dir, split, data, number>>

\* The next entry is one in the directory that was archived last.
ReadEntry(name) ==
  /\ pc = "header" /\ dir /\ Len(below) < MaxDepth
  /\ below' = Append(below, name)
  /\ current' = dir_read(current, name)
  /\ member_name' = subst_member_name(clean_path, clean_member_name, current')
  /\ dir' \in BOOLEAN
  /\ pc' = "split"
  /\ UNCHANGED <<given, clean_path, clean_member_name, split, data, number>>

-----------------------------------------------------------------------------
\* path_split() up to its loop: an absolute name loses its leading slash.
SplitBegin ==
  LET items == path_new(member_name) IN
  /\ pc = "split" /\ items # <<>>
  /\ parts' = IF Head(items).len = 0 THEN Tail(items) ELSE items
  /\ prefix_items' = <<>> /\ suffix_items' = <<>>
  /\ prefix_size' = 0 /\ suffix_size' = 0 /\ add_to_prefix' = FALSE
  /\ pc' = "pop"
  /\ UNCHANGED <<entry, data, number>>

\* An empty name has no header.
SplitEmpty ==
  /\ pc = "split" /\ path_new(member_name) = <<>>
  /\ pc' = "refused"
  /\ UNCHANGED <<entry, split, data, number>>

\* Mutant: the separator is forgotten.
OverflowsBarely(item) ==
  \/ suffix_size # 0 /\ suffix_size + item.len > SuffixSize
  \/ dir /\ suffix_size + item.len + 1 >= SuffixSize

\* The item no longer fits the suffix, with a separator or a directory's slash.
Overflows(item) ==
  \/ suffix_size # 0 /\ suffix_size + item.len >= SuffixSize
  \/ dir /\ suffix_size + item.len + 1 >= SuffixSize

\* The length of a string to which an item is joined.
Joined(length, item) == (IF length # 0 THEN length + 1 ELSE 0) + item.len

\* Once one item went to the prefix, all before it do.
PopItem ==
  LET item == Last(parts) IN
  /\ pc = "pop" /\ parts # <<>>
  /\ parts' = Front(parts)
  /\ add_to_prefix' = (add_to_prefix \/ Overflows(item))
  /\ IF add_to_prefix'
       THEN /\ prefix_items' = Append(prefix_items, item)
            /\ prefix_size' = Joined(prefix_size, item)
            /\ UNCHANGED <<suffix_items, suffix_size>>
       ELSE /\ suffix_items' = Append(suffix_items, item)
            /\ suffix_size' = Joined(suffix_size, item)
            /\ UNCHANGED <<prefix_items, prefix_size>>
  /\ UNCHANGED <<entry, pc, data, number>>

\* The strings are joined, and a directory gets its slash.
Assemble ==
  LET length == suffix_size + (IF dir THEN 1 ELSE 0) IN
  /\ pc = "pop" /\ parts = <<>>
  /\ prefix_items' = Reverse(prefix_items)
  /\ suffix_items' = Reverse(suffix_items)
  /\ suffix_size' = length
  /\ data' = [prefix    |-> join(prefix_items'),
              suffix    |-> join(suffix_items') \o
                              (IF dir THEN <<Empty>> ELSE <<>>),
              truncated |-> length > SuffixSize \/ prefix_size > PrefixSize]
  /\ pc' = "encode"
  /\ UNCHANGED <<entry, parts, prefix_size, add_to_prefix, number>>

-----------------------------------------------------------------------------
\* snprintf() into a field with room for so many octal digits: those that come
\* first are kept.
Octal(digits, n) ==
  LET dropped == CHOOSE d \in 1..n : /\ n \div 8^d < 8^digits
                                    /\ \A e \in 1..(d - 1) : n \div 8^e >= 8^digits
  IN  [base |-> 8, value |-> IF n < 8^digits THEN n ELSE n \div 8^dropped]

\* Mutant: the first size that has too many digits is thought to have not.
EncodedSizeLate(n) ==
  IF n > MaxFileSize THEN [base |-> 256, value |-> n] ELSE Octal(SizeDigits, n)
EncodedSize(n) ==
  IF n >= MaxFileSize THEN [base |-> 256, value |-> n] ELSE Octal(SizeDigits, n)

\* b_header_encode_block(): only regular files have a size.
Encode ==
  /\ pc = "encode"
  /\ size' \in (IF dir THEN {0} ELSE Sizes)
  /\ size_field' = EncodedSize(size')
  /\ pc' = "header"
  /\ UNCHANGED <<entry, split, data>>

Next ==
  \/ FindArgument \/ (\E name \in Entries : ReadEntry(name))
  \/ SplitBegin \/ SplitEmpty \/ PopItem \/ Assemble \/ Encode

Spec == Init /\ [][Next]_vars
-----------------------------------------------------------------------------
\* strlen() of a string.
Length(s) ==
  LET sum[i \in 0..Len(s)] == IF i = 0 THEN 0 ELSE sum[i - 1] + s[i].len
  IN  Len(s) - 1 + sum[Len(s)]

\* What a reader makes of the header: the long name that goes before it if the
\* fields are truncated, or the prefix, a slash and the suffix.
NameRead ==
  IF data.truncated
    THEN member_name \o (IF dir THEN <<Empty>> ELSE <<>>)
    ELSE (IF data.prefix = <<Empty>> THEN <<>> ELSE data.prefix) \o data.suffix

\* A reader finds the entry under the name the caller wished for its argument,
\* and a directory's name, but no other's, ends in a slash.
NamedAsWished ==
  pc = "header" =>
    /\ Meaning(NameRead) = Meaning(given[2]) \o below
    /\ Meaning(NameRead) # <<>> => (dir <=> Last(NameRead) = Empty)

\* Fields hold what was put into them: the parts of a name that is not said to be
\* truncated, and the size of a file, on either side of where the encoding changes.
FieldsFit ==
  pc = "header" =>
    /\ ~data.truncated => /\ Length(data.prefix) <= PrefixSize
                          /\ Length(data.suffix) <= SuffixSize
    /\ size_field.value = size

\* A name is truncated, and thus refused without extensions, only if it has no
\* slash to be split at such that both parts fit.  The code asks for one byte
\* more where the suffix is the last name of a directory.
SplitFits(items, i) ==
  LET suffix == SubSeq(items, i + 1, Len(items))
      room   == IF dir THEN IF Len(suffix) = 1 THEN 2 ELSE 1 ELSE 0
  IN  /\ Length(suffix) + room <= SuffixSize
      /\ i # 0 => Length(SubSeq(items, 1, i)) <= PrefixSize
TruncatedOnlyWhenMust ==
  pc = "header" /\ data.truncated =>
    LET items == Without(member_name, {Empty}) IN
    \A i \in 0..(Len(items) - 1) : ~SplitFits(items, i)
=============================================================================
