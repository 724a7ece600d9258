--------------------------- MODULE TraversalProofs ---------------------------
(***************************************************************************)
(* What archive_as() keeps of its walk, for every file system, whatever the *)
(* other processes do to it, however many descriptors are in use.           *)
(***************************************************************************)
EXTENDS Traversal, SequenceTheorems, WellFoundedInduction, TLAPS

Frames  == [path : Nodes, unread : SUBSET Nodes, handle : Descriptors]
Members == [path : Nodes, kind : Kinds, body : BOOLEAN]

OfArgument == {"open_argument", "write_argument"}
OfEntry    == {"open", "lstat", "write"}

TypeOK ==
  /\ flags \in Flags /\ before \in Inherited
  /\ kind \in [Nodes -> Kinds]
  /\ arg \in Nat \ {0}
  /\ pc \in {"argument", "open_directory", "read", "done"}
              \cup OfArgument \cup OfEntry
  /\ dirs \in Seq(Frames)
  /\ item \in Nodes \cup {"none"} /\ st \in Kinds \cup {"none"}
  /\ fd \in Nat /\ item_fd \in Nat \cup {-1}
  /\ open_fds \subseteq Descriptors
  /\ members \in Seq(Members)
  /\ changed \subseteq Replacements
  /\ warned \subseteq Nodes /\ lost \subseteq Nodes /\ died \in BOOLEAN

\* Where archive_as() is, and what goes with it: there is an argument unless it
\* is done, a directory being read within a walk, and an entry to deal with.
PlaceInv ==
  /\ pc # "done" => arg \in DOMAIN Arguments
  /\ pc \in {"argument", "done"} \cup OfArgument => dirs = <<>>
  /\ pc \in {"read"} \cup OfEntry => dirs # <<>>
  /\ pc \in {"open_directory"} \cup OfArgument \cup OfEntry => item \in Nodes
  /\ pc \in OfArgument => item = Arguments[arg]
  /\ pc \in {"open_argument", "write_argument", "write"} => st \in Kinds
  /\ pc = "lstat" => "follow" \notin flags
  /\ pc # "write_argument" => fd = 0
  /\ pc # "done" => ~died
  /\ pc = "done" => died \/ arg > Len(Arguments)

\* What is unread of a directory is in it.
EntriesInv ==
  \A i \in DOMAIN dirs : \A n \in dirs[i].unread : Parent[n] = dirs[i].path

-----------------------------------------------------------------------------
\* No argument is given twice.
DistinctArguments ==
  \A i, j \in DOMAIN Arguments : Arguments[i] = Arguments[j] => i = j

\* Other processes make no directory of anything else.
NewDirectories ==
  \A r \in Replacements :
    /\ r[3] = "dir" => Kind[r[1]] = "dir"
    /\ r[3] = "link" /\ Behind[r[1]] = "dir" => Kind[r[1]] \in {"dir", "link"}

-----------------------------------------------------------------------------
\* The descriptors in use are those from before and those the walk accounts for,
\* each once.
Held == {f \in {fd, item_fd} : f > 0}
FdInv ==
  /\ 0 \in before
  /\ open_fds = before \cup Handles \cup Held
  /\ before \cap (Handles \cup Held) = {} /\ Handles \cap Held = {}
  /\ \A i, j \in DOMAIN dirs : dirs[i].handle = dirs[j].handle => i = j
  /\ pc \notin {"lstat", "write", "open_directory"} => item_fd = 0
  /\ pc = "lstat" => item_fd = -1

\* What is not as it was at first was changed by another process.
ChangedInv ==
  \A n \in Nodes : kind[n] # Kind[n] => \E r \in changed : r[1] = n

\* A regular file about to be archived is open, or was made one where there was a
\* symbolic link before.
Made(rs, n, k) == \E r \in rs : r[1] = n /\ r[3] = k
SizeInv ==
  /\ pc = "write_argument" /\ st = "file" => fd > 0
  /\ pc = "write" /\ st = "file" =>
       item_fd > 0 \/ ("follow" \notin flags /\ Made(changed, item, "file"))
  /\ pc = "open_argument" => st = "file"
  /\ pc = "lstat" => kind[item] = "link" \/ Made(changed, item, kind[item])

\* Nothing that is still to be dealt with is archived already, or is to be dealt
\* with twice; the directory of an entry is.
Rest == {i \in DOMAIN Arguments :
           i >= IF pc \in {"argument", "done"} THEN arg ELSE arg + 1}
TreeInv ==
  /\ \A n \in Archived : Parent[n] # "none" => Parent[n] \in Archived
  /\ \A i \in DOMAIN dirs :
       /\ dirs[i].path \in Archived
       /\ \A j \in DOMAIN dirs : dirs[i].path = dirs[j].path => i = j
       /\ \A n \in dirs[i].unread : Parent[n] = dirs[i].path /\ n \notin Archived
  /\ pc \in OfArgument \cup OfEntry => item \notin Archived
  /\ pc \in OfEntry => Parent[item] \in Archived /\
       \A i \in DOMAIN dirs : item \notin dirs[i].unread
  /\ pc = "open_directory" =>
       /\ item \in Archived /\ \A n \in Archived : Parent[n] # item
       /\ \A i \in DOMAIN dirs : dirs[i].path # item
  /\ \A i \in Rest : Arguments[i] \notin Archived

\* Only what was asked for is looked at, and only directories are entered.
AskedInv ==
  /\ \A n \in Nodes :
       kind[n] = "dir" \/ ("follow" \in flags /\ Resolved(n) = "dir")
         => IsDirectory(n)
  /\ pc \in {"open_directory"} \cup OfArgument \cup OfEntry => item \in Asked
  /\ pc = "open_directory" => IsDirectory(item)
  /\ pc \in {"open_argument", "write_argument", "write"} /\ st = "dir"
       => IsDirectory(item)
  /\ \A i \in DOMAIN dirs : dirs[i].path \in Asked /\ IsDirectory(dirs[i].path)

\* All that was asked for is archived, reported, of no interest, lost or replaced,
\* or is yet to be come to, from something the walk has still to deal with.
Changed(n) == \E r \in changed : r[1] \in {n} \cup Above[n]
Settled(n) ==
  \/ n \in Archived
  \/ ({n} \cup Above[n]) \cap (warned \cup lost) # {}
  \/ "sockets" \in flags /\ Kind[n] = "socket"
  \/ Changed(n)

Unread == UNION {dirs[i].unread : i \in DOMAIN dirs}
Todo ==
  {Arguments[i] : i \in Rest} \cup Unread
  \cup (IF pc \in OfArgument \cup OfEntry THEN {item} ELSE {})
ToCome(n) ==
  \/ ({n} \cup Above[n]) \cap Todo # {}
  \/ pc = "open_directory" /\ item \in Above[n]

ProgressInv == ~died => \A n \in Asked : Settled(n) \/ ToCome(n)

\* What holds something asked for was seen to be a directory.
SeenInv ==
  pc \in {"open_argument", "write_argument", "write"} =>
    \A n \in Asked : item \in Above[n] => st = "dir" \/ Changed(n)

-----------------------------------------------------------------------------
\* What is above a path.
LEMMA AboveTop ==
  ASSUME NEW n \in Nodes, Parent[n] = "none"
  PROVE  Above[n] = {}
PROOF
<1>1. HasParent({}, n) /\ \A x \in {} : HasParent({}, x)
  BY DEF HasParent
<1>2. \A a \in Above[n] : a \in {}
  BY <1>1 DEF Above
<1>3. QED
  BY <1>2

LEMMA AboveIn ==
  ASSUME NEW n \in Nodes, NEW p \in Nodes, Parent[n] = p
  PROVE  Above[n] = {p} \cup Above[p]
PROOF
<1> DEFINE S == {p} \cup Above[p]
<1>1. p # "none"
  BY TraversalAssumption
<1>2. S \subseteq Nodes
  BY DEF Above
<1>3. HasParent(S, p)
  BY TraversalAssumption DEF HasParent, Above
<1>4. \A x \in Above[p] : HasParent(S, x)
  BY TraversalAssumption DEF HasParent, Above
<1>5. HasParent(S, n)
  BY DEF HasParent
<1>6. Above[n] \subseteq S
  BY <1>2, <1>3, <1>4, <1>5 DEF Above
<1>7. p \in Above[n]
  BY <1>1 DEF Above, HasParent
<1>8. ASSUME NEW a \in Above[p] PROVE a \in Above[n]
  <2>1. a \in Nodes
    BY DEF Above
  <2>2. SUFFICES ASSUME NEW T \in SUBSET Nodes, HasParent(T, n),
                        \A x \in T : HasParent(T, x)
                 PROVE  a \in T
    BY <2>1 DEF Above
  <2>3. p \in T
    BY <1>1, <2>2 DEF HasParent
  <2>4. QED
    BY <2>2, <2>3 DEF Above
<1>9. QED
  BY <1>6, <1>7, <1>8

LEMMA AboveNodes ==
  ASSUME NEW n \in Nodes
  PROVE  Above[n] \subseteq Nodes
BY DEF Above

LEMMA AboveAbove ==
  ASSUME NEW n \in Nodes, NEW a \in Above[n]
  PROVE  Above[a] \subseteq Above[n]
PROOF
<1>1. a \in Nodes
  BY AboveNodes
<1>2. SUFFICES ASSUME NEW b \in Above[a], NEW T \in SUBSET Nodes,
                      HasParent(T, n), \A x \in T : HasParent(T, x)
               PROVE  b \in T
  BY <1>1, AboveNodes DEF Above
<1>3. a \in T
  BY <1>2 DEF Above
<1>4. HasParent(T, a)
  BY <1>2, <1>3
<1>5. QED
  BY <1>1, <1>2, <1>4 DEF Above

\* The way down from a directory to what is below it goes by an entry of its.
LEMMA WayDown ==
  ASSUME NEW n \in Nodes, NEW a \in Above[n]
  PROVE  \E c \in {n} \cup Above[n] : Parent[c] = a
PROOF
<1> DEFINE S == {x \in Above[n] : \E c \in {n} \cup Above[n] : Parent[c] = x}
<1>1. S \subseteq Nodes
  BY AboveNodes
<1>2. ASSUME NEW x \in {n} \cup Above[n]
      PROVE  HasParent(S, x)
  <2>1. CASE Parent[x] = "none"
    BY <2>1 DEF HasParent
  <2>2. CASE Parent[x] # "none"
    <3>1. x \in Nodes /\ Parent[x] \in Nodes
      BY <2>2, AboveNodes, TraversalAssumption
    <3>2. Parent[x] \in Above[x]
      BY <3>1, AboveIn
    <3>3. Above[x] \subseteq Above[n]
      BY AboveAbove
    <3>4. QED
      BY <3>2, <3>3 DEF HasParent
  <2>3. QED
    BY <2>1, <2>2
<1>3. HasParent(S, n) /\ \A x \in S : HasParent(S, x)
  BY <1>2
<1>4. a \in S
  BY <1>1, <1>3 DEF Above
<1>5. QED
  BY <1>4

-----------------------------------------------------------------------------
\* The number open() and opendir() return is one that was not in use.
LEMMA LowestIsFree ==
  ASSUME Free # {}
  PROVE  Lowest \in Descriptors \ open_fds
PROOF
<1>1. Free \subseteq Nat
  BY TraversalAssumption DEF Free
<1>2. PICK x \in Free : \A y \in Free : ~(<<y, x>> \in OpToRel(<, Nat))
  BY <1>1, NatLessThanWellFounded, WFMin
<1>3. \A y \in Free : ~(y < x)
  BY <1>1, <1>2 DEF OpToRel
<1>4. \A y \in Free : x <= y
  BY <1>1, <1>3
<1>5. Lowest \in Free
  BY <1>4 DEF Lowest
<1>6. QED
  BY <1>5 DEF Free

-----------------------------------------------------------------------------
\* The stack of directories after each of the steps that touch it.
LEMMA Pushed ==
  ASSUME dirs \in Seq(Frames), NEW d \in Frames, dirs' = Append(dirs, d)
  PROVE  /\ dirs' \in Seq(Frames) /\ dirs' # <<>>
         /\ DOMAIN dirs' = 1..(Len(dirs) + 1) /\ DOMAIN dirs = 1..Len(dirs)
         /\ Len(dirs) \in Nat
         /\ \A i \in DOMAIN dirs : dirs'[i] = dirs[i]
         /\ dirs'[Len(dirs) + 1] = d
OBVIOUS

LEMMA Popped ==
  ASSUME dirs \in Seq(Frames), dirs # <<>>, Len(dirs) # 1, dirs' = Front(dirs)
  PROVE  /\ dirs' \in Seq(Frames) /\ dirs' # <<>>
         /\ DOMAIN dirs' = 1..(Len(dirs) - 1) /\ DOMAIN dirs = 1..Len(dirs)
         /\ Len(dirs) \in Nat
         /\ \A i \in DOMAIN dirs' : i \in DOMAIN dirs /\ dirs'[i] = dirs[i]
PROOF
<1>1. Len(dirs) \in Nat /\ Len(dirs) > 1 /\ DOMAIN dirs = 1..Len(dirs)
  OBVIOUS
<1>2. dirs' = [i \in 1..(Len(dirs) - 1) |-> dirs[i]]
  BY <1>1 DEF Front
<1>3. \A i \in 1..(Len(dirs) - 1) : i \in DOMAIN dirs /\ dirs[i] \in Frames
  BY <1>1
<1>4. dirs' \in Seq(Frames) /\ DOMAIN dirs' = 1..(Len(dirs) - 1)
  BY <1>1, <1>2, <1>3
<1>5. 1 \in DOMAIN dirs'
  BY <1>1, <1>4
<1>6. dirs' # <<>>
  BY <1>5
<1>7. \A i \in DOMAIN dirs' : i \in DOMAIN dirs /\ dirs'[i] = dirs[i]
  BY <1>1, <1>2, <1>4
<1>8. QED
  BY <1>1, <1>4, <1>6, <1>7

LEMMA Top ==
  ASSUME dirs \in Seq(Frames), dirs # <<>>
  PROVE  /\ Len(dirs) \in DOMAIN dirs /\ DOMAIN dirs = 1..Len(dirs)
         /\ Last(dirs) = dirs[Len(dirs)] /\ Last(dirs) \in Frames
BY DEF Last

LEMMA EntryTaken ==
  ASSUME dirs \in Seq(Frames), dirs # <<>>, NEW n,
         dirs' = [dirs EXCEPT ![Len(dirs)].unread = @ \ {n}]
  PROVE  /\ dirs' \in Seq(Frames) /\ dirs' # <<>> /\ DOMAIN dirs' = DOMAIN dirs
         /\ \A i \in DOMAIN dirs :
              /\ dirs'[i].path = dirs[i].path /\ dirs'[i].handle = dirs[i].handle
              /\ dirs'[i].unread \subseteq dirs[i].unread
              /\ i # Len(dirs) => dirs'[i].unread = dirs[i].unread
         /\ dirs'[Len(dirs)].unread = Last(dirs).unread \ {n}
PROOF
<1>1. Len(dirs) \in DOMAIN dirs /\ Last(dirs) = dirs[Len(dirs)]
  BY Top
<1>2. [dirs[Len(dirs)] EXCEPT !.unread = @ \ {n}] \in Frames
  <2>1. dirs[Len(dirs)] \in Frames
    BY <1>1
  <2>2. QED
    BY <2>1 DEF Frames
<1>3. \A i \in DOMAIN dirs :
        dirs'[i] = IF i = Len(dirs) THEN [dirs[i] EXCEPT !.unread = @ \ {n}]
                                    ELSE dirs[i]
  OBVIOUS
<1>4. dirs' \in Seq(Frames) /\ dirs' # <<>> /\ DOMAIN dirs' = DOMAIN dirs
  BY <1>1, <1>2, <1>3
<1>5. \A i \in DOMAIN dirs : dirs[i] \in Frames
  OBVIOUS
<1>6. QED
  BY <1>1, <1>3, <1>4, <1>5 DEF Frames

-----------------------------------------------------------------------------
\* The steps of the walk keep the types, and end where the code goes on.
LEMMA InitType == Init => TypeOK /\ PlaceInv
PROOF
<1>1. SUFFICES ASSUME Init PROVE TypeOK /\ PlaceInv
  OBVIOUS
<1>2. dirs \in Seq(Frames) /\ members \in Seq(Members)
  BY <1>1 DEF Init
<1>3. open_fds \subseteq Descriptors /\ kind \in [Nodes -> Kinds]
  BY <1>1, TraversalAssumption DEF Init
<1>4. TypeOK
  <2>1. pc \in {"argument", "done"}
    BY <1>1 DEF Init
  <2>2. /\ warned \subseteq Nodes /\ lost \subseteq Nodes /\ died \in BOOLEAN
        /\ changed \subseteq Replacements
    BY <1>1, Zenon DEF Init
  <2>3. arg \in Nat \ {0}
    BY <1>1 DEF Init
  <2>4. QED
    BY <1>1, <1>2, <1>3, <2>1, <2>2, <2>3 DEF Init, TypeOK
<1>5. Arguments # <<>> => 1 \in DOMAIN Arguments
  BY TraversalAssumption
<1>6. Arguments = <<>> => 1 > Len(Arguments)
  OBVIOUS
<1>7. PlaceInv
  BY <1>1, <1>5, <1>6 DEF Init, PlaceInv, OfArgument, OfEntry
<1>8. QED
  BY <1>4, <1>7

LEMMA ArgumentNodes ==
  \A i \in DOMAIN Arguments : Arguments[i] \in Nodes /\ Parent[Arguments[i]] = "none"
BY TraversalAssumption

LEMMA LeaveType ==
  ASSUME TypeOK, PlaceInv, pc # "done", NEW b \in BOOLEAN, Leave(b)
  PROVE  /\ arg' \in Nat \ {0} /\ pc' \in {"argument", "done"}
         /\ pc' # "done" => arg' \in DOMAIN Arguments
         /\ dirs' = <<>> /\ dirs' \in Seq(Frames) /\ item' = "none"
         /\ st' = "none" /\ fd' = 0 /\ item_fd' = 0 /\ died' = b
PROOF
<1>1. arg \in Nat \ {0} /\ arg' = arg + 1
  BY DEF TypeOK, Leave
<1>2. DOMAIN Arguments = 1..Len(Arguments) /\ Len(Arguments) \in Nat
  BY TraversalAssumption
<1>3. arg \in 1..Len(Arguments)
  BY <1>2 DEF PlaceInv
<1>4. pc' # "done" => arg # Len(Arguments)
  BY DEF Leave
<1>5. pc' \in {"argument", "done"}
  BY DEF Leave
<1>6. arg # Len(Arguments) => arg' \in DOMAIN Arguments
  <2>1. arg \in Int /\ 1 <= arg /\ arg <= Len(Arguments)
    BY <1>2, <1>3
  <2>2. \A a, l \in Int : 1 <= a /\ a <= l /\ a # l => a + 1 \in 1..l
    OBVIOUS
  <2>3. Len(Arguments) \in Int
    BY <1>2
  <2>4. arg # Len(Arguments) => arg + 1 \in 1..Len(Arguments)
    BY <2>1, <2>2, <2>3
  <2>5. QED
    BY <1>1, <1>2, <2>4
<1>7. arg' \in Nat \ {0} /\ dirs' \in Seq(Frames)
  BY <1>1 DEF Leave
<1>8. QED
  BY <1>4, <1>5, <1>6, <1>7 DEF Leave

LEMMA SeenType ==
  ASSUME TypeOK, NEW n \in Nodes
  PROVE  Resolved(n) \in Kinds /\ Seen(n) \in Kinds /\ Itself(n) \in Kinds
BY TraversalAssumption DEF TypeOK, Seen, Target, Itself, Resolved, Kinds

LEMMA WithoutType ==
  ASSUME TypeOK, NEW f
  PROVE  Without(f) \subseteq Descriptors
BY DEF TypeOK, Without

LEMMA MemberType ==
  ASSUME NEW f \in Int, item \in Nodes, st \in Kinds, members \in Seq(Members), Archive(f)
  PROVE  members' \in Seq(Members)
PROOF
<1>1. (f > 0) \in BOOLEAN
  OBVIOUS
<1>2. [path |-> item, kind |-> st, body |-> f > 0] \in Members
  BY <1>1 DEF Members
<1>3. QED
  BY <1>2 DEF Archive

LEMMA Left ==
  ASSUME TypeOK, PlaceInv, pc # "done", NEW b \in BOOLEAN, Leave(b),
         UNCHANGED <<flags, before, kind, changed>>, members' \in Seq(Members),
         warned' \subseteq Nodes, lost' \subseteq Nodes, open_fds' \subseteq Descriptors
  PROVE  TypeOK' /\ PlaceInv'
PROOF
<1>1. died' \in BOOLEAN
  BY Zenon DEF Leave
<1>2. /\ arg' \in Nat \ {0} /\ pc' \in {"argument", "done"}
      /\ dirs' \in Seq(Frames) /\ item' = "none" /\ st' = "none"
      /\ fd' \in Nat /\ item_fd' \in Nat
  BY LeaveType
<1>3. /\ flags' \in Flags /\ before' \in Inherited /\ kind' \in [Nodes -> Kinds]
      /\ changed' \subseteq Replacements
  BY DEF TypeOK
<1>4. TypeOK'
  BY <1>1, <1>2, <1>3 DEF TypeOK
<1>5. (pc' # "done" => arg' \in DOMAIN Arguments) /\ dirs' = <<>> /\ fd' = 0
  BY LeaveType
<1>6. pc' # "done" => ~died'
  BY Zenon DEF Leave
<1>7. pc' = "done" => died' \/ arg' > Len(Arguments)
  <2>1. pc' = "done" => died' \/ arg = Len(Arguments)
    BY Zenon DEF Leave
  <2>2. arg = Len(Arguments) => arg' > Len(Arguments)
    BY DEF Leave, TypeOK
  <2>3. QED
    BY <2>1, <2>2
<1>8. PlaceInv'
  BY <1>2, <1>5, <1>6, <1>7 DEF PlaceInv, OfArgument, OfEntry
<1>9. QED
  BY <1>4, <1>8

LEMMA Aborted ==
  ASSUME TypeOK, PlaceInv, pc # "done", Abort, warned' \subseteq Nodes
  PROVE  TypeOK' /\ PlaceInv'
PROOF
<1>1. Leave(TRUE) /\ UNCHANGED <<flags, before, kind, changed>>
  BY DEF Abort, given
<1>2. /\ open_fds' \subseteq Descriptors /\ members' \in Seq(Members)
      /\ lost' \subseteq Nodes
  BY WithoutType DEF Abort, TypeOK
<1>3. QED
  BY <1>1, <1>2, Left

LEMMA TypeStep ==
  ASSUME TypeOK, PlaceInv, [Next]_vars
  PROVE  TypeOK' /\ PlaceInv'
PROOF
<1> USE DEF OfArgument, OfEntry
<1>1. CASE StatArgument
  <2>1. Arguments[arg] \in Nodes /\ arg \in DOMAIN Arguments
    BY <1>1, ArgumentNodes DEF StatArgument, PlaceInv
  <2>2. QED
    BY <1>1, <2>1, SeenType
       DEF StatArgument, TypeOK, PlaceInv, system, given, output
<1>2. CASE StatArgumentFails
  BY <1>2, Aborted DEF StatArgumentFails, TypeOK
<1>3. CASE OpenArgument
  <2>1. Lowest \in Descriptors /\ Descriptors \subseteq Nat
    BY <1>3, LowestIsFree, TraversalAssumption DEF OpenArgument
  <2>2. QED
    BY <1>3, <2>1 DEF OpenArgument, TypeOK, PlaceInv, given, output
<1>4. CASE OpenArgumentFails
  BY <1>4, Aborted DEF OpenArgumentFails, TypeOK
<1>5. CASE WriteArgument
  <2>1. members' \in Seq(Members)
    <3>1. item \in Nodes /\ st \in Kinds
      BY <1>5 DEF WriteArgument, PlaceInv
    <3>2. fd \in Int
      <4>1. fd \in Nat
        BY DEF TypeOK
      <4>2. QED
        BY <4>1
    <3>3. members \in Seq(Members)
      BY DEF TypeOK
    <3>4. Archive(fd)
      BY <1>5 DEF WriteArgument
    <3>5. QED
      BY <3>1, <3>2, <3>3, <3>4, MemberType
  <2>2. CASE st = "dir"
    <3>1. UNCHANGED <<flags, before, kind, changed, arg, dirs, item, st, item_fd,
                      died, warned, lost>>
      BY <1>5, <2>2 DEF WriteArgument, given
    <3>2. fd' = 0 /\ pc' = "open_directory" /\ pc = "write_argument"
      BY <1>5, <2>2 DEF WriteArgument
    <3>3. open_fds' \subseteq Descriptors
      BY <1>5, WithoutType DEF WriteArgument
    <3>4. QED
      BY <2>1, <3>1, <3>2, <3>3 DEF TypeOK, PlaceInv
  <2>3. CASE st # "dir"
    <3>1. Leave(FALSE)
      BY <1>5, <2>3 DEF WriteArgument
    <3>2. pc # "done" /\ UNCHANGED <<flags, before, kind, changed, warned, lost>>
      BY <1>5 DEF WriteArgument, given
    <3>3. /\ open_fds' \subseteq Descriptors /\ warned' \subseteq Nodes
          /\ lost' \subseteq Nodes
      BY <1>5, <3>2, WithoutType DEF WriteArgument, TypeOK
    <3>4. QED
      BY <2>1, <3>1, <3>2, <3>3, Left
  <2>4. QED
    BY <2>2, <2>3
<1>6. CASE WriteArgumentFails
  <2>1. /\ Leave(TRUE) /\ pc # "done"
        /\ UNCHANGED <<flags, before, kind, changed, members, lost>>
    BY <1>6 DEF WriteArgumentFails, given
  <2>2. open_fds' \subseteq Descriptors /\ warned' \subseteq Nodes
    BY <1>6, WithoutType DEF WriteArgumentFails, TypeOK, PlaceInv
  <2>3. members' \in Seq(Members) /\ lost' \subseteq Nodes
    BY <2>1 DEF TypeOK
  <2>4. QED
    BY <2>1, <2>2, <2>3, Left
<1>7. CASE OpenDirectory
  <2>1. Lowest \in Descriptors
    BY <1>7, LowestIsFree DEF OpenDirectory
  <2>2. [path |-> item, unread |-> Entries(item), handle |-> Lowest] \in Frames
    BY <1>7, <2>1 DEF OpenDirectory, PlaceInv, Frames, Entries
  <2>3. dirs' \in Seq(Frames) /\ dirs' # <<>>
    BY <1>7, <2>2, Pushed DEF OpenDirectory, TypeOK
  <2>4. QED
    BY <1>7, <2>1, <2>3, WithoutType
       DEF OpenDirectory, TypeOK, PlaceInv, given, output
<1>8. CASE OpenDirectoryFails
  <2>1. warned' \subseteq Nodes /\ UNCHANGED <<given, kind, changed, members, lost>>
    BY <1>8 DEF OpenDirectoryFails, TypeOK, PlaceInv
  <2>2. CASE Leave(TRUE) /\ open_fds' = Without(item_fd) \ Handles
    <3>1. open_fds' \subseteq Descriptors
      BY <2>2, WithoutType
    <3>2. /\ UNCHANGED <<flags, before, kind, changed>>
          /\ members' \in Seq(Members) /\ lost' \subseteq Nodes
      BY <2>1 DEF given, TypeOK
    <3>3. pc # "done"
      BY <1>8 DEF OpenDirectoryFails
    <3>4. QED
      BY <2>1, <2>2, <3>1, <3>2, <3>3, Left
  <2>3. CASE /\ dirs # <<>> /\ pc' = "read" /\ item_fd' = 0
             /\ open_fds' = Without(item_fd)
             /\ UNCHANGED <<arg, dirs, item, st, fd, died>>
    BY <1>8, <2>1, <2>3, WithoutType
       DEF OpenDirectoryFails, TypeOK, PlaceInv, given
  <2>4. QED
    BY <1>8, <2>2, <2>3 DEF OpenDirectoryFails
<1>9. ASSUME NEW n \in Nodes, ReadEntry(n)
      PROVE  TypeOK' /\ PlaceInv'
  <2>1. dirs' \in Seq(Frames) /\ dirs' # <<>>
    BY <1>9, EntryTaken DEF ReadEntry, TypeOK, PlaceInv
  <2>2. QED
    BY <1>9, <2>1 DEF ReadEntry, TypeOK, PlaceInv, system, given, output
<1>10. CASE EndOfDirectory \/ ReadFails
  <2>1. LeaveDirectory /\ pc = "read"
    BY <1>10 DEF EndOfDirectory, ReadFails
  <2>2. lost' \subseteq Nodes
    <3>1. Last(dirs).unread \subseteq Nodes
      BY <2>1, Top DEF TypeOK, PlaceInv, Frames
    <3>2. QED
      BY <1>10, <3>1 DEF EndOfDirectory, ReadFails, TypeOK
  <2>3. CASE Len(dirs) = 1
    <3>1. Leave(FALSE)
      BY <2>1, <2>3 DEF LeaveDirectory
    <3>2. pc # "done" /\ UNCHANGED <<flags, before, kind, changed, warned, members>>
      BY <2>1 DEF LeaveDirectory, given
    <3>3. open_fds' \subseteq Descriptors /\ warned' \subseteq Nodes
      BY <2>1, <3>2 DEF LeaveDirectory, TypeOK
    <3>4. members' \in Seq(Members)
      BY <3>2 DEF TypeOK
    <3>5. QED
      BY <2>2, <3>1, <3>2, <3>3, <3>4, Left
  <2>4. CASE Len(dirs) # 1
    <3>1. dirs' \in Seq(Frames) /\ dirs' # <<>>
      BY <2>1, <2>4, Popped DEF LeaveDirectory, TypeOK, PlaceInv
    <3>2. QED
      BY <2>1, <2>2, <2>4, <3>1 DEF LeaveDirectory, TypeOK, PlaceInv, given
  <2>5. QED
    BY <2>3, <2>4
<1>11. ASSUME Skip, UNCHANGED members \/ members' \in Seq(Members),
              warned' \subseteq Nodes, lost' \subseteq Nodes, pc \in OfEntry
       PROVE  TypeOK' /\ PlaceInv'
  BY <1>11, WithoutType DEF Skip, TypeOK, PlaceInv, given
<1>12. CASE OpenItem
  <2>1. CASE Skip
    BY <1>11, <1>12, <2>1 DEF OpenItem, TypeOK
  <2>2. CASE ~Skip
    <3>1. Lowest \in Descriptors /\ Lowest \in Nat
      BY <1>12, LowestIsFree, TraversalAssumption DEF OpenItem
    <3>2. Seen(item) \in Kinds
      BY <1>12, SeenType DEF OpenItem, PlaceInv
    <3>3. QED
      BY <1>12, <2>2, <3>1, <3>2 DEF OpenItem, TypeOK, PlaceInv, given
  <2>3. QED
    BY <2>1, <2>2
<1>13. CASE OpenLink
  BY <1>13 DEF OpenLink, TypeOK, PlaceInv, system, given, output
<1>14. CASE Lstat
  BY <1>14, SeenType DEF Lstat, TypeOK, PlaceInv, system, given, output
<1>15. CASE LstatFails
  BY <1>11, <1>15 DEF LstatFails, TypeOK, PlaceInv
<1>16. CASE OpenItemFails
  BY <1>11, <1>16 DEF OpenItemFails, TypeOK, PlaceInv
<1>17. CASE WriteItem
  <2>1. members' \in Seq(Members)
    <3>1. item \in Nodes /\ st \in Kinds
      BY <1>17 DEF WriteItem, PlaceInv
    <3>2. item_fd \in Int
      <4>1. item_fd \in Nat \cup {-1}
        BY DEF TypeOK
      <4>2. QED
        BY <4>1
    <3>3. members \in Seq(Members)
      BY DEF TypeOK
    <3>4. Archive(item_fd)
      BY <1>17 DEF WriteItem
    <3>5. QED
      BY <3>1, <3>2, <3>3, <3>4, MemberType
  <2>2. CASE st = "dir"
    BY <1>17, <2>1, <2>2
       DEF WriteItem, TypeOK, PlaceInv, system, given
  <2>3. CASE st # "dir"
    BY <1>11, <1>17, <2>1, <2>3 DEF WriteItem, TypeOK
  <2>4. QED
    BY <2>2, <2>3
<1>18. CASE WriteItemFails \/ WriteItemFlushFails
  BY <1>11, <1>18 DEF WriteItemFails, WriteItemFlushFails, TypeOK, PlaceInv
<1>19. CASE WriteItemFatal
  BY <1>19, Aborted DEF WriteItemFatal, TypeOK, PlaceInv
<1>20. ASSUME NEW r \in Replacements, Replace(r)
       PROVE  TypeOK' /\ PlaceInv'
  <2>1. kind' \in [Nodes -> Kinds] /\ changed' \subseteq Replacements
    BY <1>20, TraversalAssumption DEF Replace, TypeOK
  <2>2. QED
    BY <1>20, <2>1 DEF Replace, TypeOK, PlaceInv, given, output
<1>21. CASE UNCHANGED vars
  BY <1>21 DEF vars, TypeOK, PlaceInv
<1>22. QED
  BY <1>1, <1>2, <1>3, <1>4, <1>5, <1>6, <1>7, <1>8, <1>9, <1>10, <1>12, <1>13,
     <1>14, <1>15, <1>16, <1>17, <1>18, <1>19, <1>20, <1>21
     DEF Next, Step, Fault

-----------------------------------------------------------------------------
\* A descriptor open() or opendir() returns is none of those accounted for.
LEMMA LowestIsNew ==
  ASSUME TypeOK, FdInv, Free # {}
  PROVE  Lowest \in Nat /\ Lowest > 0 /\ Lowest \notin open_fds
PROOF
<1>1. Lowest \in Nat /\ Lowest \notin open_fds
  BY LowestIsFree, TraversalAssumption
<1>2. 0 \in open_fds
  BY DEF FdInv
<1>3. QED
  BY <1>1, <1>2

LEMMA HeldOne ==
  ASSUME TypeOK, PlaceInv, FdInv
  PROVE  /\ pc # "write_argument" => Held = IF item_fd > 0 THEN {item_fd} ELSE {}
         /\ pc = "write_argument" => Held = IF fd > 0 THEN {fd} ELSE {}
BY DEF TypeOK, PlaceInv, FdInv, Held

\* What the error paths and the skips close.
LEMMA Closed ==
  ASSUME TypeOK, PlaceInv, FdInv, pc # "write_argument"
  PROVE  /\ Without(item_fd) = before \cup Handles
         /\ Without(item_fd) \ Handles = before
PROOF
<1>1. CASE item_fd > 0
  <2>1. Held = {item_fd}
    BY <1>1, HeldOne
  <2>2. QED
    BY <1>1, <2>1 DEF FdInv, Without
<1>2. CASE ~(item_fd > 0)
  <2>1. Held = {}
    BY <1>2, HeldOne
  <2>2. QED
    BY <1>2, <2>1 DEF FdInv, Without
<1>3. QED
  BY <1>1, <1>2

LEMMA ClosedArgument ==
  ASSUME TypeOK, PlaceInv, FdInv, pc = "write_argument"
  PROVE  Without(fd) = before
PROOF
<1>1. Handles = {}
  <2>1. dirs = <<>>
    BY DEF PlaceInv, OfArgument
  <2>2. \A i : i \notin DOMAIN dirs
    BY <2>1
  <2>3. QED
    BY <2>2 DEF Handles
<1>2. Held = IF fd > 0 THEN {fd} ELSE {}
  BY HeldOne
<1>3. QED
  BY <1>1, <1>2 DEF FdInv, Without

LEMMA LeftFd ==
  ASSUME NEW b, Leave(b), FdInv, before' = before, open_fds' = before
  PROVE  FdInv'
PROOF
<1>1. /\ dirs' = <<>> /\ fd' = 0 /\ item_fd' = 0 /\ pc' \in {"argument", "done"}
  BY DEF Leave
<1>2. Handles' = {} /\ Held' = {} /\ DOMAIN dirs' = {}
  BY <1>1 DEF Handles, Held
<1>3. open_fds' = before' \cup Handles' \cup Held' /\ 0 \in before'
  BY <1>2 DEF FdInv
<1>4. before' \cap (Handles' \cup Held') = {} /\ Handles' \cap Held' = {}
  BY <1>2
<1>5. QED
  BY <1>1, <1>2, <1>3, <1>4 DEF FdInv

LEMMA AbortedFd ==
  ASSUME TypeOK, PlaceInv, FdInv, pc # "write_argument", Abort
  PROVE  FdInv'
BY Closed, LeftFd DEF Abort, given

\* Nothing is opened or closed.
LEMMA SameFd ==
  ASSUME FdInv, UNCHANGED <<before, open_fds, fd, item_fd, dirs>>,
         pc' \notin {"lstat", "write", "open_directory"} => item_fd = 0,
         pc' = "lstat" => item_fd = -1
  PROVE  FdInv'
BY DEF FdInv, Handles, Held

LEMMA SkippedFd ==
  ASSUME TypeOK, PlaceInv, FdInv, pc # "write_argument", Skip
  PROVE  FdInv'
PROOF
<1>1. /\ open_fds' = before \cup Handles /\ item_fd' = 0 /\ fd' = 0
      /\ UNCHANGED <<before, dirs>> /\ pc' = "read"
  BY Closed DEF Skip, given, PlaceInv
<1>2. Handles' = Handles /\ Held' = {}
  <2>1. Handles' = Handles
    BY <1>1 DEF Handles
  <2>2. \A f \in {fd', item_fd'} : ~(f > 0)
    BY <1>1
  <2>3. Held' = {}
    BY <2>2 DEF Held
  <2>4. QED
    BY <2>1, <2>3
<1>3. open_fds' = before' \cup Handles' \cup Held' /\ 0 \in before'
  BY <1>1, <1>2 DEF FdInv
<1>4. before' \cap (Handles' \cup Held') = {} /\ Handles' \cap Held' = {}
  BY <1>1, <1>2 DEF FdInv
<1>5. \A i, j \in DOMAIN dirs' : dirs'[i].handle = dirs'[j].handle => i = j
  BY <1>1 DEF FdInv
<1>6. QED
  BY <1>1, <1>3, <1>4, <1>5 DEF FdInv

LEMMA InitFd == 0 \in before /\ Init => FdInv
BY DEF Init, FdInv, Handles, Held

LEMMA FdStep ==
  ASSUME TypeOK, PlaceInv, FdInv, [Next]_vars
  PROVE  FdInv'
PROOF
<1>1. CASE StatArgument
  BY <1>1, SameFd DEF StatArgument, system, given, FdInv
<1>2. CASE StatArgumentFails
  BY <1>2, AbortedFd DEF StatArgumentFails
<1>3. CASE OpenArgument
  <2>1. Lowest \in Nat /\ Lowest > 0 /\ Lowest \notin open_fds
    BY <1>3, LowestIsNew DEF OpenArgument
  <2>2. dirs = <<>> /\ fd = 0 /\ item_fd = 0 /\ Held = {}
    BY <1>3 DEF OpenArgument, PlaceInv, OfArgument, FdInv, Held
  <2>3. Handles = {} /\ open_fds = before
    BY <2>2 DEF Handles, FdInv
  <2>4. Handles' = {} /\ Held' = {Lowest}
    <3>1. dirs' = <<>> /\ fd' = Lowest /\ item_fd' = 0
      BY <1>3, <2>2 DEF OpenArgument
    <3>2. QED
      BY <2>1, <3>1 DEF Handles, Held
  <2>5. open_fds' = before' \cup Handles' \cup Held' /\ before' = before
    BY <1>3, <2>3, <2>4 DEF OpenArgument, given
  <2>6. QED
    BY <1>3, <2>1, <2>2, <2>3, <2>4, <2>5 DEF OpenArgument, FdInv
<1>4. CASE OpenArgumentFails
  BY <1>4, AbortedFd DEF OpenArgumentFails
<1>5. CASE WriteArgument
  <2>1. before' = before /\ open_fds' = before
    BY <1>5, ClosedArgument DEF WriteArgument, given
  <2>2. CASE st = "dir"
    <3>1. dirs' = <<>> /\ fd' = 0 /\ item_fd' = 0 /\ pc' = "open_directory"
      BY <1>5, <2>2 DEF WriteArgument, PlaceInv, OfArgument, FdInv
    <3>2. Handles' = {} /\ Held' = {} /\ DOMAIN dirs' = {}
      BY <3>1 DEF Handles, Held
    <3>3. QED
      BY <2>1, <3>1, <3>2 DEF FdInv
  <2>3. CASE st # "dir"
    BY <1>5, <2>1, <2>3, LeftFd DEF WriteArgument
  <2>4. QED
    BY <2>2, <2>3
<1>6. CASE WriteArgumentFails
  BY <1>6, ClosedArgument, LeftFd DEF WriteArgumentFails, given
<1>7. CASE OpenDirectory
  <2>1. Lowest \in Nat /\ Lowest > 0 /\ Lowest \notin open_fds
    BY <1>7, LowestIsNew DEF OpenDirectory
  <2>2. /\ open_fds' = before \cup Handles \cup {Lowest} /\ before' = before
        /\ fd' = 0 /\ item_fd' = 0 /\ pc' = "read"
    BY <1>7, Closed DEF OpenDirectory, given, PlaceInv
  <2>3. [path |-> item, unread |-> Entries(item), handle |-> Lowest] \in Frames
    BY <1>7, LowestIsFree DEF OpenDirectory, PlaceInv, Frames, Entries
  <2>4. /\ DOMAIN dirs' = 1..(Len(dirs) + 1) /\ DOMAIN dirs = 1..Len(dirs)
        /\ Len(dirs) \in Nat /\ \A i \in DOMAIN dirs : dirs'[i] = dirs[i]
        /\ dirs'[Len(dirs) + 1].handle = Lowest
    BY <1>7, <2>3, Pushed DEF OpenDirectory, TypeOK
  <2>5. Handles' = Handles \cup {Lowest} /\ Held' = {}
    BY <2>2, <2>4 DEF Handles, Held
  <2>6. Lowest \notin before /\ Lowest \notin Handles
    BY <2>1 DEF FdInv
  <2>7. \A i, j \in DOMAIN dirs' : dirs'[i].handle = dirs'[j].handle => i = j
    <3>1. \A i \in DOMAIN dirs : dirs[i].handle # Lowest
      BY <2>6 DEF Handles
    <3>2. QED
      BY <2>4, <3>1 DEF FdInv
  <2>8. QED
    BY <2>2, <2>5, <2>6, <2>7 DEF FdInv
<1>8. CASE OpenDirectoryFails
  <2>1. before' = before /\ pc # "write_argument"
    BY <1>8 DEF OpenDirectoryFails, given
  <2>2. CASE Leave(TRUE) /\ open_fds' = Without(item_fd) \ Handles
    BY <2>1, <2>2, Closed, LeftFd
  <2>3. CASE /\ pc' = "read" /\ item_fd' = 0 /\ open_fds' = Without(item_fd)
             /\ UNCHANGED <<arg, dirs, item, st, fd, died>>
    <3>1. open_fds' = before \cup Handles /\ fd' = 0
      BY <1>8, <2>1, <2>3, Closed DEF OpenDirectoryFails, PlaceInv
    <3>2. Handles' = Handles /\ Held' = {}
      BY <2>3, <3>1 DEF Handles, Held
    <3>3. QED
      BY <2>1, <2>3, <3>1, <3>2 DEF FdInv
  <2>4. QED
    BY <1>8, <2>2, <2>3 DEF OpenDirectoryFails
<1>9. ASSUME NEW n \in Nodes, ReadEntry(n)
      PROVE  FdInv'
  <2>1. /\ DOMAIN dirs' = DOMAIN dirs
        /\ \A i \in DOMAIN dirs : dirs'[i].handle = dirs[i].handle
    BY <1>9, EntryTaken DEF ReadEntry, TypeOK, PlaceInv
  <2>2. /\ UNCHANGED <<before, open_fds, fd, item_fd>> /\ fd = 0 /\ item_fd = 0
        /\ pc' \in {"read", "open"}
    BY <1>9 DEF ReadEntry, system, given, PlaceInv, FdInv
  <2>3. Handles' = Handles /\ Held' = Held
    BY <2>1, <2>2 DEF Handles, Held
  <2>4. QED
    BY <2>1, <2>2, <2>3 DEF FdInv
<1>10. CASE EndOfDirectory \/ ReadFails
  <2>0. LeaveDirectory /\ pc = "read"
    BY <1>10 DEF EndOfDirectory, ReadFails
  <2>1. /\ Len(dirs) \in DOMAIN dirs /\ Last(dirs) = dirs[Len(dirs)]
        /\ DOMAIN dirs = 1..Len(dirs) /\ Len(dirs) \in Nat
    BY <2>0, Top DEF TypeOK, PlaceInv
  <2>2. /\ open_fds = before \cup Handles /\ before' = before
        /\ open_fds' = open_fds \ {dirs[Len(dirs)].handle}
        /\ fd = 0 /\ item_fd = 0
    BY <2>0, <2>1 DEF LeaveDirectory, PlaceInv, FdInv, Held, given
  <2>3. before \cap Handles = {}
    BY DEF FdInv
  <2>4. CASE Len(dirs) = 1
    <3>1. Handles = {dirs[Len(dirs)].handle}
      BY <2>1, <2>4 DEF Handles
    <3>2. open_fds' = before
      BY <2>2, <2>3, <3>1
    <3>3. QED
      BY <2>0, <2>2, <2>4, <3>2, LeftFd DEF LeaveDirectory
  <2>5. CASE Len(dirs) # 1
    <3>1. /\ DOMAIN dirs' = 1..(Len(dirs) - 1)
          /\ \A i \in DOMAIN dirs' : i \in DOMAIN dirs /\ dirs'[i] = dirs[i]
      BY <2>0, <2>5, Popped DEF LeaveDirectory, TypeOK, PlaceInv
    <3>2. \A i, j \in DOMAIN dirs : dirs[i].handle = dirs[j].handle => i = j
      BY DEF FdInv
    <3>3. Handles' = Handles \ {dirs[Len(dirs)].handle}
      BY <2>1, <3>1, <3>2 DEF Handles
    <3>4. open_fds' = before \cup Handles'
      BY <2>1, <2>2, <2>3, <3>3 DEF Handles
    <3>5. fd' = 0 /\ item_fd' = 0 /\ pc' = "read" /\ Held' = {}
      BY <2>0, <2>2, <2>5 DEF LeaveDirectory, Held
    <3>6. \A i, j \in DOMAIN dirs' : dirs'[i].handle = dirs'[j].handle => i = j
      BY <3>1, <3>2
    <3>7. QED
      BY <2>2, <2>3, <3>3, <3>4, <3>5, <3>6 DEF FdInv
  <2>6. QED
    BY <2>4, <2>5
<1>11. CASE OpenItem
  <2>1. Lowest \in Nat /\ Lowest > 0 /\ Lowest \notin open_fds
    BY <1>11, LowestIsNew DEF OpenItem
  <2>2. fd = 0 /\ item_fd = 0 /\ 0 \in open_fds /\ Held = {}
    BY <1>11 DEF OpenItem, PlaceInv, FdInv, Held
  <2>3. /\ item_fd' = Lowest /\ open_fds' = open_fds \cup {Lowest}
        /\ pc' = "write" /\ UNCHANGED <<before, dirs, fd>>
    BY <1>11, <2>2 DEF OpenItem, given
  <2>4. Handles' = Handles /\ Held' = {Lowest}
    BY <2>1, <2>2, <2>3 DEF Handles, Held
  <2>5. QED
    BY <2>1, <2>2, <2>3, <2>4 DEF FdInv
<1>12. CASE OpenLink
  <2>1. /\ UNCHANGED <<before, open_fds, dirs, fd>> /\ fd = 0 /\ item_fd = 0
        /\ item_fd' = -1 /\ pc' = "lstat"
    BY <1>12 DEF OpenLink, system, given, PlaceInv, FdInv
  <2>2. Handles' = Handles /\ Held' = {} /\ Held = {}
    BY <2>1 DEF Handles, Held
  <2>3. QED
    BY <2>1, <2>2 DEF FdInv
<1>13. CASE Lstat
  BY <1>13, SameFd DEF Lstat, system, given, FdInv
<1>14. CASE LstatFails
  BY <1>14, SkippedFd DEF LstatFails
<1>15. CASE OpenItemFails
  BY <1>15, SkippedFd DEF OpenItemFails
<1>16. CASE WriteItem
  <2>1. CASE st = "dir"
    BY <1>16, <2>1, SameFd DEF WriteItem, system, given, FdInv
  <2>2. CASE st # "dir"
    BY <1>16, <2>2, SkippedFd DEF WriteItem
  <2>3. QED
    BY <2>1, <2>2
<1>17. CASE WriteItemFails \/ WriteItemFlushFails
  BY <1>17, SkippedFd DEF WriteItemFails, WriteItemFlushFails
<1>18. CASE WriteItemFatal
  BY <1>18, AbortedFd DEF WriteItemFatal
<1>19. ASSUME NEW r \in Replacements, Replace(r)
       PROVE  FdInv'
  BY <1>19, SameFd DEF Replace, given, FdInv
<1>20. CASE UNCHANGED vars
  BY <1>20, SameFd DEF vars, FdInv
<1>21. QED
  BY <1>1, <1>2, <1>3, <1>4, <1>5, <1>6, <1>7, <1>8, <1>9, <1>10, <1>11, <1>12,
     <1>13, <1>14, <1>15, <1>16, <1>17, <1>18, <1>19, <1>20
     DEF Next, Step, Fault

-----------------------------------------------------------------------------
\* The members archived after a step: one more, or the same.
LEMMA Archiving ==
  ASSUME TypeOK, NEW f, Archive(f)
  PROVE  /\ DOMAIN members' = 1..(Len(members) + 1)
         /\ DOMAIN members = 1..Len(members) /\ Len(members) \in Nat
         /\ \A i \in DOMAIN members : members'[i] = members[i]
         /\ \A i \in DOMAIN members' \ DOMAIN members :
              /\ i = Len(members) + 1
              /\ members'[i].path = item /\ members'[i].kind = st
              /\ f > 0 => members'[i].body
PROOF
<1>1. members' = Append(members, [path |-> item, kind |-> st, body |-> f > 0])
  BY DEF Archive
<1>2. /\ DOMAIN members = 1..Len(members) /\ Len(members) \in Nat
      /\ DOMAIN members' = 1..(Len(members) + 1)
  BY <1>1 DEF TypeOK
<1>3. \A i \in DOMAIN members : members'[i] = members[i]
  BY <1>1 DEF TypeOK
<1>4. members'[Len(members) + 1] =
        [path |-> item, kind |-> st, body |-> f > 0]
  BY <1>1 DEF TypeOK
<1>5. /\ members'[Len(members) + 1].path = item
      /\ members'[Len(members) + 1].kind = st
  BY <1>4
<1>6. f > 0 => members'[Len(members) + 1].body
  <2>1. SUFFICES ASSUME NEW m, NEW n, NEW k, f > 0,
                        m = [path |-> n, kind |-> k, body |-> f > 0]
                 PROVE  m.body
    BY <1>4
  <2>2. QED
    BY <2>1, Zenon
<1>7. \A i \in DOMAIN members' \ DOMAIN members : i = Len(members) + 1
  BY <1>2
<1>8. QED
  BY <1>2, <1>3, <1>5, <1>6, <1>7

\* What a step leaves alone: the flags, the replacements there were before it,
\* and the members, unless it adds one.
LEMMA FlagsStay ==
  ASSUME [Next]_vars
  PROVE  flags' = flags /\ before' = before
PROOF
<1>1. CASE Step
  BY <1>1 DEF Step, StatArgument, StatArgumentFails, OpenArgument,
    OpenArgumentFails, WriteArgument, OpenDirectory, OpenDirectoryFails, ReadEntry,
    EndOfDirectory, LeaveDirectory, OpenItem, OpenLink, Lstat, LstatFails,
    OpenItemFails, WriteItem,
    Abort, Skip, system, given
<1>2. CASE Fault \/ \E r \in Replacements : Replace(r)
  BY <1>2 DEF Fault, WriteArgumentFails, ReadFails, LeaveDirectory, WriteItemFails,
    WriteItemFlushFails, WriteItemFatal, Replace, Abort, Skip, given
<1>3. QED
  BY <1>1, <1>2 DEF Next, vars

LEMMA MembersStep ==
  ASSUME [Next]_vars
  PROVE  members' = members \/ WriteArgument \/ WriteItem
PROOF
<1>1. CASE Step /\ ~WriteArgument /\ ~WriteItem
  BY <1>1 DEF Step, StatArgument, StatArgumentFails, OpenArgument,
    OpenArgumentFails, OpenDirectory, OpenDirectoryFails, ReadEntry,
    EndOfDirectory, LeaveDirectory, OpenItem, OpenLink, Lstat, LstatFails,
    OpenItemFails, Abort, output
<1>2. CASE Fault \/ \E r \in Replacements : Replace(r)
  BY <1>2 DEF Fault, WriteArgumentFails, ReadFails, LeaveDirectory, WriteItemFails,
    WriteItemFlushFails, WriteItemFatal, Replace, Abort, output
<1>3. QED
  BY <1>1, <1>2 DEF Next, vars

LEMMA ChangedStep ==
  ASSUME [Next]_vars
  PROVE  changed \subseteq changed'
PROOF
<1>1. CASE Step
  BY <1>1 DEF Step, StatArgument, StatArgumentFails, OpenArgument,
    OpenArgumentFails, WriteArgument, OpenDirectory, OpenDirectoryFails, ReadEntry,
    EndOfDirectory, LeaveDirectory, OpenItem, OpenLink, Lstat, LstatFails,
    OpenItemFails, WriteItem, Abort, Skip, system
<1>2. CASE Fault \/ \E r \in Replacements : Replace(r)
  BY <1>2 DEF Fault, WriteArgumentFails, ReadFails, LeaveDirectory, WriteItemFails,
    WriteItemFlushFails, WriteItemFatal, Replace, Abort, Skip
<1>3. QED
  BY <1>1, <1>2 DEF Next, vars

LEMMA MadeStays ==
  ASSUME [Next]_vars, NEW n, NEW k, Made(changed, n, k)
  PROVE  Made(changed', n, k)
BY ChangedStep DEF Made

LEMMA InitSize == Init => SizeInv /\ BodiesFollow
BY DEF Init, SizeInv, BodiesFollow

\* The members are the same as before, or there is one more, that has a body if
\* it is a file, or was made one.
LEMMA SameBodies ==
  ASSUME TypeOK, BodiesFollow, [Next]_vars, UNCHANGED <<flags, before, members>>
  PROVE  BodiesFollow'
BY MadeStays DEF BodiesFollow, Made

LEMMA ArchivedBody ==
  ASSUME TypeOK, BodiesFollow, [Next]_vars, UNCHANGED <<flags, before>>,
         NEW f \in Int, Archive(f),
         st = "file" => f > 0 \/ ("follow" \notin flags /\ Made(changed, item, "file"))
  PROVE  BodiesFollow'
PROOF
<1>1. SUFFICES ASSUME 0 \in before, NEW i \in DOMAIN members',
                      members'[i].kind = "file", ~members'[i].body
               PROVE  "follow" \notin flags /\ Made(changed', members'[i].path, "file")
  BY DEF BodiesFollow, Made
<1>2. CASE i \in DOMAIN members
  <2>1. members'[i] = members[i]
    BY <1>2, Archiving
  <2>2. "follow" \notin flags /\ Made(changed, members[i].path, "file")
    BY <1>1, <1>2, <2>1 DEF BodiesFollow, Made
  <2>3. QED
    BY <2>1, <2>2, MadeStays DEF Made
<1>3. CASE i \notin DOMAIN members
  <2>1. members'[i].path = item /\ st = "file" /\ ~(f > 0)
    BY <1>1, <1>3, Archiving
  <2>2. "follow" \notin flags /\ Made(changed, item, "file")
    BY <2>1
  <2>3. QED
    BY <2>1, <2>2, MadeStays DEF Made
<1>4. QED
  BY <1>2, <1>3

LEMMA SizeStep ==
  ASSUME TypeOK, PlaceInv, FdInv, SizeInv, BodiesFollow, [Next]_vars
  PROVE  SizeInv' /\ BodiesFollow'
PROOF
<1>1. flags' = flags /\ before' = before
  BY FlagsStay
<1>2. ASSUME pc' \notin OfArgument \cup {"lstat", "write"}
      PROVE  SizeInv'
  BY <1>2 DEF SizeInv, OfArgument
<1>3. CASE members' = members
  <2>1. BodiesFollow'
    BY <1>1, <1>3, SameBodies
  <2>2. CASE pc' \notin OfArgument \cup {"lstat", "write"}
    BY <1>2, <2>1, <2>2
  <2>3. CASE StatArgument
    BY <2>1, <2>3 DEF StatArgument, SizeInv
  <2>4. CASE OpenArgument
    <3>1. Lowest > 0
      BY <2>4, LowestIsNew DEF OpenArgument
    <3>2. QED
      BY <2>1, <2>4, <3>1 DEF OpenArgument, SizeInv
  <2>5. CASE OpenItem
    <3>1. CASE Skip
      BY <1>2, <2>1, <3>1 DEF Skip, OfArgument
    <3>2. CASE ~Skip
      <4>1. Lowest > 0
        BY <2>5, LowestIsNew DEF OpenItem
      <4>2. pc' = "write" /\ item_fd' = Lowest
        BY <2>5, <3>2 DEF OpenItem
      <4>3. QED
        BY <2>1, <4>1, <4>2 DEF SizeInv
    <3>3. QED
      BY <3>1, <3>2
  <2>6. CASE OpenLink
    <3>1. kind[item] = "link" /\ pc' = "lstat" /\ UNCHANGED <<item, kind>>
      BY <2>6 DEF OpenLink, Itself, system
    <3>2. QED
      BY <2>1, <3>1 DEF SizeInv
  <2>7. CASE Lstat
    <3>1. /\ pc = "lstat" /\ pc' = "write" /\ st' = kind[item] /\ item' = item
          /\ "follow" \notin flags
      BY <2>7 DEF Lstat, Itself, PlaceInv
    <3>2. st' = "file" => Made(changed, item, "file")
      BY <3>1 DEF SizeInv
    <3>3. st' = "file" => Made(changed', item', "file")
      BY <3>1, <3>2, MadeStays
    <3>4. QED
      BY <1>1, <2>1, <3>1, <3>3 DEF SizeInv
  <2>8. ASSUME NEW r \in Replacements, Replace(r)
        PROVE  SizeInv'
    <3>1. /\ kind' = [kind EXCEPT ![r[1]] = r[3]] /\ r \in changed'
          /\ UNCHANGED <<pc, st, fd, item_fd, item>>
      BY <2>8 DEF Replace
    <3>2. pc = "lstat" => item \in Nodes
      BY DEF PlaceInv, OfEntry
    <3>3. pc = "lstat" => kind'[item] = "link" \/ Made(changed', item, kind'[item])
      <4>1. CASE item = r[1]
        BY <3>1, <3>2, <4>1 DEF Made, TypeOK
      <4>2. CASE item # r[1]
        BY <3>1, <3>2, <4>2, MadeStays DEF SizeInv, TypeOK
      <4>3. QED
        BY <4>1, <4>2
    <3>4. pc = "write" /\ st = "file" =>
            item_fd > 0 \/ ("follow" \notin flags /\ Made(changed', item, "file"))
      BY MadeStays DEF SizeInv
    <3>5. (pc = "lstat" => kind[item] = "link" \/ Made(changed, item, kind[item]))'
      BY <3>1, <3>3 DEF Made
    <3>6. (pc = "write" /\ st = "file" =>
             item_fd > 0 \/ ("follow" \notin flags /\ Made(changed, item, "file")))'
      BY <1>1, <3>1, <3>4 DEF Made
    <3>7. QED
      BY <3>1, <3>5, <3>6 DEF SizeInv
  <2>9. CASE UNCHANGED vars
    BY <2>1, <2>9 DEF vars, SizeInv, Made
  <2>10. CASE \/ StatArgumentFails \/ OpenArgumentFails \/ WriteItemFatal
              \/ WriteArgumentFails
    BY <1>2, <2>1, <2>10 DEF StatArgumentFails, OpenArgumentFails, WriteItemFatal,
      WriteArgumentFails, Abort, Leave, OfArgument
  <2>11. CASE \/ OpenDirectory \/ OpenDirectoryFails \/ EndOfDirectory \/ ReadFails
              \/ \E n \in Nodes : ReadEntry(n)
    BY <1>2, <2>1, <2>11 DEF OpenDirectory, OpenDirectoryFails, EndOfDirectory,
      ReadFails, LeaveDirectory, ReadEntry, Leave, OfArgument
  <2>12. CASE \/ LstatFails \/ OpenItemFails \/ WriteItemFails
              \/ WriteItemFlushFails \/ WriteArgument \/ WriteItem
    BY <1>2, <2>1, <2>12 DEF LstatFails, OpenItemFails, WriteItemFails,
      WriteItemFlushFails, WriteArgument, WriteItem, Skip, Leave, OfArgument
  <2>13. QED
    BY <2>1, <2>3, <2>4, <2>5, <2>6, <2>7, <2>8, <2>9, <2>10, <2>11, <2>12
       DEF Next, Step, Fault
<1>4. CASE WriteArgument \/ WriteItem
  <2>1. PICK f \in {fd, item_fd} :
          /\ Archive(f)
          /\ st = "file" => f > 0 \/ ("follow" \notin flags /\ Made(changed, item, "file"))
    BY <1>4 DEF WriteArgument, WriteItem, SizeInv
  <2>2. f \in Int
    BY <2>1 DEF TypeOK
  <2>3. BodiesFollow'
    BY <1>1, <2>1, <2>2, ArchivedBody
  <2>4. pc' \notin OfArgument \cup {"lstat", "write"}
    BY <1>4 DEF WriteArgument, WriteItem, Skip, Leave, OfArgument
  <2>5. QED
    BY <1>2, <2>3, <2>4
<1>5. QED
  BY <1>3, <1>4, MembersStep

-----------------------------------------------------------------------------
\* What was asked for: the arguments, and the entries of its directories.
LEMMA AskedSame ==
  ASSUME flags' = flags
  PROVE  Asked' = Asked /\ \A n : IsDirectory(n)' <=> IsDirectory(n)
BY DEF Asked, IsDirectory

LEMMA ArgumentAsked ==
  ASSUME NEW i \in DOMAIN Arguments
  PROVE  Arguments[i] \in Asked
PROOF
<1> DEFINE n == Arguments[i]
<1>1. n \in Nodes /\ Parent[n] = "none" /\ Above[n] = {}
  BY ArgumentNodes, AboveTop
<1>2. n \in ToSet(Arguments)
  BY DEF ToSet
<1>3. QED
  BY <1>1, <1>2 DEF Asked

LEMMA EntryAsked ==
  ASSUME NEW d \in Asked, IsDirectory(d), NEW n \in Nodes, Parent[n] = d,
         n \notin MatchedPaths
  PROVE  n \in Asked
PROOF
<1>1. d \in Nodes
  BY DEF Asked
<1>2. Above[n] = {d} \cup Above[d]
  BY <1>1, AboveIn
<1>3. QED
  BY <1>2 DEF Asked

LEMMA ArchivingPath ==
  ASSUME TypeOK, NEW f, Archive(f)
  PROVE  Archived' = Archived \cup {item}
PROOF
<1>1. \A i \in DOMAIN members' \ DOMAIN members : members'[i].path = item
  BY Archiving
<1>2. DOMAIN members \subseteq DOMAIN members'
  BY Archiving
<1>3. \A i \in DOMAIN members : members'[i] = members[i]
  BY Archiving
<1>4. \E i \in DOMAIN members' : i \notin DOMAIN members
  BY Archiving
<1>5. QED
  BY <1>1, <1>2, <1>3, <1>4 DEF Archived

LEMMA SeenDirectory ==
  ASSUME AskedInv, NEW n \in Nodes, Seen(n) = "dir" \/ Itself(n) = "dir"
  PROVE  IsDirectory(n)
BY DEF AskedInv, Seen, Target, Itself

LEMMA InitAsked == Init => AskedInv /\ ExcludedByPath
BY TraversalAssumption
   DEF Init, AskedInv, ExcludedByPath, Archived, Resolved, IsDirectory, OfArgument,
       OfEntry, Kinds

\* Nothing is looked at any more.
LEMMA LeftAsked ==
  ASSUME NEW b, Leave(b), AskedInv, UNCHANGED <<flags, kind>>
  PROVE  AskedInv'
PROOF
<1>1. pc' \in {"argument", "done"} /\ dirs' = <<>>
  BY DEF Leave
<1>2. \A n \in Nodes : Resolved(n)' = Resolved(n) /\ kind'[n] = kind[n]
  BY DEF Resolved
<1>3. DOMAIN dirs' = {}
  BY <1>1
<1>4. QED
  BY <1>1, <1>2, <1>3, AskedSame DEF AskedInv, OfArgument, OfEntry

\* The same directories are being read, and what is looked at was asked for.
LEMMA SameAsked ==
  ASSUME AskedInv, UNCHANGED <<flags, kind, dirs>>,
         pc' \in {"open_directory"} \cup OfArgument \cup OfEntry => item' \in Asked,
         pc' = "open_directory" => IsDirectory(item'),
         pc' \in {"open_argument", "write_argument", "write"} /\ st' = "dir"
           => IsDirectory(item')
  PROVE  AskedInv'
PROOF
<1>1. \A n \in Nodes : Resolved(n)' = Resolved(n) /\ kind'[n] = kind[n]
  BY DEF Resolved
<1>2. QED
  BY <1>1, AskedSame DEF AskedInv

LEMMA EntriesStep ==
  ASSUME TypeOK, PlaceInv, EntriesInv, [Next]_vars
  PROVE  EntriesInv'
PROOF
<1>1. CASE dirs' = dirs
  BY <1>1 DEF EntriesInv
<1>2. CASE dirs' = <<>>
  BY <1>2 DEF EntriesInv
<1>3. CASE OpenDirectory
  <2>1. [path |-> item, unread |-> Entries(item), handle |-> Lowest] \in Frames
    BY <1>3, LowestIsFree DEF OpenDirectory, PlaceInv, Frames, Entries
  <2>2. /\ DOMAIN dirs' = 1..(Len(dirs) + 1) /\ DOMAIN dirs = 1..Len(dirs)
        /\ Len(dirs) \in Nat /\ \A i \in DOMAIN dirs : dirs'[i] = dirs[i]
        /\ dirs'[Len(dirs) + 1].path = item
        /\ dirs'[Len(dirs) + 1].unread = Entries(item)
    BY <1>3, <2>1, Pushed DEF OpenDirectory, TypeOK
  <2>3. QED
    BY <2>2 DEF EntriesInv, Entries
<1>4. ASSUME NEW n \in Nodes, ReadEntry(n)
      PROVE  EntriesInv'
  <2>1. /\ DOMAIN dirs' = DOMAIN dirs
        /\ \A i \in DOMAIN dirs : /\ dirs'[i].path = dirs[i].path
                                  /\ dirs'[i].unread \subseteq dirs[i].unread
    BY <1>4, EntryTaken DEF ReadEntry, TypeOK, PlaceInv
  <2>2. QED
    BY <2>1 DEF EntriesInv
<1>5. CASE EndOfDirectory \/ ReadFails
  <2>1. LeaveDirectory
    BY <1>5 DEF EndOfDirectory, ReadFails
  <2>2. dirs # <<>>
    BY <1>5 DEF EndOfDirectory, ReadFails, PlaceInv
  <2>3. CASE Len(dirs) # 1
    <3>1. \A i \in DOMAIN dirs' : i \in DOMAIN dirs /\ dirs'[i] = dirs[i]
      BY <2>1, <2>2, <2>3, Popped DEF LeaveDirectory, TypeOK
    <3>2. QED
      BY <3>1 DEF EntriesInv
  <2>4. CASE Len(dirs) = 1
    BY <1>2, <2>1, <2>4 DEF LeaveDirectory, Leave
  <2>5. QED
    BY <2>3, <2>4
<1>6. CASE StatArgumentFails \/ OpenArgumentFails \/ WriteItemFatal
              \/ WriteArgumentFails
  BY <1>2, <1>6 DEF StatArgumentFails, OpenArgumentFails, WriteItemFatal,
    WriteArgumentFails, Abort, Leave
<1>7. CASE WriteArgument \/ OpenDirectoryFails
  BY <1>1, <1>2, <1>7 DEF WriteArgument, OpenDirectoryFails, Leave
<1>8. CASE StatArgument \/ OpenArgument \/ OpenItem \/ OpenLink \/ Lstat
              \/ LstatFails \/ OpenItemFails \/ WriteItem \/ WriteItemFails
              \/ WriteItemFlushFails
  BY <1>1, <1>8 DEF StatArgument, OpenArgument, OpenItem, OpenLink, Lstat,
    LstatFails, OpenItemFails, WriteItem, WriteItemFails, WriteItemFlushFails, Skip
<1>9. CASE (\E r \in Replacements : Replace(r)) \/ UNCHANGED vars
  BY <1>1, <1>9 DEF Replace, vars
<1>10. QED
  BY <1>3, <1>4, <1>5, <1>6, <1>7, <1>8, <1>9 DEF Next, Step, Fault

LEMMA AskedStep ==
  ASSUME NewDirectories, TypeOK, PlaceInv, EntriesInv, AskedInv, [Next]_vars
  PROVE  AskedInv'
PROOF
<1> USE DEF OfArgument, OfEntry
<1>1. CASE StatArgument
  <2>1. item' \in Asked /\ item' \in Nodes /\ st' = Seen(item')
    BY <1>1, ArgumentAsked, ArgumentNodes DEF StatArgument, PlaceInv
  <2>2. UNCHANGED <<flags, kind, dirs>> /\ pc' \in {"open_argument", "write_argument"}
    BY <1>1 DEF StatArgument, system, given
  <2>3. QED
    BY <2>1, <2>2, SeenDirectory, SameAsked DEF StatArgument
<1>2. CASE StatArgumentFails
  BY <1>2, LeftAsked DEF StatArgumentFails, Abort, given
<1>3. CASE OpenArgument
  <2>1. /\ UNCHANGED <<flags, kind, dirs, item, st>> /\ item \in Asked
        /\ pc' = "write_argument"
    BY <1>3 DEF OpenArgument, given, AskedInv
  <2>2. st = "dir" => IsDirectory(item)
    BY <1>3 DEF OpenArgument, AskedInv
  <2>3. QED
    BY <2>1, <2>2, SameAsked
<1>4. CASE OpenArgumentFails
  BY <1>4, LeftAsked DEF OpenArgumentFails, Abort, given
<1>5. CASE WriteArgument
  <2>1. CASE st = "dir"
    <3>1. /\ UNCHANGED <<flags, kind, dirs, item>> /\ pc' = "open_directory"
      BY <1>5, <2>1 DEF WriteArgument, given
    <3>2. item \in Asked /\ IsDirectory(item)
      BY <1>5, <2>1 DEF WriteArgument, AskedInv
    <3>3. QED
      BY <3>1, <3>2, SameAsked
  <2>2. CASE st # "dir"
    BY <1>5, <2>2, LeftAsked DEF WriteArgument, given
  <2>3. QED
    BY <2>1, <2>2
<1>6. CASE WriteArgumentFails
  BY <1>6, LeftAsked DEF WriteArgumentFails, given
<1>7. ASSUME UNCHANGED <<flags, kind, dirs>>, pc' = "read"
      PROVE  AskedInv'
  BY <1>7, SameAsked
<1>8. CASE OpenDirectory
  <2>1. /\ [path |-> item, unread |-> Entries(item), handle |-> Lowest] \in Frames
        /\ item \in Asked /\ IsDirectory(item)
    BY <1>8, LowestIsFree DEF OpenDirectory, PlaceInv, Frames, Entries, AskedInv
  <2>2. /\ DOMAIN dirs' = 1..(Len(dirs) + 1) /\ DOMAIN dirs = 1..Len(dirs)
        /\ Len(dirs) \in Nat /\ \A i \in DOMAIN dirs : dirs'[i] = dirs[i]
        /\ dirs'[Len(dirs) + 1].path = item
    BY <1>8, <2>1, Pushed DEF OpenDirectory, TypeOK
  <2>3. UNCHANGED <<flags, kind>> /\ pc' = "read"
    BY <1>8 DEF OpenDirectory, given
  <2>4. \A i \in DOMAIN dirs' :
          dirs'[i].path \in Asked /\ IsDirectory(dirs'[i].path)
    BY <2>1, <2>2 DEF AskedInv
  <2>5. \A n \in Nodes : Resolved(n)' = Resolved(n) /\ kind'[n] = kind[n]
    BY <2>3 DEF Resolved
  <2>6. QED
    BY <2>3, <2>4, <2>5, AskedSame DEF AskedInv
<1>9. CASE OpenDirectoryFails
  <2>1. UNCHANGED <<flags, kind>>
    BY <1>9 DEF OpenDirectoryFails, given
  <2>2. CASE Leave(TRUE)
    BY <2>1, <2>2, LeftAsked
  <2>3. CASE pc' = "read" /\ dirs' = dirs
    BY <1>7, <2>1, <2>3
  <2>4. QED
    BY <1>9, <2>2, <2>3 DEF OpenDirectoryFails
<1>10. ASSUME NEW n \in Nodes, ReadEntry(n)
       PROVE  AskedInv'
  <2>1. /\ DOMAIN dirs' = DOMAIN dirs
        /\ \A i \in DOMAIN dirs : dirs'[i].path = dirs[i].path
    BY <1>10, EntryTaken DEF ReadEntry, TypeOK, PlaceInv
  <2>2. Len(dirs) \in DOMAIN dirs /\ n \in dirs[Len(dirs)].unread
    BY <1>10, Top DEF ReadEntry, TypeOK, PlaceInv
  <2>3. /\ Parent[n] = dirs[Len(dirs)].path /\ dirs[Len(dirs)].path \in Asked
        /\ IsDirectory(dirs[Len(dirs)].path)
    BY <2>2 DEF AskedInv, EntriesInv
  <2>4. /\ UNCHANGED <<flags, kind>> /\ item' = n /\ pc' \in {"read", "open"}
        /\ pc' = "open" => n \notin MatchedPaths
    BY <1>10 DEF ReadEntry, system, given
  <2>5. pc' = "open" => item' \in Asked
    BY <2>3, <2>4, EntryAsked
  <2>6. \A m \in Nodes : Resolved(m)' = Resolved(m) /\ kind'[m] = kind[m]
    BY <2>4 DEF Resolved
  <2>7. QED
    BY <2>1, <2>4, <2>5, <2>6, AskedSame DEF AskedInv
<1>11. CASE EndOfDirectory \/ ReadFails
  <2>0. LeaveDirectory /\ pc = "read"
    BY <1>11 DEF EndOfDirectory, ReadFails
  <2>1. UNCHANGED <<flags, kind>> /\ pc = "read"
    BY <2>0 DEF LeaveDirectory, given
  <2>2. CASE Len(dirs) = 1
    BY <2>0, <2>1, <2>2, LeftAsked DEF LeaveDirectory
  <2>3. CASE Len(dirs) # 1
    <3>1. \A i \in DOMAIN dirs' : i \in DOMAIN dirs /\ dirs'[i] = dirs[i]
      BY <2>0, <2>3, Popped DEF LeaveDirectory, TypeOK, PlaceInv
    <3>2. pc' = "read"
      BY <2>0, <2>1, <2>3 DEF LeaveDirectory
    <3>3. \A n \in Nodes : Resolved(n)' = Resolved(n) /\ kind'[n] = kind[n]
      BY <2>1 DEF Resolved
    <3>4. QED
      BY <2>1, <3>1, <3>2, <3>3, AskedSame DEF AskedInv
  <2>4. QED
    BY <2>2, <2>3
<1>12. ASSUME Skip
       PROVE  AskedInv'
  BY <1>7, <1>12 DEF Skip, given
<1>13. CASE OpenItem
  <2>1. CASE ~Skip
    <3>1. /\ UNCHANGED <<flags, kind, dirs, item>> /\ pc' = "write"
          /\ item \in Asked /\ item \in Nodes /\ st' = Seen(item)
      BY <1>13, <2>1 DEF OpenItem, given, AskedInv, PlaceInv
    <3>2. QED
      BY <3>1, SeenDirectory, SameAsked
  <2>2. QED
    BY <1>12, <2>1
<1>14. CASE OpenLink
  <2>1. /\ UNCHANGED <<flags, kind, dirs, item>> /\ pc' = "lstat" /\ item \in Asked
    BY <1>14 DEF OpenLink, system, given, AskedInv
  <2>2. QED
    BY <2>1, SameAsked
<1>15. CASE Lstat
  <2>1. /\ UNCHANGED <<flags, kind, dirs, item>> /\ pc' = "write"
        /\ item \in Asked /\ item \in Nodes /\ st' = Itself(item)
    BY <1>15 DEF Lstat, system, given, AskedInv, PlaceInv
  <2>2. QED
    BY <2>1, SeenDirectory, SameAsked
<1>16. CASE WriteItem
  <2>1. CASE st = "dir"
    <3>1. /\ UNCHANGED <<flags, kind, dirs, item>> /\ pc' = "open_directory"
      BY <1>16, <2>1 DEF WriteItem, system, given
    <3>2. item \in Asked /\ IsDirectory(item)
      BY <1>16, <2>1 DEF WriteItem, AskedInv
    <3>3. QED
      BY <3>1, <3>2, SameAsked
  <2>2. CASE st # "dir"
    BY <1>12, <1>16, <2>2 DEF WriteItem
  <2>3. QED
    BY <2>1, <2>2
<1>17. CASE LstatFails \/ OpenItemFails \/ WriteItemFails \/ WriteItemFlushFails
  BY <1>12, <1>17 DEF LstatFails, OpenItemFails, WriteItemFails, WriteItemFlushFails
<1>18. CASE WriteItemFatal
  BY <1>18, LeftAsked DEF WriteItemFatal, Abort, given
<1>19. ASSUME NEW r \in Replacements, Replace(r)
       PROVE  AskedInv'
  <2>1. r[1] \in Nodes /\ r[3] \in Kinds
    BY TraversalAssumption
  <2>2. /\ UNCHANGED <<flags, pc, st, item, dirs>>
        /\ \A n \in Nodes : kind'[n] = IF n = r[1] THEN r[3] ELSE kind[n]
    BY <1>19, <2>1 DEF Replace, given, TypeOK
  <2>3. \A n \in Nodes : n # r[1] => Resolved(n)' = Resolved(n)
    BY <2>2 DEF Resolved
  <2>4. Resolved(r[1])' = IF r[3] = "link" THEN Behind[r[1]] ELSE r[3]
    BY <2>1, <2>2 DEF Resolved
  <2>5. kind'[r[1]] = "dir" \/ ("follow" \in flags /\ Resolved(r[1])' = "dir")
          => IsDirectory(r[1])
    BY <2>1, <2>2, <2>4 DEF NewDirectories, IsDirectory
  <2>6. \A n \in Nodes : kind'[n] = "dir" \/ ("follow" \in flags /\ Resolved(n)' = "dir")
          => IsDirectory(n)
    BY <2>2, <2>3, <2>5 DEF AskedInv
  <2>7. QED
    BY <2>2, <2>6, AskedSame DEF AskedInv
<1>20. CASE UNCHANGED vars
  BY <1>20, SameAsked DEF vars, AskedInv
<1>21. QED
  BY <1>1, <1>2, <1>3, <1>4, <1>5, <1>6, <1>8, <1>9, <1>10, <1>11, <1>13, <1>14,
     <1>15, <1>16, <1>17, <1>18, <1>19, <1>20
     DEF Next, Step, Fault

\* What is archived at a step: the entry dealt with, or nothing.
LEMMA ArchivedStep ==
  ASSUME TypeOK, [Next]_vars
  PROVE  \/ Archived' = Archived
         \/ pc \in {"write", "write_argument"} /\ Archived' = Archived \cup {item}
PROOF
<1>1. CASE WriteArgument
  BY <1>1, ArchivingPath DEF WriteArgument
<1>2. CASE WriteItem
  BY <1>2, ArchivingPath DEF WriteItem
<1>3. CASE members' = members
  BY <1>3 DEF Archived
<1>4. QED
  BY <1>1, <1>2, <1>3, MembersStep

-----------------------------------------------------------------------------
\* A step makes no more arguments remain.
LEMMA RestStays ==
  ASSUME TypeOK, arg' = arg, pc' \notin {"argument", "done"} \/ pc' = pc
  PROVE  Rest' \subseteq Rest
PROOF
<1>1. DOMAIN Arguments \subseteq Nat /\ arg \in Nat
  BY TraversalAssumption DEF TypeOK
<1>2. CASE pc' = pc
  BY <1>2 DEF Rest
<1>3. CASE pc' \notin {"argument", "done"}
  BY <1>1, <1>3 DEF Rest
<1>4. QED
  BY <1>2, <1>3

LEMMA RestLeft ==
  ASSUME TypeOK, NEW b, Leave(b)
  PROVE  Rest' \subseteq Rest
PROOF
<1>1. DOMAIN Arguments \subseteq Nat /\ arg \in Nat
  BY TraversalAssumption DEF TypeOK
<1>2. arg' = arg + 1 /\ pc' \in {"argument", "done"}
  BY DEF Leave
<1>3. QED
  BY <1>1, <1>2 DEF Rest

LEMMA ArchivedNodes ==
  ASSUME TypeOK
  PROVE  Archived \subseteq Nodes
PROOF
<1>1. \A i \in DOMAIN members : members[i] \in Members
  BY DEF TypeOK
<1>2. QED
  BY <1>1 DEF Archived, Members

\* What was written now was not before, and nothing that is left of the walk.
LEMMA Wrote ==
  ASSUME DistinctArguments, TypeOK, PlaceInv, TreeInv,
         pc \in {"write", "write_argument"}, Archived' = Archived \cup {item}
  PROVE  /\ \A n \in Archived' : Parent[n] # "none" => Parent[n] \in Archived'
         /\ \A i \in Rest : Arguments[i] \notin Archived'
         /\ \A i \in DOMAIN dirs :
              /\ dirs[i].path \in Archived' /\ dirs[i].path # item
              /\ \A n \in dirs[i].unread : n \notin Archived'
         /\ \A n \in Archived' : Parent[n] # item
PROOF
<1>1. item \in Nodes /\ item # "none" /\ item \notin Archived
  BY TraversalAssumption DEF PlaceInv, OfArgument, OfEntry, TreeInv
<1>2. CASE pc = "write_argument"
  <2>1. /\ arg \in DOMAIN Arguments /\ item = Arguments[arg] /\ dirs = <<>>
        /\ Parent[item] = "none"
    BY <1>2, ArgumentNodes DEF PlaceInv, OfArgument
  <2>2. \A i \in Rest : i \in DOMAIN Arguments /\ i # arg
    BY <1>2, TraversalAssumption DEF Rest, TypeOK
  <2>3. \A i \in Rest : Arguments[i] # item
    BY <2>1, <2>2 DEF DistinctArguments
  <2>4. DOMAIN dirs = {}
    BY <2>1
  <2>5. QED
    BY <1>1, <2>1, <2>3, <2>4 DEF TreeInv
<1>3. CASE pc = "write"
  <2>1. Parent[item] \in Archived /\ Parent[item] # "none"
    BY <1>1, <1>3, ArchivedNodes, TraversalAssumption DEF TreeInv, OfEntry
  <2>2. \A i \in Rest : Arguments[i] # item
    BY <2>1, ArgumentNodes DEF Rest
  <2>3. \A i \in DOMAIN dirs : item \notin dirs[i].unread
    BY <1>3 DEF TreeInv, OfEntry
  <2>4. QED
    BY <1>1, <2>1, <2>2, <2>3 DEF TreeInv
<1>4. QED
  BY <1>2, <1>3

LEMMA LeftTree ==
  ASSUME TypeOK, NEW b, Leave(b), \A i \in Rest : Arguments[i] \notin Archived',
         \A n \in Archived' : Parent[n] # "none" => Parent[n] \in Archived'
  PROVE  TreeInv'
PROOF
<1>1. pc' \in {"argument", "done"} /\ dirs' = <<>>
  BY DEF Leave
<1>2. DOMAIN dirs' = {}
  BY <1>1
<1>3. QED
  BY <1>1, <1>2, RestLeft DEF TreeInv, OfArgument, OfEntry

LEMMA AbortedTree ==
  ASSUME TypeOK, TreeInv, NEW b, Leave(b), members' = members
  PROVE  TreeInv'
PROOF
<1>1. Archived' = Archived
  BY DEF Archived
<1>2. QED
  BY <1>1, LeftTree DEF TreeInv

\* Nothing is archived, and the walk looks at nothing else.
LEMMA SameTree ==
  ASSUME TreeInv, UNCHANGED <<members, dirs, item>>, Rest' \subseteq Rest,
         pc' \in OfArgument \cup OfEntry => pc \in OfArgument \cup OfEntry,
         pc' \in OfEntry => pc \in OfEntry,
         pc' = "open_directory" => pc = "open_directory"
  PROVE  TreeInv'
PROOF
<1>1. Archived' = Archived
  BY DEF Archived
<1>2. QED
  BY <1>1 DEF TreeInv

\* After a directory was archived.
LEMMA EnteredTree ==
  ASSUME DistinctArguments, TypeOK, PlaceInv, TreeInv,
         pc \in {"write", "write_argument"}, Archived' = Archived \cup {item},
         pc' \in {"open_directory", "read"}, UNCHANGED <<dirs, item, arg>>
  PROVE  TreeInv'
PROOF
<1>1. Rest' \subseteq Rest
  BY RestStays
<1>2. \A i \in Rest' : Arguments[i] \notin Archived'
  BY <1>1, Wrote
<1>3. \A i \in DOMAIN dirs :
        /\ dirs[i].path \in Archived' /\ dirs[i].path # item
        /\ \A j \in DOMAIN dirs : dirs[i].path = dirs[j].path => i = j
        /\ \A n \in dirs[i].unread : Parent[n] = dirs[i].path /\ n \notin Archived'
  BY Wrote DEF TreeInv
<1>4. \A n \in Archived' : /\ Parent[n] # "none" => Parent[n] \in Archived'
                           /\ Parent[n] # item
  BY Wrote
<1>5. item \in Archived'
  OBVIOUS
<1>6. QED
  BY <1>2, <1>3, <1>4, <1>5 DEF TreeInv, OfArgument, OfEntry

LEMMA InitTree == Init => TreeInv /\ ParentFirst
BY DEF Init, TreeInv, ParentFirst, Archived, Rest, OfArgument, OfEntry

LEMMA TreeStep ==
  ASSUME DistinctArguments, TypeOK, PlaceInv, TreeInv, [Next]_vars
  PROVE  TreeInv'
PROOF
<1> USE DEF OfArgument, OfEntry
<1>1. CASE StatArgument
  <2>1. /\ item' = Arguments[arg] /\ arg \in Rest /\ UNCHANGED <<members, dirs, arg>>
        /\ pc' \in {"open_argument", "write_argument"} /\ pc = "argument"
    BY <1>1, TraversalAssumption
       DEF StatArgument, PlaceInv, Rest, system, output, TypeOK
  <2>2. Archived' = Archived /\ Rest' \subseteq Rest
    BY <2>1, RestStays DEF Archived
  <2>3. QED
    BY <2>1, <2>2 DEF TreeInv
<1>2. CASE StatArgumentFails \/ OpenArgumentFails \/ WriteItemFatal
  BY <1>2, AbortedTree
     DEF StatArgumentFails, OpenArgumentFails, WriteItemFatal, Abort
<1>3. CASE OpenArgument
  BY <1>3, RestStays, SameTree DEF OpenArgument, output
<1>4. CASE WriteArgument
  <2>1. Archived' = Archived \cup {item} /\ pc = "write_argument"
    BY <1>4, ArchivingPath DEF WriteArgument
  <2>2. CASE st = "dir"
    BY <1>4, <2>1, <2>2, EnteredTree DEF WriteArgument
  <2>3. CASE st # "dir"
    BY <1>4, <2>1, <2>3, Wrote, LeftTree DEF WriteArgument
  <2>4. QED
    BY <2>2, <2>3
<1>5. CASE WriteArgumentFails
  BY <1>5, AbortedTree DEF WriteArgumentFails
<1>6. CASE OpenDirectory
  <2>1. [path |-> item, unread |-> Entries(item), handle |-> Lowest] \in Frames
    BY <1>6, LowestIsFree DEF OpenDirectory, PlaceInv, Frames, Entries
  <2>2. /\ DOMAIN dirs' = 1..(Len(dirs) + 1) /\ DOMAIN dirs = 1..Len(dirs)
        /\ Len(dirs) \in Nat /\ \A i \in DOMAIN dirs : dirs'[i] = dirs[i]
        /\ dirs'[Len(dirs) + 1].path = item
        /\ dirs'[Len(dirs) + 1].unread = Entries(item)
    BY <1>6, <2>1, Pushed DEF OpenDirectory, TypeOK
  <2>3. pc' = "read" /\ pc = "open_directory" /\ UNCHANGED <<members, arg>>
    BY <1>6 DEF OpenDirectory, output
  <2>4. Archived' = Archived /\ Rest' \subseteq Rest
    BY <2>3, RestStays DEF Archived
  <2>5. /\ item \in Archived /\ \A n \in Archived : Parent[n] # item
        /\ \A i \in DOMAIN dirs : dirs[i].path # item
    BY <2>3 DEF TreeInv
  <2>6. \A i \in DOMAIN dirs' :
          /\ dirs'[i].path \in Archived'
          /\ \A n \in dirs'[i].unread : Parent[n] = dirs'[i].path /\ n \notin Archived'
    BY <2>2, <2>4, <2>5 DEF TreeInv, Entries
  <2>7. \A i, j \in DOMAIN dirs' : dirs'[i].path = dirs'[j].path => i = j
    BY <2>2, <2>5 DEF TreeInv
  <2>8. QED
    BY <2>3, <2>4, <2>6, <2>7 DEF TreeInv
<1>7. CASE OpenDirectoryFails
  <2>1. members' = members
    BY <1>7 DEF OpenDirectoryFails
  <2>2. CASE Leave(TRUE)
    BY <2>1, <2>2, AbortedTree
  <2>3. CASE pc' = "read" /\ UNCHANGED <<arg, dirs, item, st, fd, died>>
    BY <2>1, <2>3, RestStays, SameTree
  <2>4. QED
    BY <1>7, <2>2, <2>3 DEF OpenDirectoryFails
<1>8. ASSUME NEW n \in Nodes, ReadEntry(n)
      PROVE  TreeInv'
  <2>1. /\ DOMAIN dirs' = DOMAIN dirs
        /\ \A i \in DOMAIN dirs : /\ dirs'[i].path = dirs[i].path
                                  /\ dirs'[i].unread \subseteq dirs[i].unread
        /\ n \notin dirs'[Len(dirs)].unread
    BY <1>8, EntryTaken DEF ReadEntry, TypeOK, PlaceInv
  <2>2. Len(dirs) \in DOMAIN dirs /\ n \in dirs[Len(dirs)].unread
    BY <1>8, Top DEF ReadEntry, TypeOK, PlaceInv
  <2>3. /\ item' = n /\ pc' \in {"read", "open"} /\ UNCHANGED <<members, arg>>
        /\ pc = "read"
    BY <1>8 DEF ReadEntry, output
  <2>4. Archived' = Archived /\ Rest' \subseteq Rest
    BY <2>3, RestStays DEF Archived
  <2>5. n \notin Archived /\ Parent[n] \in Archived
    BY <2>2 DEF TreeInv
  <2>6. \A i \in DOMAIN dirs : n \notin dirs'[i].unread
    BY <2>1, <2>2 DEF TreeInv
  <2>7. \A i \in DOMAIN dirs' :
          /\ dirs'[i].path \in Archived'
          /\ \A j \in DOMAIN dirs' : dirs'[i].path = dirs'[j].path => i = j
          /\ \A m \in dirs'[i].unread : Parent[m] = dirs'[i].path /\ m \notin Archived'
    BY <2>1, <2>4 DEF TreeInv
  <2>8. QED
    BY <2>1, <2>3, <2>4, <2>5, <2>6, <2>7 DEF TreeInv
<1>9. CASE EndOfDirectory \/ ReadFails
  <2>0. LeaveDirectory /\ pc = "read"
    BY <1>9 DEF EndOfDirectory, ReadFails
  <2>1. members' = members /\ pc = "read"
    BY <2>0 DEF LeaveDirectory
  <2>2. CASE Len(dirs) = 1
    BY <2>0, <2>1, <2>2, AbortedTree DEF LeaveDirectory
  <2>3. CASE Len(dirs) # 1
    <3>1. \A i \in DOMAIN dirs' : i \in DOMAIN dirs /\ dirs'[i] = dirs[i]
      BY <2>0, <2>3, Popped DEF LeaveDirectory, TypeOK, PlaceInv
    <3>2. pc' = "read" /\ arg' = arg
      BY <2>0, <2>1, <2>3 DEF LeaveDirectory
    <3>3. Archived' = Archived /\ Rest' \subseteq Rest
      BY <2>1, <3>2, RestStays DEF Archived
    <3>4. QED
      BY <3>1, <3>2, <3>3 DEF TreeInv
  <2>4. QED
    BY <2>2, <2>3
<1>10. ASSUME Skip, members' = members
       PROVE  TreeInv'
  BY <1>10, RestStays, SameTree DEF Skip
<1>11. CASE OpenItem
  <2>1. members' = members
    BY <1>11 DEF OpenItem
  <2>2. CASE ~Skip
    BY <1>11, <2>1, <2>2, RestStays, SameTree DEF OpenItem
  <2>3. QED
    BY <1>10, <2>1, <2>2
<1>12. CASE OpenLink \/ Lstat
  BY <1>12, RestStays, SameTree DEF OpenLink, Lstat, output
<1>13. CASE LstatFails \/ OpenItemFails \/ WriteItemFails \/ WriteItemFlushFails
  BY <1>10, <1>13 DEF LstatFails, OpenItemFails, WriteItemFails, WriteItemFlushFails
<1>14. CASE WriteItem
  <2>1. Archived' = Archived \cup {item} /\ pc = "write"
    BY <1>14, ArchivingPath DEF WriteItem
  <2>2. pc' \in {"open_directory", "read"} /\ UNCHANGED <<dirs, item, arg>>
    BY <1>14 DEF WriteItem, Skip
  <2>3. QED
    BY <2>1, <2>2, EnteredTree
<1>15. ASSUME NEW r \in Replacements, Replace(r)
       PROVE  TreeInv'
  BY <1>15, RestStays, SameTree DEF Replace, output
<1>16. CASE UNCHANGED vars
  BY <1>16, RestStays, SameTree DEF vars
<1>17. QED
  BY <1>1, <1>2, <1>3, <1>4, <1>5, <1>6, <1>7, <1>8, <1>9, <1>11, <1>12, <1>13,
     <1>14, <1>15, <1>16
     DEF Next, Step, Fault

LEMMA OrderStep ==
  ASSUME TypeOK, PlaceInv, TreeInv, ParentFirst, [Next]_vars
  PROVE  ParentFirst'
PROOF
<1>1. CASE members' = members
  BY <1>1 DEF ParentFirst
<1>2. ASSUME NEW f, Archive(f), pc \in {"write", "write_argument"}
      PROVE  ParentFirst'
  <2>1. item \notin Archived
    BY <1>2 DEF TreeInv, OfArgument, OfEntry
  <2>2. Parent[item] = "none" \/ Parent[item] \in Archived
    BY <1>2, ArgumentNodes DEF TreeInv, PlaceInv, OfArgument, OfEntry
  <2>3. /\ DOMAIN members' = 1..(Len(members) + 1)
        /\ DOMAIN members = 1..Len(members) /\ Len(members) \in Nat
        /\ \A i \in DOMAIN members : members'[i] = members[i]
        /\ \A i \in DOMAIN members' \ DOMAIN members :
             i = Len(members) + 1 /\ members'[i].path = item
    BY <1>2, Archiving
  <2>4. SUFFICES ASSUME NEW i \in DOMAIN members'
                 PROVE  LET p == Parent[members'[i].path] IN
                        /\ p # "none" => \E j \in 1..(i - 1) : members'[j].path = p
                        /\ \A j \in 1..(i - 1) : members'[j].path # members'[i].path
    BY DEF ParentFirst
  <2>5. \A j \in 1..(i - 1) : j \in DOMAIN members /\ members'[j] = members[j]
    BY <2>3
  <2>6. CASE i \in DOMAIN members
    BY <2>3, <2>5, <2>6 DEF ParentFirst
  <2>7. CASE i \notin DOMAIN members
    <3>1. members'[i].path = item /\ 1..(i - 1) = DOMAIN members
      BY <2>3, <2>7
    <3>2. \A j \in 1..(i - 1) : members'[j].path # item
      BY <2>1, <2>5, <3>1 DEF Archived
    <3>3. Parent[item] # "none" =>
            \E j \in 1..(i - 1) : members'[j].path = Parent[item]
      <4>1. Parent[item] # "none" =>
              \E j \in DOMAIN members : members[j].path = Parent[item]
        BY <2>2 DEF Archived
      <4>2. QED
        BY <2>3, <3>1, <4>1
    <3>4. QED
      BY <3>1, <3>2, <3>3
  <2>8. QED
    BY <2>6, <2>7
<1>3. QED
  BY <1>1, <1>2, MembersStep DEF WriteArgument, WriteItem

-----------------------------------------------------------------------------
\* A directory above something asked for is seen as one, unless it or what it is
\* in was replaced.
LEMMA SeenUnlessChanged ==
  ASSUME ChangedInv, NEW n \in Asked, NEW a \in Above[n], ~Changed(n)
  PROVE  /\ Seen(a) = "dir"
         /\ "follow" \notin flags => Itself(a) = "dir"
PROOF
<1>1. n \in Nodes /\ a \in Nodes /\ Above[a] \subseteq Above[n]
  BY AboveNodes, AboveAbove DEF Asked
<1>2. \A b \in Above[n] : kind[b] = Kind[b] /\ IsDirectory(b)
  <2>1. ASSUME NEW b \in Above[n] PROVE kind[b] = Kind[b]
    BY <1>1, <2>1, AboveNodes DEF Changed, ChangedInv
  <2>2. QED
    BY <2>1 DEF Asked
<1>3. \A b \in Above[n] : Resolved(b) = "dir"
  BY <1>2 DEF IsDirectory, Resolved
<1>4. Reached(a)
  BY <1>1, <1>3 DEF Reached
<1>5. "follow" \notin flags => Itself(a) = "dir"
  BY <1>2, <1>4 DEF Itself, IsDirectory
<1>6. Target(a) = "dir"
  BY <1>3, <1>4 DEF Target
<1>7. QED
  BY <1>5, <1>6 DEF Seen

\* What other processes do is on record.
LEMMA KindStep ==
  ASSUME [Next]_vars
  PROVE  \/ kind' = kind
         \/ \E r \in Replacements : Replace(r)
PROOF
<1>1. CASE Step
  BY <1>1 DEF Step, StatArgument, StatArgumentFails, OpenArgument,
    OpenArgumentFails, WriteArgument, OpenDirectory, OpenDirectoryFails, ReadEntry,
    EndOfDirectory, LeaveDirectory, OpenItem, OpenLink, Lstat, LstatFails,
    OpenItemFails, WriteItem,
    Abort, Skip, system
<1>2. CASE Fault
  BY <1>2 DEF Fault, WriteArgumentFails, ReadFails, LeaveDirectory, WriteItemFails,
    WriteItemFlushFails, WriteItemFatal, Abort, Skip
<1>3. QED
  BY <1>1, <1>2 DEF Next, vars

LEMMA RecordStep ==
  ASSUME TypeOK, ChangedInv, [Next]_vars
  PROVE  ChangedInv'
PROOF
<1>1. SUFFICES ASSUME NEW n \in Nodes, kind'[n] # Kind[n]
               PROVE  \E r \in changed' : r[1] = n
  BY DEF ChangedInv
<1>2. CASE kind'[n] = kind[n]
  BY <1>1, <1>2, ChangedStep DEF ChangedInv
<1>3. CASE kind'[n] # kind[n]
  <2>1. PICK r \in Replacements : Replace(r)
    BY <1>3, KindStep
  <2>2. r[1] = n /\ r \in changed'
    BY <1>3, <2>1 DEF Replace, TypeOK
  <2>3. QED
    BY <2>2
<1>4. QED
  BY <1>2, <1>3

\* What is settled stays so.
LEMMA WarnedStep ==
  ASSUME [Next]_vars
  PROVE  warned \subseteq warned' /\ lost \subseteq lost'
PROOF
<1>1. CASE Step
  BY <1>1 DEF Step, StatArgument, StatArgumentFails, OpenArgument,
    OpenArgumentFails, WriteArgument, OpenDirectory, OpenDirectoryFails, ReadEntry,
    EndOfDirectory, LeaveDirectory, OpenItem, OpenLink, Lstat, LstatFails,
    OpenItemFails, WriteItem,
    Abort, output
<1>2. CASE Fault \/ \E r \in Replacements : Replace(r)
  BY <1>2 DEF Fault, WriteArgumentFails, ReadFails, LeaveDirectory, WriteItemFails,
    WriteItemFlushFails, WriteItemFatal, Replace, Abort, output
<1>3. QED
  BY <1>1, <1>2 DEF Next, vars

LEMMA ChangedStays ==
  ASSUME [Next]_vars, NEW n, Changed(n)
  PROVE  Changed(n)'
BY ChangedStep DEF Changed

LEMMA SettledStays ==
  ASSUME TypeOK, [Next]_vars, NEW n \in Nodes, Settled(n)
  PROVE  Settled(n)'
PROOF
<1>1. Archived \subseteq Archived'
  BY ArchivedStep
<1>2. /\ warned \cup lost \subseteq warned' \cup lost' /\ flags' = flags
  BY WarnedStep, FlagsStay
<1>3. CASE Changed(n)
  BY <1>3, ChangedStays DEF Settled
<1>4. CASE ~Changed(n)
  BY <1>1, <1>2, <1>4 DEF Settled
<1>5. QED
  BY <1>3, <1>4

\* All that is left to do but for x stays so: what is asked for is still settled
\* or to come, if that which x leads to is.
LEMMA Onward ==
  ASSUME TypeOK, ProgressInv, ~died, [Next]_vars,
         pc # "open_directory", NEW x, Todo \subseteq Todo' \cup {x},
         \A n \in Asked : x \in {n} \cup Above[n] => Settled(n)' \/ ToCome(n)'
  PROVE  \A n \in Asked' : Settled(n)' \/ ToCome(n)'
PROOF
<1>1. SUFFICES ASSUME NEW n \in Asked
               PROVE  Settled(n)' \/ ToCome(n)'
  BY AskedSame, FlagsStay
<1>2. n \in Nodes
  BY DEF Asked
<1>3. CASE Settled(n)
  BY <1>2, <1>3, SettledStays
<1>4. CASE ~Settled(n)
  <2>1. PICK y \in {n} \cup Above[n] : y \in Todo
    BY <1>4 DEF ProgressInv, ToCome
  <2>2. CASE y = x
    BY <2>1, <2>2
  <2>3. CASE y # x
    BY <2>1, <2>3 DEF ToCome
  <2>4. QED
    BY <2>2, <2>3
<1>5. QED
  BY <1>3, <1>4

\* An entry that was reported or lost is settled, and all that is below it.
LEMMA Reported ==
  ASSUME NEW x, x \in warned' \cup lost', NEW n, x \in {n} \cup Above[n]
  PROVE  Settled(n)'
BY DEF Settled

\* The arguments that remain, from one to the next.
LEMMA RestKept ==
  ASSUME TypeOK, pc \notin {"argument", "done"},
         \/ arg' = arg /\ pc' \notin {"argument", "done"}
         \/ arg' = arg + 1 /\ pc' \in {"argument", "done"}
  PROVE  Rest' = Rest
PROOF
<1>1. DOMAIN Arguments \subseteq Nat /\ arg \in Nat
  BY TraversalAssumption DEF TypeOK
<1>2. QED
  BY <1>1 DEF Rest

\* The walk of an argument is over.
LEMMA LeftTodo ==
  ASSUME TypeOK, pc \notin {"argument", "done"}, NEW b, Leave(b),
         \A i \in DOMAIN dirs : dirs[i].unread = {}
  PROVE  Todo \subseteq Todo' \cup {item}
PROOF
<1>1. arg' = arg + 1 /\ pc' \in {"argument", "done"}
  BY DEF Leave
<1>2. Rest' = Rest
  BY <1>1, RestKept
<1>3. Unread = {}
  BY DEF Unread
<1>4. QED
  BY <1>2, <1>3 DEF Todo

\* The entry is done with, or the same one is dealt with.
LEMMA SameTodo ==
  ASSUME TypeOK, pc \notin {"argument", "done"}, pc' \notin {"argument", "done"},
         UNCHANGED <<arg, dirs>>
  PROVE  /\ Todo \subseteq Todo' \cup {item}
         /\ pc' \in OfArgument \cup OfEntry /\ item' = item => Todo \subseteq Todo'
PROOF
<1>1. Rest' = Rest
  BY RestKept
<1>2. Unread' = Unread
  BY DEF Unread
<1>3. QED
  BY <1>1, <1>2 DEF Todo

LEMMA SeenStep ==
  ASSUME TypeOK, PlaceInv, ChangedInv, SeenInv, [Next]_vars
  PROVE  SeenInv'
PROOF
<1>1. CASE pc' \notin {"open_argument", "write_argument", "write"}
  BY <1>1 DEF SeenInv
<1>2. ASSUME kind' = kind,
             st' = Seen(item') \/ ("follow" \notin flags /\ st' = Itself(item'))
      PROVE  SeenInv'
  <2>1. SUFFICES ASSUME NEW n \in Asked, item' \in Above[n]
                 PROVE  st' = "dir" \/ Changed(n)'
    BY AskedSame, FlagsStay DEF SeenInv
  <2>2. Changed(n) => Changed(n)'
    BY ChangedStays
  <2>3. QED
    BY <1>2, <2>1, <2>2, SeenUnlessChanged
<1>3. ASSUME pc \in {"open_argument", "write_argument", "write"},
             UNCHANGED <<item, st>>
      PROVE  SeenInv'
  <2>1. SUFFICES ASSUME NEW n \in Asked, item \in Above[n]
                 PROVE  st = "dir" \/ Changed(n)'
    BY <1>3, AskedSame, FlagsStay DEF SeenInv
  <2>2. n \in Nodes
    BY DEF Asked
  <2>3. QED
    BY <1>3, <2>1, <2>2, ChangedStays DEF SeenInv
<1>4. CASE StatArgument
  BY <1>2, <1>4 DEF StatArgument, system
<1>5. CASE OpenArgument
  BY <1>3, <1>5 DEF OpenArgument
<1>6. CASE OpenItem
  BY <1>1, <1>2, <1>6 DEF OpenItem, Skip
<1>7. CASE Lstat
  BY <1>2, <1>7 DEF Lstat, PlaceInv, system
<1>8. CASE StatArgumentFails \/ OpenArgumentFails \/ WriteItemFatal
              \/ WriteArgumentFails \/ WriteArgument
  BY <1>1, <1>8 DEF StatArgumentFails, OpenArgumentFails, WriteItemFatal,
    WriteArgumentFails, WriteArgument, Abort, Leave
<1>9. CASE OpenDirectory \/ OpenDirectoryFails \/ EndOfDirectory \/ ReadFails
              \/ \E n \in Nodes : ReadEntry(n)
  BY <1>1, <1>9 DEF OpenDirectory, OpenDirectoryFails, EndOfDirectory, ReadFails,
    LeaveDirectory, ReadEntry, Leave
<1>10. CASE OpenLink \/ LstatFails \/ OpenItemFails \/ WriteItem \/ WriteItemFails
              \/ WriteItemFlushFails
  BY <1>1, <1>10 DEF OpenLink, LstatFails, OpenItemFails, WriteItem, WriteItemFails,
    WriteItemFlushFails, Skip
<1>11. CASE (\E r \in Replacements : Replace(r)) \/ UNCHANGED vars
  BY <1>1, <1>3, <1>11 DEF Replace, vars
<1>12. QED
  BY <1>4, <1>5, <1>6, <1>7, <1>8, <1>9, <1>10, <1>11 DEF Next, Step, Fault

\* At first all is still to come.
LEMMA InitProgress == Init => ProgressInv /\ SeenInv
PROOF
<1>1. SUFFICES ASSUME Init, NEW n \in Asked
               PROVE  ToCome(n) /\ SeenInv
  BY DEF ProgressInv, Init, SeenInv
<1>2. PICK i \in DOMAIN Arguments : Arguments[i] \in {n} \cup Above[n]
  BY DEF Asked, ToSet
<1>3. pc = "argument" /\ arg = 1 /\ i >= 1
  BY <1>1, <1>2, TraversalAssumption DEF Init
<1>4. i \in Rest
  BY <1>3 DEF Rest
<1>5. ToCome(n)
  BY <1>2, <1>4 DEF ToCome, Todo
<1>6. QED
  BY <1>3, <1>5 DEF SeenInv

\* Without a standard input its number is the first that open() returns.
LEMMA LowestZero ==
  ASSUME Free # {}
  PROVE  0 \in open_fds \cup {Lowest}
PROOF
<1>1. SUFFICES ASSUME 0 \notin open_fds PROVE Lowest = 0
  OBVIOUS
<1>2. 0 \in Free /\ Free \subseteq Nat
  BY <1>1, TraversalAssumption DEF Free
<1>3. \E f \in Free : \A g \in Free : f <= g
  BY <1>2
<1>4. Lowest \in Free /\ Lowest <= 0
  BY <1>2, <1>3 DEF Lowest
<1>5. QED
  BY <1>2, <1>4

LEMMA ProgressStep ==
  ASSUME TypeOK, PlaceInv, EntriesInv, ChangedInv, SeenInv, ProgressInv, [Next]_vars
  PROVE  ProgressInv'
PROOF
<1> USE DEF OfArgument, OfEntry
<1>1. SUFFICES ASSUME ~died'
               PROVE  \A n \in Asked' : Settled(n)' \/ ToCome(n)'
  BY DEF ProgressInv
<1>2. CASE UNCHANGED vars
  BY <1>1, <1>2, AskedSame, FlagsStay
     DEF ProgressInv, vars, Settled, ToCome, Todo, Unread, Rest, Changed, Archived
<1>3. ASSUME ~died, pc # "open_directory", NEW x, Todo \subseteq Todo' \cup {x},
             x \in warned' \cup lost'
      PROVE  \A n \in Asked' : Settled(n)' \/ ToCome(n)'
  BY <1>3, Onward, Reported
<1>4. ASSUME ~died, pc # "open_directory", Todo \subseteq Todo'
      PROVE  \A n \in Asked' : Settled(n)' \/ ToCome(n)'
  <2>1. PICK x : x \notin Nodes
    BY TraversalAssumption
  <2>2. \A n \in Asked : x \notin {n} \cup Above[n]
    BY <2>1, AboveNodes DEF Asked
  <2>3. QED
    BY <1>4, <2>2, Onward
<1>5. CASE StatArgument
  <2>1. /\ item' = Arguments[arg] /\ pc' \in OfArgument /\ pc = "argument"
        /\ UNCHANGED <<arg, dirs>> /\ dirs = <<>> /\ ~died
    BY <1>5 DEF StatArgument, PlaceInv
  <2>2. \A i \in Rest : i = arg \/ i \in Rest'
    BY <2>1, TraversalAssumption DEF Rest, TypeOK
  <2>3. Unread' = Unread
    BY <2>1 DEF Unread
  <2>4. Todo \subseteq Todo'
    BY <2>1, <2>2, <2>3 DEF Todo
  <2>5. QED
    BY <1>4, <2>1, <2>4
<1>6. CASE StatArgumentFails \/ OpenArgumentFails \/ WriteItemFatal
              \/ WriteArgumentFails
  BY <1>1, <1>6, Zenon DEF StatArgumentFails, OpenArgumentFails, WriteItemFatal,
    WriteArgumentFails, Abort, Leave
<1>7. CASE OpenArgument \/ OpenLink \/ Lstat
  <2>1. /\ pc \in OfArgument \cup OfEntry /\ pc' \in OfArgument \cup OfEntry
        /\ UNCHANGED <<arg, dirs, item>> /\ ~died
    BY <1>7 DEF OpenArgument, OpenLink, Lstat, PlaceInv
  <2>2. Todo \subseteq Todo'
    BY <2>1, SameTodo
  <2>3. QED
    BY <1>4, <2>1, <2>2
\* An entry, or argument, that was archived: what is below it is still to come
\* if it is a directory, and has changed if it is not seen to be one.
<1>8. ASSUME pc \in {"write", "write_argument"}, Archived' = Archived \cup {item},
             Todo \subseteq Todo' \cup {item}, ~died, kind' = kind,
             st = "dir" => pc' = "open_directory" /\ item' = item
      PROVE  \A n \in Asked' : Settled(n)' \/ ToCome(n)'
  <2>1. SUFFICES ASSUME NEW n \in Asked, item \in {n} \cup Above[n]
                 PROVE  Settled(n)' \/ ToCome(n)'
    BY <1>8, Onward
  <2>2. CASE item = n
    BY <1>8, <2>2 DEF Settled
  <2>3. CASE item \in Above[n]
    <3>1. CASE st = "dir"
      BY <1>8, <2>3, <3>1 DEF ToCome
    <3>2. CASE st # "dir"
      <4>1. Changed(n)
        BY <1>8, <2>3, <3>2 DEF SeenInv
      <4>2. Changed(n)'
        BY <4>1, ChangedStays
      <4>3. QED
        BY <4>2 DEF Settled
    <3>3. QED
      BY <3>1, <3>2
  <2>4. QED
    BY <2>1, <2>2, <2>3
<1>9. CASE WriteArgument
  <2>1. /\ Archived' = Archived \cup {item} /\ pc = "write_argument" /\ ~died
        /\ dirs = <<>> /\ kind' = kind
    BY <1>9, ArchivingPath DEF WriteArgument, PlaceInv
  <2>2. CASE st = "dir"
    <3>1. pc' = "open_directory" /\ UNCHANGED <<arg, dirs, item>>
      BY <1>9, <2>2 DEF WriteArgument
    <3>2. Todo \subseteq Todo' \cup {item}
      BY <2>1, <3>1, SameTodo
    <3>3. QED
      BY <1>8, <2>1, <3>1, <3>2
  <2>3. CASE st # "dir"
    <3>1. Leave(FALSE)
      BY <1>9, <2>3 DEF WriteArgument
    <3>2. \A i \in DOMAIN dirs : dirs[i].unread = {}
      BY <2>1
    <3>3. Todo \subseteq Todo' \cup {item}
      BY <2>1, <3>1, <3>2, LeftTodo
    <3>4. QED
      BY <1>8, <2>1, <2>3, <3>3
  <2>4. QED
    BY <2>2, <2>3
<1>10. CASE OpenDirectory
  <2>1. [path |-> item, unread |-> Entries(item), handle |-> Lowest] \in Frames
    BY <1>10, LowestIsFree DEF OpenDirectory, PlaceInv, Frames, Entries
  <2>2. /\ DOMAIN dirs' = 1..(Len(dirs) + 1) /\ DOMAIN dirs = 1..Len(dirs)
        /\ Len(dirs) \in Nat /\ \A i \in DOMAIN dirs : dirs'[i] = dirs[i]
        /\ dirs'[Len(dirs) + 1].unread = Entries(item)
    BY <1>10, <2>1, Pushed DEF OpenDirectory, TypeOK
  <2>3. /\ pc = "open_directory" /\ pc' = "read" /\ arg' = arg /\ ~died
        /\ kind' = kind
    BY <1>10 DEF OpenDirectory, PlaceInv
  <2>4. Unread' = Unread \cup Entries(item)
    BY <2>2 DEF Unread
  <2>5. Todo' = Todo \cup Entries(item)
    BY <2>3, <2>4, RestKept DEF Todo
  <2>6. SUFFICES ASSUME NEW n \in Asked, ~Settled(n)
                 PROVE  Settled(n)' \/ ToCome(n)'
    BY AskedSame, FlagsStay, SettledStays DEF Asked
  <2>7. n \in Nodes
    BY DEF Asked
  <2>8. CASE item \in Above[n]
    <3>1. PICK c \in {n} \cup Above[n] : Parent[c] = item
      BY <2>7, <2>8, WayDown
    <3>2. c \in Nodes
      BY <2>7, AboveNodes
    <3>3. CASE kind[c] = "gone"
      <4>1. Kind[c] # "gone"
        BY <3>2, TraversalAssumption
      <4>2. QED
        BY <2>6, <3>1, <3>2, <3>3, <4>1 DEF Settled, Changed, ChangedInv
    <3>4. CASE kind[c] # "gone"
      <4>1. c \in Todo'
        BY <2>5, <3>1, <3>2, <3>4 DEF Entries
      <4>2. QED
        BY <3>1, <4>1 DEF ToCome
    <3>5. QED
      BY <3>3, <3>4
  <2>9. CASE item \notin Above[n]
    <3>1. ({n} \cup Above[n]) \cap Todo # {}
      BY <2>3, <2>6, <2>9 DEF ProgressInv, ToCome
    <3>2. QED
      BY <2>5, <3>1 DEF ToCome
  <2>10. QED
    BY <2>8, <2>9
<1>11. CASE OpenDirectoryFails
  <2>1. item \in warned' /\ pc = "open_directory" /\ ~died
    BY <1>11 DEF OpenDirectoryFails, PlaceInv
  <2>2. CASE Leave(TRUE)
    BY <1>1, <2>2, Zenon DEF Leave
  <2>3. CASE pc' = "read" /\ UNCHANGED <<arg, dirs, item, st, fd, died>>
    <3>1. Unread' = Unread /\ Rest' = Rest
      BY <2>1, <2>3, RestKept DEF Unread
    <3>2. Todo \subseteq Todo'
      BY <2>1, <3>1 DEF Todo
    <3>3. SUFFICES ASSUME NEW n \in Asked, ~Settled(n)
                   PROVE  Settled(n)' \/ ToCome(n)'
      BY AskedSame, FlagsStay, SettledStays DEF Asked
    <3>4. CASE item \in Above[n]
      BY <2>1, <3>4, Reported
    <3>5. CASE item \notin Above[n]
      <4>1. ({n} \cup Above[n]) \cap Todo # {}
        BY <2>1, <3>3, <3>5 DEF ProgressInv, ToCome
      <4>2. QED
        BY <3>2, <4>1 DEF ToCome
    <3>6. QED
      BY <3>4, <3>5
  <2>4. QED
    BY <1>11, <2>2, <2>3 DEF OpenDirectoryFails
<1>12. ASSUME NEW m \in Nodes, ReadEntry(m)
       PROVE  \A n \in Asked' : Settled(n)' \/ ToCome(n)'
  <2>1. /\ DOMAIN dirs' = DOMAIN dirs
        /\ \A i \in DOMAIN dirs :
             i # Len(dirs) => dirs'[i].unread = dirs[i].unread
        /\ dirs'[Len(dirs)].unread = dirs[Len(dirs)].unread \ {m}
        /\ Len(dirs) \in DOMAIN dirs /\ m \in dirs[Len(dirs)].unread
    BY <1>12, EntryTaken, Top DEF ReadEntry, TypeOK, PlaceInv
  <2>2. /\ pc = "read" /\ pc' \in {"read", "open"} /\ arg' = arg /\ item' = m
        /\ m \notin MatchedPaths => pc' = "open"
        /\ ~died
    BY <1>12 DEF ReadEntry, PlaceInv
  <2>3. Unread \subseteq Unread' \cup {m}
    BY <2>1 DEF Unread
  <2>4. Todo \subseteq Todo' \cup {m}
    BY <2>2, <2>3, RestKept DEF Todo
  <2>5. CASE m \in MatchedPaths
    <3>1. Parent[m] = dirs[Len(dirs)].path /\ dirs[Len(dirs)] \in Frames
      BY <2>1 DEF EntriesInv, TypeOK
    <3>2. Parent[m] # "none"
      BY <3>1, TraversalAssumption DEF Frames
    <3>3. \A n \in Asked : m \notin {n} \cup Above[n]
      BY <2>5, <3>2 DEF Asked
    <3>4. QED
      BY <2>2, <2>4, <3>3, Onward
  <2>6. CASE m \notin MatchedPaths
    <3>1. m \in Todo'
      BY <2>2, <2>6 DEF Todo
    <3>2. QED
      BY <1>4, <2>2, <2>4, <3>1
  <2>7. QED
    BY <2>5, <2>6
<1>13. CASE EndOfDirectory \/ ReadFails
  <2>1. /\ Len(dirs) \in DOMAIN dirs /\ Last(dirs) = dirs[Len(dirs)]
        /\ pc = "read" /\ ~died /\ LeaveDirectory
        /\ DOMAIN dirs = 1..Len(dirs)
    BY <1>13, Top DEF EndOfDirectory, ReadFails, TypeOK, PlaceInv
  <2>2. dirs[Len(dirs)].unread \subseteq lost'
    BY <1>13, <2>1 DEF EndOfDirectory, ReadFails
  <2>3. Rest' = Rest /\ Unread \subseteq Unread' \cup dirs[Len(dirs)].unread
    <3>1. CASE Len(dirs) = 1
      <4>1. Leave(FALSE)
        BY <2>1, <3>1 DEF LeaveDirectory
      <4>2. Rest' = Rest
        BY <2>1, <4>1, RestKept DEF Leave
      <4>3. Unread = dirs[Len(dirs)].unread
        BY <2>1, <3>1 DEF Unread
      <4>4. QED
        BY <4>2, <4>3
    <3>2. CASE Len(dirs) # 1
      <4>1. /\ DOMAIN dirs' = 1..(Len(dirs) - 1) /\ Len(dirs) \in Nat
            /\ \A i \in DOMAIN dirs' : i \in DOMAIN dirs /\ dirs'[i] = dirs[i]
        BY <2>1, <3>2, Popped DEF LeaveDirectory, TypeOK, PlaceInv
      <4>2. \A i \in DOMAIN dirs : i \in DOMAIN dirs' \/ i = Len(dirs)
        BY <2>1, <4>1
      <4>3. pc' = "read" /\ arg' = arg
        BY <2>1, <3>2 DEF LeaveDirectory
      <4>4. QED
        BY <2>1, <4>1, <4>2, <4>3, RestKept DEF Unread
    <3>3. QED
      BY <3>1, <3>2
  <2>4. Todo \subseteq Todo' \cup lost'
    BY <2>1, <2>2, <2>3 DEF Todo
  <2>5. SUFFICES ASSUME NEW n \in Asked, ~Settled(n)
                 PROVE  Settled(n)' \/ ToCome(n)'
    BY AskedSame, FlagsStay, SettledStays DEF Asked
  <2>6. PICK y \in {n} \cup Above[n] : y \in Todo
    BY <2>1, <2>5 DEF ProgressInv, ToCome
  <2>7. CASE y \in lost'
    BY <2>6, <2>7, Reported
  <2>8. CASE y \in Todo'
    BY <2>6, <2>8 DEF ToCome
  <2>9. QED
    BY <2>4, <2>6, <2>7, <2>8
<1>14. ASSUME Skip, pc \in OfEntry, item \in warned' \cup lost'
       PROVE  \A n \in Asked' : Settled(n)' \/ ToCome(n)'
  <2>1. pc' = "read" /\ UNCHANGED <<arg, dirs>> /\ ~died
    BY <1>14 DEF Skip, PlaceInv
  <2>2. Todo \subseteq Todo' \cup {item}
    BY <1>14, <2>1, SameTodo
  <2>3. QED
    BY <1>3, <1>14, <2>1, <2>2
<1>15. CASE OpenItem
  <2>1. fd \in open_fds \cup {Lowest}
    BY <1>15, LowestZero DEF OpenItem, PlaceInv
  <2>2. pc = "open" /\ pc' = "write" /\ UNCHANGED <<arg, dirs, item>> /\ ~died
    BY <1>15, <2>1 DEF OpenItem, PlaceInv
  <2>3. Todo \subseteq Todo'
    BY <2>2, SameTodo
  <2>4. QED
    BY <1>4, <2>2, <2>3
<1>16. CASE LstatFails \/ WriteItemFails \/ WriteItemFlushFails
  BY <1>14, <1>16 DEF LstatFails, WriteItemFails, WriteItemFlushFails
<1>17. CASE OpenItemFails
  <2>1. CASE item \in warned'
    BY <1>14, <1>17, <2>1 DEF OpenItemFails
  <2>2. CASE item \notin warned'
    <3>1. "sockets" \in flags /\ Target(item) = "socket" /\ item \in Nodes
      BY <1>17, <2>2 DEF OpenItemFails, PlaceInv
    <3>2. kind[item] = "socket"
      BY <3>1, TraversalAssumption DEF Target, Resolved
    <3>3. /\ pc = "open" /\ pc' = "read" /\ UNCHANGED <<arg, dirs, flags, kind>>
          /\ ~died
      BY <1>17 DEF OpenItemFails, Skip, PlaceInv, given
    <3>4. Todo \subseteq Todo' \cup {item}
      BY <3>3, SameTodo
    <3>5. ASSUME NEW n \in Asked, item \in {n} \cup Above[n]
          PROVE  Settled(n)'
      <4>1. CASE kind[item] # Kind[item]
        <5>1. Changed(n)
          BY <3>1, <3>5, <4>1 DEF Changed, ChangedInv
        <5>2. QED
          BY <5>1, ChangedStays DEF Settled
      <4>2. CASE kind[item] = Kind[item]
        <5>1. item \notin Above[n]
          BY <3>2, <4>2 DEF Asked, IsDirectory
        <5>2. QED
          BY <3>1, <3>2, <3>3, <3>5, <4>2, <5>1 DEF Settled
      <4>3. QED
        BY <4>1, <4>2
    <3>6. QED
      BY <3>3, <3>4, <3>5, Onward
  <2>3. QED
    BY <2>1, <2>2
<1>18. CASE WriteItem
  <2>1. /\ Archived' = Archived \cup {item} /\ pc = "write" /\ ~died
        /\ kind' = kind /\ UNCHANGED <<arg, dirs, item>>
        /\ pc' \in {"read", "open_directory"}
        /\ st = "dir" => pc' = "open_directory"
    BY <1>18, ArchivingPath DEF WriteItem, Skip, system, PlaceInv
  <2>2. Todo \subseteq Todo' \cup {item}
    BY <2>1, SameTodo
  <2>3. QED
    BY <1>8, <2>1, <2>2
<1>19. ASSUME NEW r \in Replacements, Replace(r)
       PROVE  \A n \in Asked' : Settled(n)' \/ ToCome(n)'
  <2>1. UNCHANGED <<arg, pc, dirs, item, died>>
    BY <1>19 DEF Replace, output
  <2>2. Todo' = Todo
    BY <2>1 DEF Todo, Rest, Unread
  <2>3. \A n : ToCome(n)' <=> ToCome(n)
    BY <2>1, <2>2 DEF ToCome
  <2>4. QED
    BY <1>1, <2>1, <2>3, AskedSame, FlagsStay, SettledStays DEF ProgressInv, Asked
<1>20. QED
  BY <1>2, <1>5, <1>6, <1>7, <1>9, <1>10, <1>11, <1>12, <1>13, <1>15, <1>16, <1>17,
     <1>18, <1>19
     DEF Next, Step, Fault

-----------------------------------------------------------------------------
\* The walk is always where its state says: a directory is on the stack while its
\* entries are dealt with, an argument while it is, and so on.
THEOREM TypeCorrect == Spec => [](TypeOK /\ PlaceInv)
PROOF
<1>1. Init => TypeOK /\ PlaceInv
  BY InitType
<1>2. (TypeOK /\ PlaceInv) /\ [Next]_vars => (TypeOK /\ PlaceInv)'
  BY TypeStep
<1>3. QED
  BY <1>1, <1>2, PTL DEF Spec

\* What is unread of a directory is in it.
THEOREM EntriesOfDirectories == Spec => []EntriesInv
PROOF
<1>1. Init => EntriesInv
  BY DEF Init, EntriesInv
<1>2. TypeOK /\ PlaceInv /\ EntriesInv /\ [Next]_vars => EntriesInv'
  BY EntriesStep
<1>3. QED
  BY <1>1, <1>2, TypeCorrect, PTL DEF Spec

\* Where there is a standard input, descriptors in use are always those from
\* before and those the walk accounts for.
THEOREM DescriptorsAccounted == Spec => [](0 \in before => FdInv)
PROOF
<1> DEFINE Inv == 0 \in before => FdInv
<1>1. Init => Inv
  BY InitFd
<1>2. TypeOK /\ PlaceInv /\ Inv /\ [Next]_vars => Inv'
  BY FdStep, FlagsStay
<1>3. QED
  BY <1>1, <1>2, TypeCorrect, PTL DEF Spec

\* Whichever way b_find() returns, it has closed all that it opened, where there
\* is a standard input.
THEOREM NothingLeaks == Spec => []NoDescriptorLeaks
PROOF
<1>1. PlaceInv /\ (0 \in before => FdInv) => NoDescriptorLeaks
  <2>1. SUFFICES ASSUME PlaceInv, FdInv, pc \in {"argument", "done"}
                 PROVE  open_fds = before
    BY DEF NoDescriptorLeaks
  <2>2. dirs = <<>> /\ fd = 0 /\ item_fd = 0
    BY <2>1 DEF PlaceInv, FdInv
  <2>3. Handles = {} /\ Held = {}
    BY <2>2 DEF Handles, Held
  <2>4. QED
    BY <2>1, <2>3 DEF FdInv
<1>2. QED
  BY <1>1, TypeCorrect, DescriptorsAccounted, PTL

\* Where there is a standard input, a regular file is archived with a descriptor
\* its body is read from, but for a path that was made a regular file meanwhile,
\* as a symbolic link may be between open() and lstat().
THEOREM SizesMatch == Spec => []BodiesFollow
PROOF
<1> DEFINE Inv == BodiesFollow /\ (0 \in before => SizeInv)
<1>1. Init => Inv
  BY InitSize
<1>2. TypeOK /\ PlaceInv /\ (0 \in before => FdInv) /\ Inv /\ [Next]_vars => Inv'
  BY SizeStep, FlagsStay DEF BodiesFollow
<1>3. QED
  BY <1>1, <1>2, TypeCorrect, DescriptorsAccounted, PTL DEF Spec

\* Every directory precedes what is in it, and nothing is archived twice, if no
\* argument is given twice.
THEOREM ParentsFirst ==
  ASSUME DistinctArguments
  PROVE  Spec => []ParentFirst
PROOF
<1>1. Init => TreeInv /\ ParentFirst
  BY InitTree
<1>2. TypeOK /\ PlaceInv /\ (TreeInv /\ ParentFirst) /\ [Next]_vars
        => (TreeInv /\ ParentFirst)'
  BY TreeStep, OrderStep
<1>3. QED
  BY <1>1, <1>2, TypeCorrect, PTL DEF Spec

\* Nothing that is excluded, or in an excluded directory, is archived, nor what
\* is in a symbolic link that is not followed.
THEOREM ExclusionsKept ==
  ASSUME NewDirectories
  PROVE  Spec => []ExcludedByPath
PROOF
<1>1. Init => AskedInv /\ ExcludedByPath
  BY InitAsked
<1>2. TypeOK /\ PlaceInv /\ EntriesInv /\ (AskedInv /\ ExcludedByPath) /\ [Next]_vars
        => (AskedInv /\ ExcludedByPath)'
  <2>1. SUFFICES ASSUME TypeOK, PlaceInv, EntriesInv, AskedInv, ExcludedByPath, [Next]_vars
                 PROVE  AskedInv' /\ ExcludedByPath'
    OBVIOUS
  <2>2. pc \in {"write", "write_argument"} => item \in Asked
    BY <2>1 DEF AskedInv, OfArgument, OfEntry
  <2>3. ExcludedByPath'
    BY <2>1, <2>2, ArchivedStep, FlagsStay, AskedSame DEF ExcludedByPath
  <2>4. QED
    BY <2>1, <2>3, AskedStep
<1>3. QED
  BY <1>1, <1>2, TypeCorrect, EntriesOfDirectories, PTL DEF Spec

\* When archive_as() returns, all that was asked for is archived or reported,
\* unless it was an ignored socket, or it or a directory it is in was lost to a
\* flush or a readdir() that failed, or was changed by another process.
THEOREM NothingMissing == Spec => []NothingMissingUnreported
PROOF
<1> DEFINE Inv == ChangedInv /\ ProgressInv /\ SeenInv
<1>1. Init => Inv
  BY InitProgress DEF Init, ChangedInv
<1>2. TypeOK /\ PlaceInv /\ EntriesInv /\ Inv /\ [Next]_vars => Inv'
  BY ProgressStep, SeenStep, RecordStep
<1>3. TypeOK /\ PlaceInv /\ Inv => NothingMissingUnreported
  <2>1. SUFFICES ASSUME TypeOK, PlaceInv, ProgressInv, pc = "done", ~died,
                        NEW n \in Asked
                 PROVE  Settled(n)
    BY DEF NothingMissingUnreported, Settled, Changed
  <2>2. PICK y \in {n} \cup Above[n] : Settled(n) \/ y \in Todo
    BY <2>1 DEF ProgressInv, ToCome
  <2>3. dirs = <<>>
    BY <2>1 DEF PlaceInv
  <2>4. Todo = {Arguments[i] : i \in Rest}
    BY <2>1, <2>3 DEF Todo, Unread, OfArgument, OfEntry
  <2>5. Rest = {}
    BY <2>1, TraversalAssumption DEF PlaceInv, TypeOK, Rest
  <2>6. QED
    BY <2>2, <2>4, <2>5
<1>4. QED
  BY <1>1, <1>2, <1>3, TypeCorrect, EntriesOfDirectories, PTL DEF Spec
==============================================================================
