------------------------------ MODULE Traversal ------------------------------
(***************************************************************************)
(* archive_as() and b_find(): the walk over the files and directories named *)
(* by the caller, which hands each entry to b_builder_write_file().         *)
(*                                                                         *)
(* Every look at the file system is a step of its own, for other processes *)
(* remove and replace entries in between.  Descriptors are numbered as the *)
(* kernel does, lowest first, since the code takes 0 to mean "none".        *)
(* b_builder_write_file() is one step here; MemberWriter is its inside.    *)
(***************************************************************************)
EXTENDS Integers, FiniteSets, SequencesExt

CONSTANTS
  Nodes,         \* the paths of the file system that matter
  Parent,        \* the directory each one is in; "none" for a caller's argument
  Kind,          \* what each one is at first: "file", "dir", "link", "socket"
  Behind,        \* what a symbolic link leads to: "file", "dir", "gone"
  Replacements,  \* what other processes do: <<path, kind before, kind after>>
  Arguments,     \* the paths given to archive_as(), a sequence
  MatchedPaths,  \* paths an exclusion pattern matches
  Flags,         \* the sets of find_flags() there may be: "follow", "sockets"
  Descriptors,   \* numbers of the file descriptors the process may have
  Inherited,     \* the sets of those that may be in use before; 0 is among
                 \* them when there is a standard input
  Faults         \* what may happen: "denied", "clobber", "readdir", and, when a
                 \* member is written, "warn", "fatal", "flush"

Kinds == {"file", "dir", "link", "socket", "gone"}

ASSUME TraversalAssumption ==
  /\ "none" \notin Nodes
  /\ Parent \in [Nodes -> Nodes \cup {"none"}]
  /\ Kind \in [Nodes -> Kinds \ {"gone"}]
  /\ Behind \in [Nodes -> {"file", "dir", "gone"}]
  /\ Replacements \subseteq Nodes \X Kinds \X Kinds
  /\ Arguments \in Seq(Nodes)
  /\ \A i \in DOMAIN Arguments : Parent[Arguments[i]] = "none"
  /\ Flags \subseteq SUBSET {"follow", "sockets"}
  /\ Descriptors \subseteq Nat /\ 0 \in Descriptors
  /\ Inherited \subseteq SUBSET Descriptors

VARIABLES
  flags,     \* B_FIND_FOLLOW_SYMLINKS, B_FIND_IGNORE_SOCKETS
  before,    \* descriptors in use before archive_as()
  kind,      \* what each path is now; "gone" if it was removed
  changed,   \* the replacements there were (history)
  arg,       \* the argument archive_as() is at
  pc,
  dirs,      \* the stack: directories being read, with what is unread of each
  item,      \* the entry, or argument, being dealt with
  st,        \* st_mode in st or item_st
  fd,        \* the local fd, for an argument that is a file
  item_fd,   \* the local item_fd
  open_fds,  \* descriptors in use
  members,   \* what was handed to write_file() and archived, in this order
  warned,    \* paths an error was reported for
  lost,      \* paths given up without a word (history)
  died       \* archive_as() croaked

given  == <<flags, before>>
system == <<given, kind, changed, open_fds>>
output == <<members, warned, lost, died>>
vars == <<flags, before, kind, changed, arg, pc, dirs, item, st, fd, item_fd,
          open_fds, members, warned, lost, died>>

Init ==
  /\ flags \in Flags /\ before \in Inherited
  /\ kind = Kind /\ changed = {}
  /\ arg = 1 /\ dirs = <<>>
  /\ pc = IF Arguments = <<>> THEN "done" ELSE "argument"
  /\ item = "none" /\ st = "none" /\ fd = 0 /\ item_fd = 0
  /\ open_fds = before
  /\ members = <<>> /\ warned = {} /\ lost = {} /\ died = FALSE

-----------------------------------------------------------------------------
\* The file system: what a path leads to, links before the last name resolved.
\* The directories above a path are those in every set that has the one it is
\* in, and the one each of its members is in.
HasParent(S, n) == Parent[n] = "none" \/ Parent[n] \in S
Above == [n \in Nodes |->
  {a \in Nodes : \A S \in SUBSET Nodes :
     HasParent(S, n) /\ (\A x \in S : HasParent(S, x)) => a \in S}]

Resolved(n) == IF kind[n] = "link" THEN Behind[n] ELSE kind[n]
Reached(n)  == \A a \in Above[n] : Resolved(a) = "dir"
Target(n)   == IF Reached(n) THEN Resolved(n) ELSE "gone"
Itself(n)   == IF Reached(n) THEN kind[n] ELSE "gone"
Seen(n)     == IF "follow" \in flags THEN Target(n) ELSE Itself(n)

Free   == Descriptors \ open_fds
Lowest == CHOOSE f \in Free : \A g \in Free : f <= g

\* close() under `if (fd > 0)'.
Without(f) == IF f > 0 THEN open_fds \ {f} ELSE open_fds

Replace(r) ==
  /\ kind[r[1]] = r[2]
  /\ kind' = [kind EXCEPT ![r[1]] = r[3]]
  /\ changed' = changed \cup {r}
  /\ UNCHANGED <<given, arg, pc, dirs, item, st, fd, item_fd, open_fds, output>>

-----------------------------------------------------------------------------
\* b_find() returns: archive_as() takes the next argument, or croaks.
Leave(failed) ==
  /\ pc' = IF failed \/ arg = Len(Arguments) THEN "done" ELSE "argument"
  /\ arg' = arg + 1
  /\ died' = failed
  /\ item' = "none" /\ st' = "none" /\ fd' = 0 /\ item_fd' = 0 /\ dirs' = <<>>

\* The error paths close the descriptor and every directory on the stack.
Handles == {dirs[i].handle : i \in DOMAIN dirs}
\* Mutant: the entry's descriptor stays open.
AbortUnclosed ==
  /\ Leave(TRUE)
  /\ open_fds' = open_fds \ Handles
  /\ UNCHANGED <<given, kind, changed, members, lost>>

Abort ==
  /\ Leave(TRUE)
  /\ open_fds' = Without(item_fd) \ Handles
  /\ UNCHANGED <<given, kind, changed, members, lost>>

\* b_stat() of an argument; exclusions are not asked about it.
StatArgument ==
  LET n == Arguments[arg] IN
  /\ pc = "argument" /\ Seen(n) # "gone"
  /\ item' = n /\ st' = Seen(n)
  /\ pc' = IF Seen(n) = "file" THEN "open_argument" ELSE "write_argument"
  /\ UNCHANGED <<arg, dirs, fd, item_fd, system, output>>

StatArgumentFails ==
  /\ pc = "argument" /\ Seen(Arguments[arg]) = "gone"
  /\ Abort /\ UNCHANGED warned

OpenArgument ==
  /\ pc = "open_argument"
  /\ Free # {} /\ Seen(item) \in {"file", "dir"}
  /\ fd' = Lowest /\ open_fds' = open_fds \cup {Lowest}
  /\ pc' = "write_argument"
  /\ UNCHANGED <<given, kind, changed, arg, dirs, item, st, item_fd, output>>

OpenArgumentFails ==
  /\ pc = "open_argument"
  /\ Free = {} \/ Seen(item) \notin {"file", "dir"} \/ "denied" \in Faults
  /\ Abort /\ UNCHANGED warned

\* A member, whose header has the type st says, and a body if it is a file and
\* its descriptor is positive.
Archive(f) == members' = Append(members,
                [path |-> item, kind |-> st, body |-> f > 0])

WriteArgument ==
  /\ pc = "write_argument"
  /\ Archive(fd)
  /\ open_fds' = Without(fd)
  /\ IF st = "dir"
       THEN /\ pc' = "open_directory" /\ fd' = 0
            /\ UNCHANGED <<arg, dirs, item, st, item_fd, died>>
       ELSE Leave(FALSE)
  /\ UNCHANGED <<given, kind, changed, warned, lost>>

\* Any failure, a mere warning included, ends archive_as().  A flush that fails
\* before the header has its block sets no error.
WriteArgumentFails ==
  /\ pc = "write_argument"
  /\ \/ Faults \cap {"warn", "fatal"} # {} /\ warned' = warned \cup {item}
     \/ "flush" \in Faults /\ UNCHANGED warned
  /\ Leave(TRUE)
  /\ open_fds' = Without(fd)
  /\ UNCHANGED <<given, kind, changed, members, lost>>

-----------------------------------------------------------------------------
\* opendir() follows links.  The names read are those it finds.
Entries(d) == {n \in Nodes : Parent[n] = d /\ kind[n] # "gone"}

\* The directory is pushed and item_fd, which served to look at it, closed.
OpenDirectory ==
  /\ pc = "open_directory"
  /\ Free # {} /\ Target(item) = "dir"
  /\ dirs' = Append(dirs, [path |-> item, unread |-> Entries(item),
                           handle |-> Lowest])
  /\ open_fds' = Without(item_fd) \cup {Lowest}
  /\ item_fd' = 0 /\ pc' = "read"
  /\ UNCHANGED <<given, kind, changed, arg, item, st, fd, output>>

\* Why it fails, as b_error_set() is told ...
OpenDirectoryError ==
  (IF Free = {} THEN {"EMFILE"} ELSE {}) \cup
  (CASE Target(item) = "gone" -> {"ENOENT"}
     [] Target(item) \in {"file", "socket"} -> {"ENOTDIR"}
     [] OTHER -> IF "denied" \in Faults THEN {"EACCES"} ELSE {})

\* ... and as errno has it once the warning was reported, the handler of which
\* may make system calls of its own.
ErrnoAfter(e) == {e} \cup (IF "clobber" \in Faults THEN {"other"} ELSE {})

\* Without permission a directory within the walk is left out; anything else,
\* or anything at all for an argument, ends archive_as().
OpenDirectoryFails ==
  /\ pc = "open_directory"
  /\ \E e \in OpenDirectoryError : \E errno \in ErrnoAfter(e) :
       /\ warned' = warned \cup {item}
       /\ IF dirs # <<>> /\ errno = "EACCES"
            THEN /\ pc' = "read" /\ item_fd' = 0 /\ open_fds' = Without(item_fd)
                 /\ UNCHANGED <<arg, dirs, item, st, fd, died>>
            ELSE Leave(TRUE) /\ open_fds' = Without(item_fd) \ Handles
  /\ UNCHANGED <<given, kind, changed, members, lost>>

-----------------------------------------------------------------------------
\* Mutant: exclusions are not asked.
ReadEntryUnfiltered(n) ==
  /\ pc = "read" /\ n \in Last(dirs).unread
  /\ dirs' = [dirs EXCEPT ![Len(dirs)].unread = @ \ {n}]
  /\ item' = n /\ pc' = "open"
  /\ UNCHANGED <<arg, st, fd, item_fd, system, output>>
\* b_dir_read() of the directory on top of the stack.
ReadEntry(n) ==
  /\ pc = "read" /\ n \in Last(dirs).unread
  /\ dirs' = [dirs EXCEPT ![Len(dirs)].unread = @ \ {n}]
  /\ item' = n
  /\ pc' = IF n \in MatchedPaths THEN "read" ELSE "open"
  /\ UNCHANGED <<arg, st, fd, item_fd, system, output>>

\* Mutant: the directory read to its end is not popped.
EndOfDirectoryKept == pc = "read" /\ Last(dirs).unread = {} /\ UNCHANGED vars

LeaveDirectory ==
  /\ open_fds' = open_fds \ {Last(dirs).handle}
  /\ IF Len(dirs) = 1
       THEN Leave(FALSE)
       ELSE /\ dirs' = Front(dirs)
            /\ UNCHANGED <<arg, pc, item, st, fd, item_fd, died>>
  /\ UNCHANGED <<given, kind, changed, members, warned>>

EndOfDirectory ==
  /\ pc = "read" /\ Last(dirs).unread = {}
  /\ LeaveDirectory /\ UNCHANGED lost

\* An error of readdir() is taken for the end: what is unread is left out.
ReadFails ==
  /\ pc = "read" /\ Last(dirs).unread # {} /\ "readdir" \in Faults
  /\ LeaveDirectory /\ lost' = lost \cup Last(dirs).unread

\* The entry is left out, and what was opened for it closed.
Skip ==
  /\ pc' = "read" /\ open_fds' = Without(item_fd) /\ item_fd' = 0
  /\ UNCHANGED <<given, kind, changed, arg, dirs, item, st, fd, died>>

\* Mutant: the descriptor is closed when fstat() is done with it.
OpenItemClosed ==
  /\ pc = "open" /\ Free # {} /\ Seen(item) \in {"file", "dir"}
  /\ st' = Seen(item) /\ pc' = "write"
  /\ UNCHANGED <<given, kind, changed, arg, dirs, item, fd, item_fd, open_fds, output>>

\* open() and fstat().  The fcntl() in between is given fd, which is 0 here, and
\* fails if there is no such descriptor.
OpenItem ==
  /\ pc = "open" /\ Free # {} /\ Seen(item) \in {"file", "dir"}
  /\ IF fd \in open_fds \cup {Lowest}
       THEN /\ item_fd' = Lowest /\ open_fds' = open_fds \cup {Lowest}
            /\ st' = Seen(item) /\ pc' = "write"
            /\ UNCHANGED <<given, kind, changed, arg, dirs, item, fd, died>>
       ELSE Skip
  /\ UNCHANGED <<members, warned, lost>>

\* O_NOFOLLOW makes open() of a symbolic link fail; lstat() will look at it.
OpenLink ==
  /\ pc = "open" /\ Free # {} /\ "follow" \notin flags /\ Itself(item) = "link"
  /\ item_fd' = -1 /\ pc' = "lstat"
  /\ UNCHANGED <<arg, dirs, item, st, fd, system, output>>

Lstat ==
  /\ pc = "lstat" /\ Itself(item) # "gone"
  /\ st' = Itself(item) /\ pc' = "write"
  /\ UNCHANGED <<arg, dirs, item, fd, item_fd, system, output>>

LstatFails ==
  /\ pc = "lstat" /\ Itself(item) = "gone"
  /\ warned' = warned \cup {item}
  /\ Skip /\ UNCHANGED <<members, lost>>

\* Mutant: nothing is reported.
OpenItemFailsSilently ==
  /\ pc = "open"
  /\ \/ Free = {} \/ "denied" \in Faults
     \/ Seen(item) \in {"gone", "socket"}
  /\ Skip /\ UNCHANGED <<members, warned, lost>>

\* open() fails otherwise.  A socket, which cannot be opened, may be ignored.
OpenItemFails ==
  /\ pc = "open"
  /\ \/ Free = {} \/ "denied" \in Faults
     \/ Seen(item) \in {"gone", "socket"}
  /\ warned' = IF "sockets" \in flags /\ Target(item) = "socket"
                 THEN warned ELSE warned \cup {item}
  /\ Skip /\ UNCHANGED <<members, lost>>

WriteItem ==
  /\ pc = "write"
  /\ Archive(item_fd)
  /\ IF st = "dir"
       THEN /\ pc' = "open_directory"
            /\ UNCHANGED <<system, arg, dirs, item, st, fd, item_fd, died>>
       ELSE Skip
  /\ UNCHANGED <<warned, lost>>

\* Mutant: the walk enters a directory that was not archived.
WriteItemFailsOn ==
  /\ pc = "write" /\ "warn" \in Faults
  /\ warned' = warned \cup {item}
  /\ IF st = "dir"
       THEN /\ pc' = "open_directory"
            /\ UNCHANGED <<system, arg, dirs, item, st, fd, item_fd, died>>
       ELSE Skip
  /\ UNCHANGED <<members, lost>>

\* A warning leaves the entry out, a directory with all that is in it.
WriteItemFails ==
  /\ pc = "write" /\ "warn" \in Faults
  /\ warned' = warned \cup {item}
  /\ Skip /\ UNCHANGED <<members, lost>>

\* Where a flush failed before the header had its block, no error is set, and the
\* entry is left out just so.
WriteItemFlushFails ==
  /\ pc = "write" /\ "flush" \in Faults
  /\ lost' = lost \cup {item}
  /\ Skip /\ UNCHANGED <<members, warned>>

WriteItemFatal ==
  /\ pc = "write" /\ "fatal" \in Faults
  /\ warned' = warned \cup {item}
  /\ Abort

-----------------------------------------------------------------------------
Step ==
  \/ StatArgument \/ StatArgumentFails \/ OpenArgument \/ OpenArgumentFails
  \/ WriteArgument
  \/ OpenDirectory \/ OpenDirectoryFails
  \/ \E n \in Nodes : ReadEntry(n)
  \/ EndOfDirectory
  \/ OpenItem \/ OpenLink \/ Lstat \/ LstatFails \/ OpenItemFails
  \/ WriteItem

Fault ==
  \/ WriteArgumentFails \/ ReadFails
  \/ WriteItemFails \/ WriteItemFlushFails \/ WriteItemFatal

Next == Step \/ Fault \/ \E r \in Replacements : Replace(r)

\* archive_as() goes on until it returns or croaks.
Spec == Init /\ [][Next]_vars /\ WF_vars(Step)
-----------------------------------------------------------------------------
Archived == {members[i].path : i \in DOMAIN members}

\* A reader that unpacks the members in their order finds the directory of each
\* there already, and finds none of them twice.
ParentFirst ==
  \A i \in DOMAIN members :
    LET p == Parent[members[i].path] IN
    /\ p # "none" => \E j \in 1..(i - 1) : members[j].path = p
    /\ \A j \in 1..(i - 1) : members[j].path # members[i].path

\* What the caller asked for: the arguments and, below them, what is reached by
\* directories without meeting anything excluded.
IsDirectory(n) ==
  \/ Kind[n] = "dir"
  \/ "follow" \in flags /\ Kind[n] = "link" /\ Behind[n] = "dir"
Asked ==
  {n \in Nodes :
    /\ ({n} \cup Above[n]) \cap ToSet(Arguments) # {}
    /\ \A a \in Above[n] : IsDirectory(a)
    /\ \A a \in ({n} \cup Above[n]) \cap MatchedPaths : Parent[a] = "none"}

\* When archive_as() returns, all that was asked for is archived, or an error
\* was reported for it or for a directory it is in, unless it is an ignored
\* socket, or it or a directory it is in was removed or replaced meanwhile, or
\* was lost to a flush or a readdir() that failed: of these the code says nothing.
NothingMissingUnreported ==
  pc = "done" /\ ~died =>
    \A n \in Asked :
      \/ n \in Archived
      \/ ({n} \cup Above[n]) \cap (warned \cup lost) # {}
      \/ "sockets" \in flags /\ Kind[n] = "socket"
      \/ \E r \in changed : r[1] \in {n} \cup Above[n]

\* Nothing that is excluded, or in an excluded directory, is archived.
ExcludedByPath == Archived \subseteq Asked

\* Whichever way b_find() returns, it has closed all that it opened, if there is
\* a standard input, so that no descriptor opened is the 0 that means "none".
NoDescriptorLeaks ==
  0 \in before /\ pc \in {"argument", "done"} => open_fds = before

\* A regular file is archived with a descriptor its body is read from: its
\* header announces the body whether or not one follows.
NoMismatchedSizes ==
  \A i \in DOMAIN members : members[i].kind = "file" => members[i].body

\* So it is, if there is a standard input, but for a path that another process
\* made a regular file, where links are not followed: open() may have found a
\* link there before, and lstat() the file after.
BodiesFollow ==
  0 \in before =>
    \A i \in DOMAIN members :
      members[i].kind = "file" /\ ~members[i].body =>
        /\ "follow" \notin flags
        /\ \E r \in changed : r[1] = members[i].path /\ r[3] = "file"

\* archive_as() returns, or croaks, whatever other processes do.
Terminates == <>(pc = "done")
=============================================================================
