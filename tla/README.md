# A specification of Archive::Tar::Builder

Archive::Tar::Builder is a Perl module, written mostly in C, that walks files
and directories and streams them to a file handle as a tar archive. This
directory has TLA+ modules of its core, the TLC configurations that check them,
and proofs that TLAPS checks. Paths below are relative to the repository.

## The system: inventory

| Part | State | Operations | What makes it correct |
|---|---|---|---|
| record buffer, `src/b_buffer.c` | `fd`, `can_splice`, `unused`, `data` | `set_fd`, `get_block`, `reclaim`, `flush`, `reset` | each byte put in leaves once, in whole records; room handed out is zero; one block is never refused |
| file contents, `src/b_file.c` | the locals of one call, the file's offset, `can_splice` | `write_contents`, the blocks of long names | the body is as long as its header said, and counted as such; the stream stays on block boundaries |
| member writer, `src/b_builder.c` | `total`, `err`, the header of the member, the pointer `block` | `write_file`, `header_for_file`, `encode_longlink` | a reader finds the members archived, whole, and no others; errors are not lost |
| header encoding, `src/b_header.c` | none | encode header, LongLink and PAX blocks | fields hold what they are given; lengths of PAX records are exact |
| error object, `src/b_error.c` | type, errno, message, path, callback | set, clear, reset | the right archive and the right member are blamed |
| walk, `src/b_find.c` | stack of open directories, `fd`, `item_fd` | `b_find` | parents first, nothing twice, nothing missing without a report, every descriptor closed, the walk ends |
| Perl interface, `src/Builder.xs`, `lib/Archive/Tar/Builder.pm` | the builder object, which outlives archives and handles | `archive_as`, `archive`, `flush`, `finish`, `set_handle`, `DESTROY`, exclusions | each handle receives its archive, whole; errors and deaths concern the right call |
| hard link cache, `Builder/HardlinkCache.pm` | (device, inode) -> first name | `lookup` | a hard link follows what it links to; contents are archived once |
| user cache, `Builder/UserCache.pm` | uid, gid -> names | `lookup` | all members of a user have one name |
| paths, `b_path.c`, `b_util.c` | none | split, clean, join | splits rejoin; names are as wished |
| stack, `b_stack.c` | an array, its size, the factor it grows by | push, pop, shift, item_at, reverse, destroy | it is a list; it stays within its array and gives memory back |
| patterns, `match_engine.c`, `match_path.c` | inclusion and exclusion lists with counters | include, exclude, is_excluded | a name is decided by what the patterns mean, not by what was asked before; counters are exact |
| pattern files, `match_line_reader.c` | a buffer that grows, the part of a line left in it | open, next line, free | each line once and whole |

How they interact. `archive_as()` calls `b_find()` for each pair of path and
member name. `b_find()` opens each entry and calls `b_builder_write_file()` with
its path, member name, `struct stat` and descriptor. That asks the caches (Perl
objects) for names, asks the buffer for a block, encodes the header into it, and
passes the descriptor to `b_file_write_contents()`, which takes room from the
buffer, or goes past it with `splice()`. The error object is shared by the walk
and the writer, and calls back into Perl. `finish()` flushes and looks at the
last error.

What is hard. The program has one thread, so its hazards are with the outside:
the files change while they are read, descriptors are numbered by the kernel
and 0 means none, writes are short, interrupted or fail, a step of several
fails and leaves a half-written record, `errno` and the error object are read
after something else could change them, caches and the error object are kept from
one archive to the next, and blocks of several kinds, or lines of a pattern file,
fall across records and buffers in any way. `PROJECT.json` lists each hazard with its line.

## Modules

| Module | Models | Main definitions |
|---|---|---|
| `TarFormat` | `BLOCK`, `padded_size` | |
| `ByteSink` | what the buffer promises (abstract) | `Put`, `TakeBack`, `Drain`, `Tear`, `CutShort`, `Discard` |
| `BlockBuffer` | `b_buffer.c`, the write() loop call by call | implements `ByteSink` (`RefinesSink`) |
| `FileContents` | `b_file_write_contents()` | flush, splice(), read(), padding as steps; other processes resize the file |
| `TarReader` | a reader of the archive (external) | block by block: `Reading(stream)`, `Members(stream)` |
| `MemberWriter` | `b_builder_write_file()`, the hard link cache, `finish()` | one step for each block asked of the buffer; implements `ByteSink` in blocks |
| `Traversal` | `archive_as()`, `b_find()` | one step for each look at the file system |
| `Names` | `b_path.c`, the member names of `b_find()`, `path_split()`, the size field | cleaning, substitution, one step for each item the split pops |
| `Session` | the calls of the Perl interface over the life of a builder | composes the record, the error object and both caches with the walk; a member is a step |
| `ItemList` | what the stack promises (abstract) | `Add`, `Refuse`, `TakeLast`, `TakeFirst`, `Lose`, `Turn` |
| `Stack` | `b_stack.c` with the size of its array and realloc() | implements `ItemList` (`RefinesList`) |
| `PathMatch` | `match_path.c` | the matcher, `lafe_pathmatch`, a recursive function of the place in pattern and name |
| `LineReader` | `match_line_reader.c` | filling the buffer, moving a partial line, growing |
| `Matching` | `match_engine.c`, with its patterns from calls and files | composes `PathMatch` and `LineReader`; `RefMatch`, what a pattern means |
| `BlockBufferProofs`, `FileContentsProofs`, `StackProofs`, `SessionProofs`, `TraversalProofs`, `MemberWriterProofs`, `NamesProofs`, `MatchingProofs` | theorems | |
| `MC*` | instances for TLC | |

`BlockBuffer` abstracts the record's bytes to `dirty`, the length of the prefix
outside which all are zero; that is all its callers depend on. `emitted` counts
what descriptors accepted. `given` and `filled` are the caller's side: what
`get_block()` last gave, and how much of it was written, so that `reclaim()` is
called as `b_file.c` calls it, with what was used. `set_fd()` and `reset()` are
possible between any two calls, as they are for users of the Perl object.

`FileContents` has the whole function, with `output` a file or a pipe: `pc` "top" is the head of the loop,
"splice" and "read" are the calls, "finish" is what follows the loop. `length`
is the file's own, `file_size` what the header promised. A flush is a single
step that succeeds or fails, since `BlockBuffer` is its inside.

`MemberWriter` works in blocks. An input file is described by what the writer's
decisions depend on: the lengths of its name and link target, whether
`path_split()` could fit the name (`cut`), its type, body, and inode. Blocks
hold abstract contents (a header's fields, "the i-th block of this name"), and
`TarReader!Members` is what a reader makes of them by position: it goes through
the blocks once, and knows at each what is due next. A body is taken
as unchanging here; `FileContents` has the changes. `files` are entries found
in one walk of a directory, so that a warning lets the walk go on; `Traversal`
has the case of an argument, where it does not. `ignore_errors` is off.

A flush that fails may have sent any part of its record, and keeps all of it, so
that the next one sends it again from its start (`PartlySent`). `stream` is what the
handle received, repetitions included. `shape` is "torn" from the first such part
on, and "shifted" once one of them ended within a block: from there on every block
of the stream is made of the end of one and the beginning of another (`Mixed`), which
no reader makes anything of; that a second part of the right length may bring
blocks back into line is left out. Three variables are history, for the properties:
`flushed` has the records sent in full, so that `Taken` is the archive as it was
meant; `intact` how many of its blocks were out when the stream was first torn; and
`ends` where in it each member ended. As a `ByteSink` the writer is in blocks, and
its stream torn where it is torn or shifted.

`Traversal` has trees as constants and a variable kind for each path, which
other processes change. Descriptors are numbers, the lowest free being given
out; 0 is in use before where there is a standard input. Writing a member is one
step with the outcomes of `MemberWriter`: a warning, a fatal error, or a failing
flush, which sets no error. A readdir() that fails is the end of its directory
(`ReadFails`). Two variables are history: `changed` has what other processes
replaced, and `lost` what the walk gave up without a word, to a flush or to readdir().

`Names` goes from the two names a caller gives for an argument to the prefix and
suffix fields of each header below it. A string is the sequence of components
between its slashes, each with an identity and a length, so that empty names,
leading and doubled slashes and "." are told apart as the code does, and lengths
are exact. It decides what `MemberWriter` takes as `cut`; the walk only goes down
in it, since `Traversal` has the rest of it. When a header is built, the size of
the member is encoded too, in digits or, where these do not suffice, in binary.

`Session` has what outlives a call. `record` holds members, and what is left of
broken ones: of a member whose body cannot be read, or in which a flush fails, the
header, or its extension, and a part of the rest stay in the record, and are sent
(`Remains`, with `whole` false). `sent` is what each handle has received, `given` what
was put out for it, remains included; `err` has the type, the path and the archive
it was set in. `archive`, `begun`, `finished` and `disturbed` are the caller's side,
by which the properties say for which calls they hold: an archive begins with the
first `archive_as()` after a `finish()`, and `disturbed` counts the flushes that fail
and the `set_handle()` in the midst of an archive; until there is one, the streams
are `Clean`. The entries of a walk are chosen freely, so that every walk `Traversal`
has is among them.

`Stack` keeps the array, its size and the factor it grows by apart from `count`,
with sizes that wrap, since the limit below which it shrinks is an unsigned
difference compared for equality. Cells never written hold `Junk`. realloc() fails
or not at any time; `ItemList` has nothing of the array, and an item may be lost
there only when memory is short.

`PathMatch` translates the matcher as it is written, with its order of
alternatives and the anchors a nested call sets again. `pm_turn` is a turn of the
loop of pm(), and `pm_loop` the function of the places in pattern and name, and of
the anchors, that says whether the loop succeeds from there. Since it can go past the
end of a name, every operator has the parameter `beyond`, what it would find there;
`overrun` of `Matching` becomes true when a decision depends on that.
`Matching!RefMatch` is the independent reference: a pattern is a sequence of items,
and matches if the text between two borders of elements of the name can be divided
among them, without an order of search. `MatchesAsMeant` says that matcher and
reference agree, and `MCMatching` has TLC evaluate it. `LineReader` reads a
file of symbols into a buffer that starts with one byte.

Definitions called mutants stand before the definition they alter. Each is what
a likely mistake would make of it, and each property is violated with one of
them.

## What the runs check

| Run | Result | Shows |
|---|---|---|
| `MCBlockBuffer_sink` | holds | all calls in all orders, every split of write(), EINTR, errors, a write of nothing: room is zero and within the record, whole records, `ByteSink` implemented, a flush returns |
| `MCFileContents_copy` | holds | output to a file or a pipe, input shrinking and growing, every call failing: promised length, exact count, no gap, the stream stays on blocks, splice() only with an empty record, the call returns |
| `MCMemberWriter_archive` | holds | every ordered choice of up to three files, in each of the three formats, undisturbed and with every call failing, flushes after any part of their record: it round-trips through the reader; totals; hard links after their targets; members before the first failure stay readable, but those in a record that is sent twice; no block is written to later; the buffer is used as a `ByteSink` |
| `MCTraversal_walk` | holds | links followed or not, sockets ignored or not, descriptors one short or not, with and without a standard input, removals, replacements, denied permissions, failing members, flushes and readdir(): parents first, nothing twice, nothing unreported but what a flush or readdir() loses, descriptors closed, no header without its body but that of a path made a file, the walk ends |
| `MCNames_split` | holds | names at, below and above the limits of the header, in any of their spellings, and sizes around theirs: each entry is read under the name wished for its argument, fields hold what is put into them, no name is truncated that could be split |
| `MCStack_list` | holds | every sequence of operations, realloc() failing or not: the stack is a list, stays within its array, gives memory back |
| `MCMatching_patterns` | holds | all short patterns, one or two of them, given or read from a file, asked about names in every order: the decision is what the patterns mean, inclusions are counted once, files give their lines and end |
| `MCSession_archives` | holds | two archives of up to three entries to two handles, in every order of calls, each failing or not, bodies in their midst, while users are renamed: each handle receives its archive, the right one is blamed, the caches answer consistently |

The other runs each show one statement of the documentation, the change log or a
test that the code does not meet. They are the findings of `PROJECT.json`:

| Run | What the code does |
|---|---|
| `MCFileContents_truncated` | a file truncated during splice() is reported as archived |
| `MCMemberWriter_both` | GNU: a long link overwrites the header of a long name |
| `MCMemberWriter_none` | finish() returns after a file was refused, if another followed it |
| `MCTraversal_sizes` | a link that becomes a file between open() and lstat() gives a header whose body does not follow |

What the passing runs leave out is named where it is left out: the GNU inputs of
`MCMemberWriter_archive` have no member with two long names, since
`MCMemberWriter_both` shows what becomes of it; `ContentsWhole` leaves out a file
that is shortened while it can be spliced, as `MCFileContents_truncated` shows why;
`BodiesFollow` leaves out a path made a regular file, as `MCTraversal_sizes` shows
why, and a process without a standard input; `MCPatterns` leaves out patterns whose
meaning the code decides by where it starts to search.

### Deviations no run shows

Where a property or an action is named, the model has the behaviour, and it is seen
by giving that run the constant named, or by leaving out of the property what it
excepts. They are not runs of their own, to keep the set of runs small; the passing
runs stay on this side of them.

| Where | What the code does | What was expected |
|---|---|---|
| `src/src/b_file.c:186` | padding written after splice() is not added to the count: `TotalIsWritten` excepts a pipe | `Builder.pm:173` says archive_as() returns the bytes written |
| `src/src/b_file.c:181` | a file that was short, has grown, and then meets a failing splice() is read off the block boundary and not padded: `StreamAligned` excepts it | a stream of blocks |
| `src/src/b_file.c:195` | a truncated file is reported with whatever errno was before (`ReadShort`) | `Changes:56` |
| `src/src/b_builder.c:442`, `:486` | a failing flush before a header loses the member without an error (`FlushForRoomFails`, `WriteItemFlushFails` of `Traversal`) | finish() dies if errors were encountered |
| `src/src/b_builder.c:486` | the extension header of a member lost there gives its long name to the next member | |
| `src/src/b_builder.c:342` | the hard link cache keeps a name whose member was refused: `HardlinkTargets` with the fault "lookup" | |
| `src/src/b_find.c:373` | the walk is depth-first | `Changes:118` says breadth-first |
| `src/src/b_find.c:327` | `O_NONBLOCK` is cleared on descriptor 0, not on the entry's | |
| `src/src/b_find.c:219` | arguments of archive_as() are not checked against exclusions | `Builder.pm:98` |
| `src/src/b_find.c:279` | exclusions are matched with the path in the file system | `Builder.pm:98`: with the names of members |
| `src/src/b_buffer.c:208` | a flush that fails in the midst sends its record again from its start, so that members in it are misread: `EarlierMembersReadable` is about those sent before | |
| `src/src/b_builder.c:162` | a flush that fails in a GNU long link is reported with what the member links to, not with its name (`LongNameFlushFails`) | |
| `src/src/b_find.c:212` | without a standard input an argument is opened as descriptor 0, which means none: no body, and it is not closed: `BodiesFollow` and `NoDescriptorLeaks` ask for `0 \in before` | `Changes:47` |
| `src/src/b_find.c:154` | `archive_as('/' => 'root')` names `/etc` `rootetc`: `NamedAsWished` with that pair in `Given` | `Builder.pm:168`: the names the caller wishes |
| `src/src/b_builder.c:224` | a directory whose last name has 99 bytes is not split there although it fits with its slash, and may be truncated: `TruncatedOnlyWhenMust` states the code's limit | the comment at `b_builder.c:263` |
| `src/src/b_file.c:163` | members that follow one whose body could not be read are misread, for its header promises a longer body: `EarlierMembersReadable` is about those before it | |
| `src/src/b_find.c:351` | a flush that fails within the walk sets no error: the walk goes on without the member, and finish() returns normally (`WriteFlushFails` of `Session`): `NothingMissingUnreported` excepts `lost` | `Builder.pm:192` |
| `src/src/b_find.c:85` | an error of readdir() is taken for the end of the directory (`ReadFails`): `NothingMissingUnreported` excepts `lost` | |
| `src/src/b_util.c:104` | the result of readlink() is not used as the length of the target (not modelled) | |
| `src/src/Builder.xs:356` | archive_as() croaks for an argument it cannot look at with the path of an earlier warning, if there was one (`ArgumentFails` of `Session`) | |
| `src/src/Builder.xs:411` | finish() that dies resets nothing: the next archive inherits the warning until its first member is begun (`BlamesTheCulprit` asks for `begun > 0`) | |
| `lib/Archive/Tar/Builder/HardlinkCache.pm:36` | the cache survives finish() and set_handle(): in a second archive a file of the first is a link there, even to its own name, without its contents: `ContentsOnce` says once at most | |
| `src/src/Builder.xs:363` | archive_as() returns what was written since the builder was made, not what this call wrote | `Builder.pm:173` |
| `src/src/b_builder.c:326` | device numbers come from `st_dev`, and only when both are nonzero; uid, gid and device numbers too large for their fields are cut off (not modelled) | |
| `src/src/match_path.c:172` | a negated class accepts the end of the name, and the matcher reads on behind it: `Decided` excepts `overrun` | |
| `src/src/match_path.c:193` | `*` before a slash and `*?` are not what fnmatch(3) says: `Plain` of `MCMatching` leaves them out | `Builder.pm:113` |
| `src/src/match_engine.c:177` | the pattern `/` becomes empty and matches nothing | |
| `src/src/match_engine.c:149` | an error of reading a pattern file is taken for its end (`ReadFails`) | `Builder.pm:120`, `Builder.pm:138` |
| `src/src/b_find.c:279` | an inclusion of something below a directory is never reached, since the directory itself is not included | |
| `src/src/b_find.c:366` | errno is read after a warning handler that may have changed it: `OpenDirectoryFails` with the fault "clobber" | |

Bounds, and why they are enough. Records have two blocks, the least with a
boundary inside, but for `MCMemberWriter_archive`: a body that fails begins after
its own header, so that only a record of three blocks can hold an earlier member
with them. Requests, file sizes and name lengths lie below, on and above a
block and a record. `MaxEmitted` lets three records out, enough for a flush after
a failed and after a cut one. `IntRange` (2048) makes `splice_total` wrap at the
size 2148, and `MaxChunk` (1536) makes files of several chunks; both stay
multiples of a block, as the real ones are. Up to three different files are
archived, enough for one before, the one at fault, and one after. The tree has
four levels, an entry of each kind, and two arguments. In `FileContents` the
file takes lengths among the sizes listed. `Names` has the sizes of the real
header, component lengths on both sides of each, and names of up to four
components, so that both fields can hold two; the size field has two digits
instead of eleven (64 stands for 8 GiB, which TLC's integers do not reach), with
the sizes on both sides of the limit.

`Stack` grows by one, two or three (0 asks for the default) to seven items, beyond
two growth factors of each, with sizes modulo 16, so that the limit of a short
stack wraps. Patterns are all of up to three of `a`, `/`, `*` and `?`, with listed
ones for anchors, classes and escapes; one or two patterns, up to two names asked
about; pattern files are all of up to five symbols, lines and zeros, and the buffer
starts with one byte, so that a line is moved, and makes the buffer grow, more than
once. `Session` has two archives, two handles, three entries in all: two links of
one file, so that one of them, or both, can be in each archive, and an entry that
has no other; a user with and without a name; and one disturbance (`MaxDisturbances`),
a flush that fails or a handle set in the midst of an archive: what later ones add
to a stream that is no longer clean is in `MemberWriter`. Nothing tells the two
handles apart, nor the two paths of the file, so both are symmetric.

Fairness. Every fair action is one the program itself goes on to: it has one
thread that waits only in system calls. `BlockBuffer` also assumes that write()
goes on to make progress (`WriteProgress`): a reader of a pipe that never reads
would block it for ever, and EINTR for ever would too. `Matching` assumes that
a pattern file, once opened, goes on to be read (`ReaderStep`); that its owner goes
on to ask about names is not assumed. `Stack` and `Session` state no fairness: their
steps are the caller's to take. Failures, changes by
others and interrupts are never fair.

Deadlock checking is off where a model ends in a state the program ends in: the
function has returned, or archive_as() has.

## What is proved

For every value of the constants that satisfies the named assumptions:

* `BufferSafety`: the sums of sizes in the buffer stay in range, a request for
  one block never meets EFBIG, and room not handed out is zero.
* `WholeRecordsHold`: until a flush fails, the stream is whole records.
* `BufferImplementsSink`: the buffer implements `ByteSink`. All three rest on the
  inductive invariant `IInv` of `BlockBufferProofs`. `FreshRoomIsZero` is not
  inductive by itself: that reclaim() returns only zero room needs to know that
  `unused` and `given` are in whole blocks and that the caller wrote no further
  than `filled` (`RoomInv`); that a resumed get_block() finds room needs that the
  flush has emptied the record (`LoopInv`).
* `ContentsWholeHolds`: a body reported written has its promised length, unless the
  output is a pipe and the file was shortened meanwhile. `CountInv` of
  `FileContentsProofs` carries it: what is written is what is counted, and short of
  the end the count is in whole blocks. `MCFileContents_truncated` shows why the
  exception is needed.
* `ContiguousHolds`: the file is copied without gap, and the state is as typed: the
  room in the record is never negative.
* `TotalIsWrittenHolds`: where the output is no pipe, the count is what was written.
* `BypassOnlyWhenEmptyHolds`: splice() never overtakes the record. `BypassInv`
  carries it: while splicing is possible, an emptied record stays empty.
* `StreamAlignedHolds`: a body reported written leaves the stream on a block, a body
  cut short by splice() included.
* `WithinArray`, `NoHoardingHolds`, `StackImplementsList`: the stack stays within its
  array, gives memory back, and implements `ItemList`, for every growth factor.
  `RoomInv` adds that the size is at least the growth factor; without it the
  wrapped limit could be met.
* `DeliveredHolds`, `OneNamePerUserHolds`, `ContentsOnceHolds`,
  `BlamesTheCulpritHolds`: the properties of `Session`, for every set of handles,
  files and users, and however many archives, entries and disturbances.
  `ContentsOnce` is about what the handles receive while the streams are clean; that
  what they are given has contents once (`GivenOnce`) holds whatever fails, and carries it, for until the
  builder is destroyed the two are the same (`NextContentsOnce`). `IInv` of
  `SessionProofs` is the conjunction of parts that are needed for one another: after
  finish() there is neither a walk nor anything in the record (`WalkInv`), without
  which set_handle() would break `Delivered`; each name given out is the one the cache holds
  (`UserInv`), each inode archived is in its cache (`LinkInv`); and once a member is
  begun an error is of this archive (`BlameInv`). They assume that "not asked yet" is
  no user's name and that every path is one.
* `NothingLeaks`, `ParentsFirst`, `NothingMissing`, `SizesMatch`, `ExclusionsKept`: the
  safety properties of `Traversal`, for every tree, set of arguments and number of
  descriptors, whatever fails. `PlaceInv` says where the walk is at each `pc`;
  `FdInv` that the descriptors in use are those from before, one for each directory
  on the stack, and `fd` and `item_fd`; `TreeInv` that the stack is a path in the tree
  of which nothing unread was archived; `AskedInv` that only what was asked for is
  looked at; `ChangedInv` that what is no longer as it was is among the replacements;
  `SizeInv` that a header without its body has one of them behind it; and
  `ProgressInv` that what is asked for and not archived, reported, replaced, lost or an
  ignored socket is still ahead. Two of them assume what the code, or a property,
  depends on:
  - `DistinctArguments`, for the order: an argument given twice is archived twice.
  - `NewDirectories`, for exclusions: nothing else is made a directory while the walk
    goes on. The walk would rightly enter it, but what was asked for is stated by what
    was a directory at the start.

  `MCTraversal_walk` satisfies both. Descriptors, and bodies, are as the properties say
  only where there is a standard input, which is part of them (`DescriptorsAccounted`).
* `WriterImplementsSink`, `AppendOnlyHolds`, `RoundTripHolds`, `TotalCountsHolds`,
  `HardlinkTargetsHold`, `EarlierMembersHold`: the properties of `MemberWriter`, for any
  number of files of any size, in records of any length and in each format. All but the
  first assume `OneLongName`: no GNU member needs a long name and a long link, for
  which `MCMemberWriter_both` shows them false. `WriterInv` (`TypeCorrect`) has the
  types, that the cache has names of earlier files only, and when extensions are
  written; `GrowthInv` adds that room not handed out is zero. The reader is followed
  along: `ReaderInv` says what it expects when the blocks so far have been read, which
  depends on `pc`, `left` and `header`: a block of a long name, of records, of a body, or a header. That
  a stream read so far and one more block give a step of the reader (`ReadingAppend`) comes
  by induction over the stream. `LinkInv` relates the cache to the members read.
  `EarlierInv` is for the case in which something fails: either the reader has
  followed all so far, or there is a number m of members that it had read in full
  when it lost track, which no later block changes, for it never takes a member back.
  That is about the archive as it was meant (`Taken`). `IntactInv` adds that the first
  `Intact` blocks of what the handle received are the first of that, and `EndsInv` that
  the members archived are read from as many blocks as `ends` says, so that those
  among the first are read from the stream as well, whatever is sent again after them.
* `NamedAsWishedHolds`, `FieldsFitHolds`, `TruncatedOnlyWhenMustHolds`: the properties of
  `Names`, for every string, entry and depth, and any sizes of the fields. `NameInv` has
  the name of each entry as a function of the strings given and the entries above it.
  `SplitInv` (`SplitCorrect`) says that the parts left, the prefix and the suffix
  make up the name (`PopInv`), and that an item went to the prefix only when the suffix
  had no room for it (`Divided`): so every later slash leaves a prefix that is
  longer still, and every earlier one a suffix too long. `NamedAsWishedHolds` assumes
  `RootAsItself`: a caller gives "/" no other name than itself or none, since
  `b_find.c:154` glues other names to the first entry. `NamesAssumption` has what
  strings are made of, and that directories do not list "." as an entry, which
  `b_find.c:270` skips.
* `LinesReadHolds`: a pattern file of any length, read into a buffer of any first size,
  gives its lines. `BufferInv` relates the file to three parts: what has passed through the
  buffer, what is in it, and what is not yet read; and says that the line begun is the
  one that follows the last separator, and was looked at up to `line_end`. `LinesInv`
  adds that the lines given are those of the file up to there.
* `SaidByListsAlone`: what is said of a name is what the lists say by the matcher,
  for any patterns, whichever inclusions had matched before and whatever else was asked.
  It needs that a mark on an inclusion is true (`ListsInv`: it has one exactly if it
  matches a name asked about since it was added), for lafe_excluded() tries marked
  inclusions last and in another place. `UnmatchedCountedHolds` and `DecidedHolds` are
  the same in terms of what patterns mean; they assume `MatchesAsMeant`.
* `NeverBeyondNames`: without a negated class nothing behind the end of a name is ever
  looked at. Only a class can accept that end and go on (`OnlyNegatedAcceptsEnd`).
* `GlobsMeant`: `MatchesAsMeant` itself, for all patterns of ordinary characters, `?`,
  `*` and `/` and all names, of any length, in which there is nothing for the matcher to
  skip and no `*` before a `/` or a `?` (`GlobsOnly`; the latter are read unlike
  fnmatch(3), see above). For each place in the pattern, the divisions of the rest of the
  name among the rest of the items satisfy the equation by which the loop is defined
  (`TurnMeans`): a `*` may take any run of the name (`StarMeans`), and a slash may stand
  for the end of the name, behind which only `*` can follow (`MeansBehind`). By induction on
  the place they are what the loop computes (`LoopAsMeant`). `GlobsDecided` draws
  the conclusion: for such patterns and names the decisions and the count are as meant, on
  no other condition, and `overrun` never holds.
* `PaddedSize`, `PaddedSizeAdds`: what `padded_size()` returns.

What a function over a sequence or a pattern computes (the reader of a stream, `Length`,
`Items`, `pm_loop`, `RefLines`) is proved with the least number, or the set of numbers
or sequences, for which it holds, by well-founded induction on numbers: `ReadingAppend`,
`LeastNumber`, `SeqInduction`, `LoopAsMeant`.

Only model-checked: that the matcher means what patterns say where they have classes,
escapes or anchors, or something it skips (`MatchesAsMeant` for the patterns of
`MCMatching`, which have all but the last); and all liveness (`FlushReturns`, `Returns`,
`Finishes`, `Terminates`, `ReadingEnds`), which the prover does not reach.

## Not modelled

Running out of memory, but for the stack; what readlink() returns
when a link changes; the wording of messages; option parsing and the conversion of
Perl values; the bytes of headers, their checksum and their numbers other than the
size; the kernel version test for splice(); zero-terminated lists, which no caller
asks for, and standard input as a pattern file. Symbolic links that form cycles are
not in the tree (with `follow_symlinks` the kernel's limit ends them). `b_string.c`
has no state of its own. `ppport.h`, two thirds of the lines of the repository, is
generated by Devel::PPPort and no part of the program. In `Traversal` the paths
that exclusions match are a constant; how a pattern decides is in `Matching`.

## Plan

Done: the record buffer, the body, members and the reader, the walk, names and
sizes, the stack, patterns and their files, and the life of a builder, with proofs of
every safety property of all of them.

Next would be `GlobsMeant` for classes, escapes and anchors, whose items are more
than one character long; then what would extend the model: an abstract preorder
walk that `Traversal` implements, the remaining numbers of a header.
