---------------------------- MODULE MemberWriter ----------------------------
(***************************************************************************)
(* b_builder_write_file(): the header, extension headers and body of each  *)
(* member, put block by block into the record buffer, which is written out *)
(* whenever it is full and at the end by finish().                         *)
(*                                                                         *)
(* One step is one b_buffer_get_block() with the encoding of the block it  *)
(* returns, or the flush that get_block() does first; a flush that fails,  *)
(* part of the record sent or not, makes it return NULL.  BlockBuffer has  *)
(* the inside of the flush.                                                *)
(***************************************************************************)
EXTENDS TarReader, FiniteSets, SequencesExt

CONSTANTS
  Factor,      \* blocks in a record
  Formats,     \* among "none", "gnu" and "pax": extensions that may be enabled
  Inputs,      \* for each of them the files there may be, as records of
               \*   name, len: the member name and its length in bytes
               \*   cut:       path_split() could not fit it into a header
               \*   type:      what inode_linktype() gives: "0", "2" or "5"
               \*   blocks:    length of the body
               \*   inode:     0 if the file has a single link
               \*   dest, destlen: what a symbolic link points to
  MaxFiles,    \* how many of them are archived at most
  Hardlinks,   \* B_BUILDER_PRESERVE_HARDLINKS
  FaultSets    \* what may fail: sets of "flush", "read", "lookup", "readlink"

\* What path_split() and lstat() say of a file: a name it could not fit is longer
\* than any field, only regular files have a body, only symbolic links point
\* anywhere.
IsFile(f) ==
  /\ f.name # None /\ f.len \in Nat \ {0}
  /\ f.cut \in BOOLEAN /\ (f.cut => f.len > 100)
  /\ f.type \in {"0", "2", "5"} /\ f.blocks \in Nat /\ f.inode \in Nat
  /\ f.type # "0" => f.blocks = 0
  /\ IF f.type = "2" THEN f.dest # None /\ f.destlen \in Nat
     ELSE f.dest = None /\ f.destlen = 0

ASSUME MemberWriterAssumption ==
  /\ Factor \in Nat \ {0} /\ MaxFiles \in Nat
  /\ Formats \subseteq {"none", "gnu", "pax"} /\ Formats \subseteq DOMAIN Inputs
  /\ Hardlinks \in BOOLEAN
  /\ \A e \in Formats : \A f, g \in Inputs[e] :
       IsFile(f) /\ (f.name = g.name => f = g)

VARIABLES
  extensions,  \* which are enabled by builder->options
  faults,    \* what may fail this time
  files,     \* the entries of a directory b_find() will hand over, in order
  k,         \* the one being written
  pc,        \* what the next block is for
  data,      \* the record buffer
  used,      \* blocks of it that are taken
  flushed,   \* the records whose flush succeeded
  stream,    \* what the handle received, the parts failing flushes sent included
  shape,     \* "torn" once such a part was sent, "shifted" if it ended in a block
  intact,    \* blocks of the archive the handle had when that first happened
  header,    \* the b_header of files[k]
  block,     \* the pointer `block', as an index into the record
  wrlen,     \* wrlen, in blocks
  left,      \* blocks still to come of the present name or body
  total,     \* builder->total, in blocks
  cache,     \* HardlinkCache: the name first seen for an inode
  err,       \* type of builder->err
  archived,  \* headers of the files for which 1 was returned
  ends,      \* and how many blocks there were in the archive when it was
  died       \* whether finish(), or archive_as() before it, croaked

output  == <<flushed, stream, shape, intact>>
record  == <<data, used, output>>
input   == <<extensions, faults, files>>
member  == <<input, k, header, block, wrlen, left>>
verdict == <<cache, err, archived, ends, died>>
vars    == <<extensions, faults, files, k, pc, data, used, flushed, stream,
             shape, intact, header, block, wrlen, left, total, cache, err,
             archived, ends, died>>

Blank == [b \in 1..Factor |-> Zero]
NoHeader == [name |-> None]

Init ==
  /\ extensions \in Formats /\ faults \in FaultSets
  /\ files \in UNION {[1..n -> Inputs[extensions]] : n \in 1..MaxFiles}
  /\ IsInjective(files)
  /\ k = 1 /\ pc = "begin"
  /\ data = Blank /\ used = 0
  /\ flushed = <<>> /\ stream = <<>> /\ shape = "whole" /\ intact = 0
  /\ header = NoHeader /\ block = 0 /\ wrlen = 0 /\ left = 0 /\ total = 0
  /\ cache = [i \in {f.inode : f \in ToSet(files)} |-> None]
  /\ err = "ok" /\ archived = <<>> /\ ends = <<>> /\ died = FALSE

-----------------------------------------------------------------------------
file == files[k]
Blocks(n) == padded_size(n) \div BLOCK

\* snprintf(): characters of a decimal number, up to five of them.
Digits(n) == 1 + Cardinality({p \in {10, 100, 1000, 10000} : p <= n})

\* b_header_compute_pax_length(): a record's length counts its own digits.
compute_pax_length(len, key) ==
  LET rest    == 3 + key + len
      Once(n) == rest + Digits(n)
  IN  Once(Once(Once(len)))

\* A directory's long name carries the slash its header would.
long_len == file.len + (IF file.type = "5" THEN 1 ELSE 0)

RecordBlocks ==
  Blocks(compute_pax_length(long_len, 4) +
         (IF header.link = None THEN 0
          ELSE compute_pax_length(header.linklen, 8)))

\* header_for_file(): a further link to an inode names the first.
IsHardlink == Hardlinks /\ file.type = "0" /\ file.inode # 0
Linked     == IsHardlink /\ cache[file.inode] # None

\* Mutant: a further link names itself.
header_for_itself ==
  [name    |-> file.name, cut |-> file.cut, size |-> file.blocks,
   type    |-> IF Linked THEN "1" ELSE file.type,
   link    |-> IF Linked THEN file.name ELSE file.dest,
   linklen |-> IF Linked THEN file.len ELSE file.destlen]

header_for_file ==
  LET first == CHOOSE f \in ToSet(files) : f.name = cache[file.inode] IN
  [name    |-> file.name, cut |-> file.cut, size |-> file.blocks,
   type    |-> IF Linked THEN "1" ELSE file.type,
   link    |-> IF Linked THEN first.name ELSE file.dest,
   linklen |-> IF Linked THEN first.len ELSE file.destlen]

truncated_link == header.linklen > 100

\* What fits of a name into a header, and the header block itself.
Fitting(name, cut) == IF cut THEN "cut" ELSE name
HeaderBlock == Header(Fitting(header.name, header.cut), header.type,
                      Fitting(header.link, truncated_link), header.size)

-----------------------------------------------------------------------------
\* write_file() returns: b_find() goes on unless the error is fatal.
Return(e) ==
  /\ err' = e
  /\ k' = k + 1
  /\ pc' = IF e = "fatal" THEN "finish"
           ELSE IF k = Len(files) THEN "finish" ELSE "begin"
  /\ died' = (died \/ e = "fatal")

\* The error of the previous file is cleared, then the header is built.  The
\* name is in the hard link cache from here on, whatever becomes of the file.
Begin ==
  /\ pc = "begin"
  /\ header' = header_for_file
  /\ cache' = IF IsHardlink /\ ~Linked
                THEN [cache EXCEPT ![file.inode] = file.name] ELSE cache
  /\ UNCHANGED <<input, record, block, wrlen, left, total, archived,
                 ends>>

Proceed ==
  /\ Begin
  /\ LET extended == header'.cut \/ header'.linklen > 100 IN
     /\ extended => extensions # "none"
     /\ pc' = IF extended THEN "extension" ELSE "header"
  /\ err' = "ok"
  /\ UNCHANGED <<k, died>>

NameTooLong ==
  /\ Begin
  /\ header'.cut \/ header'.linklen > 100
  /\ extensions = "none"
  /\ Return("warn")

UserLookupFails == Begin /\ "lookup" \in faults /\ Return("warn")

ReadlinkFails ==
  /\ pc = "begin" /\ file.type = "2" /\ "readlink" \in faults
  /\ Return("fatal")
  /\ UNCHANGED <<input, record, header, block, wrlen, left, total, cache,
                 archived, ends>>

-----------------------------------------------------------------------------
\* Mutant: the last block is given out again.
TakeAgain(b) ==
  /\ used < Factor
  /\ used' = used + 1
  /\ data' = [data EXCEPT ![Larger(used, 1)] = b]
  /\ UNCHANGED output

\* b_buffer_get_block() gives the next block, holding b.
Take(b) ==
  /\ used < Factor
  /\ used' = used + 1
  /\ data' = [data EXCEPT ![used + 1] = b]
  /\ UNCHANGED output

Needing == {"extension", "long_name", "long_link", "records", "header"}

\* Once a part ended within a block, the blocks sent are in no block of the stream.
\* (That a second such part may bring them back into line is left out.)
Sent(blocks) ==
  IF shape = "shifted" THEN [b \in DOMAIN blocks |-> Mixed] ELSE blocks

\* Mutant: only what was taken of the record is written.
WriteOutShort ==
  /\ stream' = stream \o Sent(SubSeq(data, 1, used))
  /\ flushed' = flushed \o SubSeq(data, 1, used)
  /\ data' = Blank /\ used' = 0
  /\ UNCHANGED <<shape, intact>>

\* ... after writing out a full record.
WriteOut ==
  /\ stream' = stream \o Sent(data)
  /\ flushed' = flushed \o data
  /\ data' = Blank /\ used' = 0
  /\ UNCHANGED <<shape, intact>>

\* A flush fails: write() took n whole blocks, and some of the next or not, and
\* all of the record is kept, to be sent again from its start.
PartlySent ==
  /\ \/ UNCHANGED <<stream, shape, intact>>
     \/ \E n \in 0..(Factor - 1), inside \in BOOLEAN :
          /\ n > 0 \/ inside
          /\ stream' = stream \o Sent(SubSeq(data, 1, n))
          /\ shape' = IF inside THEN "shifted"
                      ELSE IF shape = "whole" THEN "torn" ELSE shape
          /\ intact' = IF shape = "whole" THEN Len(stream) + Smaller(n, used)
                       ELSE intact
  /\ UNCHANGED <<data, used, flushed>>

\* Mutant: the flush is left out.
FlushForRoomNot == pc \in Needing /\ used = Factor /\ UNCHANGED vars

FlushForRoom ==
  /\ pc \in Needing /\ used = Factor
  /\ WriteOut
  /\ UNCHANGED <<pc, member, total, verdict>>

\* A failure in the midst of a long name is fatal, for it leaves a header half
\* written; where a header was to begin, none is recorded.
FlushForRoomFails ==
  /\ pc \in Needing /\ used = Factor /\ "flush" \in faults
  /\ Return(IF pc \in {"long_name", "long_link", "records"} THEN "fatal"
            ELSE err)
  /\ PartlySent
  /\ UNCHANGED <<input, header, block, wrlen, left, total, cache, archived, ends>>

\* encode_longlink() up to the blocks of the name: the extension header goes
\* where `block' points, and what was allotted last is counted.
Encode(b, n, at, count, next) ==
  /\ data' = [data EXCEPT ![at] = b]
  /\ total' = total + count
  /\ left' = n
  /\ pc' = next

\* One block serves whichever extension header comes first.
TakeExtension ==
  /\ pc = "extension" /\ used < Factor
  /\ used' = used + 1 /\ block' = used + 1 /\ wrlen' = 1
  /\ CASE extensions = "pax" ->
            Encode(Extension("x", RecordBlocks), RecordBlocks, used + 1, 1,
                   "records")
       [] extensions = "gnu" /\ header.cut ->
            Encode(Extension("L", Blocks(long_len)), Blocks(long_len),
                   used + 1, 1, "long_name")
       [] extensions = "gnu" /\ ~header.cut ->
            Encode(Extension("K", Blocks(header.linklen)),
                   Blocks(header.linklen), used + 1, 1, "long_link")
  /\ UNCHANGED <<output, input, k, header, verdict>>

\* The blocks of a long name; n of them in all.
TakeText(of, n) ==
  /\ left > 0
  /\ Take(Text(of, n - left + 1))
  /\ left' = left - 1

\* Mutant: the long link is written for the long name.
TakeLongNameSwapped ==
  /\ pc = "long_name"
  /\ TakeText(header.link, Blocks(long_len))
  /\ UNCHANGED <<pc, input, k, header, block, wrlen, total, verdict>>

TakeLongName ==
  /\ pc = "long_name"
  /\ TakeText(header.name, Blocks(long_len))
  /\ UNCHANGED <<pc, input, k, header, block, wrlen, total, verdict>>

TakeLongLink ==
  /\ pc = "long_link"
  /\ TakeText(header.link, Blocks(header.linklen))
  /\ UNCHANGED <<pc, input, k, header, block, wrlen, total, verdict>>

TakeRecords ==
  /\ pc = "records"
  /\ TakeText(<<header.name, header.link>>, RecordBlocks)
  /\ UNCHANGED <<pc, input, k, header, block, wrlen, total, verdict>>

\* Mutant: the blocks of a long name are not counted.
LongNameDoneUncounted ==
  LET n == Blocks(long_len) IN
  /\ pc = "long_name" /\ left = 0
  /\ wrlen' = n
  /\ IF truncated_link
       THEN Encode(Extension("K", Blocks(header.linklen)),
                   Blocks(header.linklen), block, n, "long_link")
       ELSE pc' = "header" /\ UNCHANGED <<data, left, total>>
  /\ UNCHANGED <<used, output, input, k, header, block, verdict>>

\* After the long name its blocks are counted; the header of a long link then
\* goes to the same `block', and wrlen is counted again.
LongNameDone ==
  LET n == Blocks(long_len) IN
  /\ pc = "long_name" /\ left = 0
  /\ wrlen' = n
  /\ IF truncated_link
       THEN Encode(Extension("K", Blocks(header.linklen)),
                   Blocks(header.linklen), block, n + n, "long_link")
       ELSE /\ total' = total + n /\ pc' = "header"
            /\ UNCHANGED <<data, left>>
  /\ UNCHANGED <<used, output, input, k, header, block, verdict>>

TextDone ==
  LET n == IF pc = "records" THEN RecordBlocks ELSE Blocks(header.linklen) IN
  /\ pc \in {"long_link", "records"} /\ left = 0
  /\ wrlen' = n /\ total' = total + n
  /\ pc' = "header"
  /\ UNCHANGED <<record, input, k, header, block, left, verdict>>

-----------------------------------------------------------------------------
\* Everything put into the archive so far, written out or not.
Taken == flushed \o SubSeq(data, 1, used)

Success ==
  /\ archived' = Append(archived, header)
  /\ ends' = Append(ends, Len(Taken'))
  /\ Return(err)

\* The member's own header, followed by its body if it has one.
TakeHeader ==
  /\ pc = "header"
  /\ Take(HeaderBlock)
  /\ total' = total + 1 /\ wrlen' = 1
  /\ IF header.type = "0"
       THEN /\ pc' = "body" /\ left' = header.size
            /\ UNCHANGED <<k, err, archived, ends, died>>
       ELSE Success /\ UNCHANGED left
  /\ UNCHANGED <<input, header, block, cache>>

\* b_file_write_contents(), whose loop writes a full record out even when
\* nothing is left to follow it.
FlushInBody ==
  /\ pc = "body" /\ used = Factor
  /\ WriteOut
  /\ UNCHANGED <<pc, member, total, verdict>>

TakeBody ==
  LET n == Smaller(left, Factor - used) IN
  /\ pc = "body" /\ used < Factor /\ left > 0
  /\ data' = [b \in 1..Factor |->
               IF b \in (used + 1)..(used + n)
                 THEN Data(header.name, header.size - left + (b - used))
                 ELSE data[b]]
  /\ used' = used + n /\ left' = left - n
  /\ UNCHANGED <<pc, output, input, k, header, block, wrlen, total, verdict>>

BodyDone ==
  /\ pc = "body" /\ used < Factor /\ left = 0
  /\ total' = total + header.size /\ wrlen' = header.size
  /\ UNCHANGED <<record, input, header, block, left, cache>>
  /\ Success

BodyFlushFails ==
  /\ pc = "body" /\ used = Factor /\ "flush" \in faults
  /\ PartlySent
  /\ Return("warn")
  /\ UNCHANGED <<input, header, block, wrlen, left, total, cache, archived, ends>>

\* Mutant: the whole record is taken back, not the room of the body.
ReadFailsReclaimed ==
  /\ pc = "body" /\ used < Factor /\ left > 0 /\ "read" \in faults
  /\ data' = Blank /\ used' = 0
  /\ Return("warn")
  /\ UNCHANGED <<output, input, header, block, wrlen, left, total, cache,
                 archived, ends>>

\* read() fails or ends early: the room handed out stays taken.
ReadFails ==
  /\ pc = "body" /\ used < Factor /\ left > 0 /\ "read" \in faults
  /\ used' = Factor
  /\ Return("warn")
  /\ UNCHANGED <<data, output, input, header, block, wrlen, left, total, cache,
                 archived, ends>>

-----------------------------------------------------------------------------
\* finish(): what is buffered is written out, and a recorded warning is fatal.
FinishCroaks == err = "warn"    \* without ignore_errors

Finish ==
  /\ pc = "finish"
  /\ IF used = 0 THEN UNCHANGED record ELSE WriteOut
  /\ died' = (died \/ FinishCroaks)
  /\ pc' = "finished"
  /\ UNCHANGED <<member, total, cache, err, archived, ends>>

FinishFlushFails ==
  /\ pc = "finish" /\ used # 0 /\ "flush" \in faults
  /\ PartlySent
  /\ died' = TRUE
  /\ pc' = "finished"
  /\ UNCHANGED <<member, total, cache, err, archived, ends>>

Terminated == pc = "finished" /\ UNCHANGED vars

Step ==
  \/ Proceed \/ NameTooLong
  \/ FlushForRoom
  \/ TakeExtension \/ TakeLongName \/ TakeLongLink \/ TakeRecords
  \/ LongNameDone \/ TextDone
  \/ TakeHeader \/ FlushInBody \/ TakeBody \/ BodyDone
  \/ Finish

Fault ==
  \/ UserLookupFails \/ ReadlinkFails
  \/ FlushForRoomFails \/ BodyFlushFails \/ ReadFails \/ FinishFlushFails

Next == Step \/ Fault \/ Terminated

\* write_file() and its callers run on without waiting for anyone but write().
Spec == Init /\ [][Next]_vars /\ WF_vars(Step)
-----------------------------------------------------------------------------
\* The member a reader should find for a header that was archived.
Archived(h) ==
  [name |-> h.name, type |-> h.type, link |-> h.link,
   body |-> IF h.type = "0" /\ h.size > 0 THEN h.name ELSE None]
Expected == [i \in DOMAIN archived |-> Archived(archived[i])]

\* Nothing can go wrong once a member's name is in the hard link cache.
Undisturbed == faults \subseteq {"readlink"}

\* A reader finds the members for which write_file() returned 1, and no others,
\* each with its full name, its type, what it links to and its whole body,
\* however headers, long names and bodies fell across the records.
RoundTrip == pc = "finished" /\ Undisturbed => Members(stream) = Expected

\* Between members builder->total, which archive_as() returns, is what was put
\* into the archive.
TotalCounts == pc = "begin" /\ Undisturbed => total = Len(Taken)

\* What has been put into the archive is not written to again: no block given
\* out by get_block() is still written to when the next has been asked for.
AppendOnly == [][IsPrefix(Taken, Taken')]_vars

\* The record buffer, seen in blocks, is a ByteSink: whatever a member needs, a
\* record goes out as a whole, or its flush fails and tears the stream.
Sink == INSTANCE ByteSink WITH
          Capacity  <- Factor,
          buffered  <- used,
          delivered <- Len(stream),
          stream    <- (IF shape = "whole" THEN "whole" ELSE "torn")
RefinesSink == Sink!SinkSpec

\* A hard link follows the member that it links to, which has the body.
HardlinkTargets ==
  pc = "finished" /\ Undisturbed =>
    LET ms == Members(stream) IN
    \A i \in DOMAIN ms : ms[i].type = "1" =>
      \E j \in 1..(i - 1) : ms[j].type = "0" /\ ms[j].name = ms[i].link

\* Blocks of the archive that the handle received as they were put there, before
\* any record was sent a second time.
Intact == IF shape = "whole" THEN Len(stream) ELSE intact

\* Whatever fails, and whatever is archived after the failure, the members that
\* were archived before the first failure are read from the stream as they were.
\* Those whose blocks were still in the record when its flush failed half way are
\* excepted: it is sent again, and what was sent of it falls into them.
EarlierMembersReadable ==
  pc = "finished" =>
    \A n \in 1..Len(archived) :
      (\A i \in 1..n : archived[i].name = files[i].name) /\ ends[n] <= Intact
        => IsPrefix(SubSeq(Expected, 1, n), Members(stream))

\* finish() dies if a file could not be archived.
FinishDies ==
  pc = "finished" /\ Len(archived) < Len(files) => died

\* Every archive is finished.
Finishes == <>(pc = "finished")
=============================================================================
