---------------------------- MODULE FileContents ----------------------------
(***************************************************************************)
(* b_file_write_contents(): the body of one member, copied from an open    *)
(* file into the record buffer or, once the buffer has been emptied and    *)
(* the output is a pipe, past the buffer with splice().                    *)
(*                                                                         *)
(* The member's header has promised `file_size' bytes.  The file itself is *)
(* shared with other processes, which may shorten or extend it at any time. *)
(* b_buffer_flush() is one step here, BlockBuffer has its loop.            *)
(***************************************************************************)
EXTENDS TarFormat

CONSTANTS
  Factor,        \* blocking factor of the record buffer
  MaxChunk,      \* MAX_CHUNK_SIZE
  IntRange,      \* the number of values an int has
  FileSizes,     \* sizes a header may promise, and lengths a file may take
  Outputs,       \* "pipe": b_buffer_set_fd() found that it can splice; "file"
  Others,        \* what other processes do to the file: "shrink", "grow"
  Faults         \* "flush", "splice", "read", "eintr", "pad": what may fail

ASSUME FileContentsAssumption ==
  /\ Factor \in Nat \ {0}
  /\ MaxChunk \in Nat \ {0} /\ Aligned(MaxChunk)
  /\ IntRange \in Nat /\ IntRange >= MaxChunk /\ Aligned(IntRange)
  /\ FileSizes \subseteq Nat
  /\ Outputs \subseteq {"pipe", "file"}

size == Factor * BLOCK

VARIABLES
  pc,            \* where b_file_write_contents() is
  file_size,     \* what the header promised
  output,        \* what the output is
  length,        \* the file's present length
  shortened,     \* 1 once it has been shorter than file_size
  pos,           \* the file offset of file_fd
  unused,        \* buf->unused
  can_splice,    \* buf->can_splice
  emitted,       \* bytes the output accepted since the call
  start,         \* bytes the record held at the call
  max_read, emptied_buffer, splice_total, total, real_total,
  errno

buffer == <<unused, emitted>>
locals == <<max_read, emptied_buffer, splice_total, total, real_total>>
fixed  == <<file_size, start, output>>
file   == <<length, shortened>>
vars   == <<pc, file_size, output, length, shortened, pos, unused, can_splice,
            emitted, start, max_read, emptied_buffer, splice_total, total,
            real_total, errno>>

\* The call comes after the header was put into the record, with any errno.
Init ==
  /\ pc = "top"
  /\ output \in Outputs
  /\ file_size \in FileSizes /\ length = file_size /\ pos = 0
  /\ shortened = 0
  /\ unused \in {b * BLOCK : b \in 0..(Factor - 1)}
  /\ start = size - unused /\ emitted = 0
  /\ can_splice = IF output = "pipe" THEN 1 ELSE 0
  /\ max_read = 0 /\ emptied_buffer = 0 /\ splice_total = 0
  /\ total = 0 /\ real_total = 0
  /\ errno \in {"none", "stale"}

\* Bytes read() or splice() would find, of the n asked for.
Available(n) == IF pos >= length THEN 0 ELSE Smaller(n, length - pos)

\* The int splice_total wraps; only whether it is zero is ever asked.
AddInt(a, n) == IF a + n < IntRange THEN a + n ELSE a + n - IntRange

Fail(e) == pc' = "failed" /\ errno' = e

-----------------------------------------------------------------------------
\* Mutant: the buffer is bypassed while it holds something.
ChooseTransferEarly(emptied) ==
  LET left == file_size - real_total IN
  /\ emptied_buffer' = emptied
  /\ max_read' = Smaller(left, MaxChunk)
  /\ pc' = CASE left = 0 -> "finish"
             [] left # 0 /\ can_splice = 1 -> "splice"
             [] OTHER -> "read"
  /\ UNCHANGED <<fixed, file, pos, can_splice, splice_total, total,
                 real_total, errno>>

\* The head of the loop: nothing is left to copy, or the next chunk is
\* bounded and goes by splice() or by read().
ChooseTransfer(emptied) ==
  LET left == file_size - real_total IN
  /\ emptied_buffer' = emptied
  /\ max_read' = Smaller(left, MaxChunk)
  /\ pc' = CASE left = 0 -> "finish"
             [] left # 0 /\ emptied = 1 /\ can_splice = 1 -> "splice"
             [] OTHER -> "read"
  /\ UNCHANGED <<fixed, file, pos, can_splice, splice_total, total,
                 real_total, errno>>

LoopWithRoom ==
  /\ pc = "top" /\ unused # 0
  /\ ChooseTransfer(emptied_buffer)
  /\ UNCHANGED buffer

LoopFlushing ==
  /\ pc = "top" /\ unused = 0
  /\ unused' = size /\ emitted' = emitted + size
  /\ ChooseTransfer(1)

FlushFails ==
  /\ pc = "top" /\ unused = 0 /\ "flush" \in Faults
  /\ Fail("EIO")
  /\ UNCHANGED <<fixed, file, pos, buffer, can_splice, locals>>

-----------------------------------------------------------------------------
\* Mutant: what was asked for is counted, not what was moved.
SpliceSomeAsked(n) ==
  /\ pc = "splice" /\ n > 0
  /\ pos' = pos + n /\ emitted' = emitted + n
  /\ splice_total' = AddInt(splice_total, max_read)
  /\ total' = total + max_read /\ real_total' = real_total + max_read
  /\ pc' = "top"
  /\ UNCHANGED <<fixed, file, unused, can_splice, max_read, emptied_buffer,
                 errno>>

\* splice() moves n bytes from the file straight to the output.
SpliceSome(n) ==
  /\ pc = "splice" /\ n > 0
  /\ pos' = pos + n /\ emitted' = emitted + n
  /\ splice_total' = AddInt(splice_total, n)
  /\ total' = total + n /\ real_total' = real_total + n
  /\ pc' = "top"
  /\ UNCHANGED <<fixed, file, unused, can_splice, max_read, emptied_buffer,
                 errno>>

\* Mutant: splice() is tried again at the end of the file.
SpliceNothingAgain ==
  /\ pc = "splice" /\ Available(max_read) = 0
  /\ pc' = "top"
  /\ UNCHANGED <<fixed, file, pos, buffer, can_splice, locals, errno>>

\* splice() finds the end of the file: the loop ends, rlen being 0.
SpliceNothing ==
  /\ pc = "splice" /\ Available(max_read) = 0
  /\ pc' = "finish"
  /\ UNCHANGED <<fixed, file, pos, buffer, can_splice, locals, errno>>

\* splice() fails, an interrupt included: from here on the file is read.
SpliceFails ==
  /\ pc = "splice" /\ "splice" \in Faults
  /\ can_splice' = 0 /\ errno' = "EAGAIN"
  /\ pc' = "read"
  /\ UNCHANGED <<fixed, file, pos, buffer, locals>>

\* A file is spliced by whole pages, so short of the end it moves blocks.
SpliceProgress ==
  LET most == Available(max_read) IN
  \E n \in {most} \cup {b * BLOCK : b \in 1..(most \div BLOCK)} : SpliceSome(n)

-----------------------------------------------------------------------------
\* Mutant: read() is asked for more than the room there is.
ReadLimitUnbounded == max_read

\* get_block() hands out all that is unused; read() is asked to fill it.
ReadLimit == Smaller(max_read, unused)

\* Mutant: the rest of the last block is not counted.
ReadChunkUncounted ==
  LET rlen == ReadLimit IN
  /\ pc = "read" /\ Available(rlen) = rlen
  /\ pos' = pos + rlen
  /\ unused' = unused - padded_size(rlen)
  /\ total' = total + rlen /\ real_total' = real_total + rlen
  /\ pc' = "top" /\ max_read' = rlen
  /\ UNCHANGED <<fixed, file, emitted, can_splice, emptied_buffer,
                 splice_total, errno>>

\* reclaim() returns what the chunk did not need.
ReadChunk ==
  LET rlen == ReadLimit IN
  /\ pc = "read" /\ Available(rlen) = rlen
  /\ pos' = pos + rlen
  /\ unused' = unused - padded_size(rlen)
  /\ total' = total + padded_size(rlen) /\ real_total' = real_total + rlen
  /\ pc' = "top" /\ max_read' = rlen
  /\ UNCHANGED <<fixed, file, emitted, can_splice, emptied_buffer,
                 splice_total, errno>>

\* Mutant: the end of the file ends the copy.
ReadShortEnds ==
  /\ pc = "read" /\ Available(ReadLimit) < ReadLimit
  /\ pc' = "finish" /\ unused' = 0 /\ pos' = pos + Available(ReadLimit)
  /\ UNCHANGED <<fixed, file, emitted, can_splice, locals, errno>>

\* The file has become too short.  The room stays handed out, and errno is set
\* only if nothing had set it before.
ReadShort ==
  /\ pc = "read" /\ Available(ReadLimit) < ReadLimit
  /\ pos' = pos + Available(ReadLimit)
  /\ unused' = 0
  /\ Fail(IF errno = "none" THEN "EINVAL" ELSE errno)
  /\ UNCHANGED <<fixed, file, emitted, can_splice, locals>>

ReadInterrupted ==
  /\ pc = "read" /\ "eintr" \in Faults
  /\ errno' = "EINTR"
  /\ UNCHANGED <<pc, fixed, file, pos, buffer, can_splice, locals>>

ReadFails ==
  /\ pc = "read" /\ "read" \in Faults
  /\ unused' = 0
  /\ Fail("EIO")
  /\ UNCHANGED <<fixed, file, pos, emitted, can_splice, locals>>

-----------------------------------------------------------------------------
PadNeeded == splice_total # 0 /\ can_splice = 1 /\ ~Aligned(total)

\* Mutant: the padding is as long as what it completes.
WritePadSwapped ==
  /\ pc = "finish" /\ PadNeeded
  /\ emitted' = emitted + (total % BLOCK)
  /\ pc' = "done"
  /\ UNCHANGED <<fixed, file, pos, unused, can_splice, locals, errno>>

\* What was spliced is completed to a block by zeros of the empty record.
WritePad ==
  /\ pc = "finish" /\ PadNeeded
  /\ emitted' = emitted + (BLOCK - (total % BLOCK))
  /\ pc' = "done"
  /\ UNCHANGED <<fixed, file, pos, unused, can_splice, locals, errno>>

PadFails ==
  /\ pc = "finish" /\ PadNeeded /\ "pad" \in Faults
  /\ Fail("EIO")
  /\ UNCHANGED <<fixed, file, pos, buffer, can_splice, locals>>

Finish ==
  /\ pc = "finish" /\ ~PadNeeded
  /\ pc' = "done"
  /\ UNCHANGED <<fixed, file, pos, buffer, can_splice, locals, errno>>

-----------------------------------------------------------------------------
\* Other processes truncate the file, or append to it.
Running == pc \notin {"done", "failed"}

Resize(n) ==
  /\ Running
  /\ \/ n < length /\ "shrink" \in Others
     \/ n > length /\ "grow" \in Others
  /\ length' = n /\ shortened' = IF n < file_size THEN 1 ELSE shortened
  /\ UNCHANGED <<pc, fixed, pos, buffer, can_splice, locals, errno>>

Step == \/ LoopWithRoom \/ LoopFlushing
        \/ SpliceProgress \/ SpliceNothing
        \/ ReadChunk \/ ReadShort
        \/ WritePad \/ Finish

Fault == FlushFails \/ SpliceFails \/ ReadInterrupted \/ ReadFails \/ PadFails

Next == Step \/ Fault \/ \E n \in FileSizes : Resize(n)

\* The function runs on: no system call blocks for good, and the retry of an
\* interrupted read() is not interrupted for ever.
Spec == Init /\ [][Next]_vars /\ WF_vars(Step)

-----------------------------------------------------------------------------
\* The type of the state: the room left in the record is never negative.
TypeOK ==
  /\ pc \in {"top", "splice", "read", "finish", "done", "failed"}
  /\ output \in Outputs /\ shortened \in {0, 1}
  /\ file_size \in FileSizes /\ length \in FileSizes /\ pos \in Nat
  /\ unused \in 0..size /\ start \in 0..size /\ emitted \in Nat
  /\ can_splice \in {0, 1} /\ emptied_buffer \in {0, 1}
  /\ max_read \in 0..MaxChunk /\ splice_total \in 0..(IntRange - 1)
  /\ total \in Nat /\ real_total \in 0..file_size
  /\ errno \in {"none", "stale", "EAGAIN", "EINTR", "EIO", "EINVAL"}

\* What the call has put into the stream, in the output or still in the record.
Written == emitted + (size - unused) - start

\* A member whose body was reported written has as many bytes in the stream as
\* its header tells a reader to skip, unless the file was too short for a time
\* while it could be spliced.
ContentsWhole ==
  pc = "done" /\ ~(output = "pipe" /\ shortened = 1) =>
    Written = padded_size(file_size)

\* The same of every file, as the change log has it.
NoMismatchedSizes == pc = "done" => Written = padded_size(file_size)

\* The count returned, which b_builder_write_file() adds to builder->total, is
\* what was written, but for the padding that follows splice().
TotalIsWritten == pc = "done" /\ output = "file" => total = Written

\* Bytes never overtake those in the record, and the zeros of the last block
\* are taken from a record that holds nothing: past the buffer only when empty.
BypassOnlyWhenEmpty ==
  pc = "splice" \/ (pc = "finish" /\ PadNeeded) => unused = size

\* The file is copied without gap or repetition, whichever way each chunk went.
Contiguous == Running => pos = real_total

\* When the call succeeds, a body cut short by splice() included, the next header
\* begins on a block: members archived later can be found.  Not so for a file
\* that was too short and then grew, if splice() failed in between.
StreamAligned ==
  pc = "done" /\ ~(output = "pipe" /\ can_splice = 0 /\ shortened = 1) =>
    Aligned(Written)

\* The call returns, however short the transfers and whatever happens to the
\* file meanwhile.
Returns == <>(pc \in {"done", "failed"})
=============================================================================
