---------------------------- MODULE BlockBuffer ----------------------------
(***************************************************************************)
(* The record buffer of b_buffer.c: callers are handed block-aligned room  *)
(* in one record, fill it, and may give the unneeded tail back; a full     *)
(* record is written out before more room is given.                        *)
(*                                                                         *)
(* The write() loop of b_buffer_flush() is modelled call by call.  Each    *)
(* call may be interrupted, accept a part, fail, or accept nothing.        *)
(* Contents are abstracted to one number: `dirty', the length of the       *)
(* shortest prefix of the record outside which every byte is zero.         *)
(***************************************************************************)
EXTENDS TarFormat

CONSTANTS
  Factor,      \* blocking factor given to b_buffer_new()
  Handles,     \* file descriptors a caller may attach
  Requests,    \* sizes callers ask room for
  Chunks,      \* sizes a short write() may accept
  Faults,      \* which of "eintr", "error", "zero" write() may answer
  MaxEmitted   \* bound: no flush starts once so many bytes went out

ASSUME BlockBufferAssumption ==
  /\ Factor \in Nat
  /\ Handles \subseteq Nat
  /\ Requests \subseteq Nat \ {0}
  /\ Chunks \subseteq Nat \ {0}
  /\ MaxEmitted \in Nat

\* buf->size; a factor of 0 stands for B_BUFFER_DEFAULT_FACTOR.
size == IF Factor = 0 THEN 20 * BLOCK ELSE Factor * BLOCK

VARIABLES
  fd,        \* buf->fd; 0 stands for "no handle"
  unused,    \* buf->unused
  dirty,     \* see above
  given,     \* what the last get_block() gave and reclaim() may still return
  filled,    \* how much of it the caller has written
  pc,        \* "idle" between calls, "flush" within b_buffer_flush(),
             \* "resume" when that flush has returned to get_block()
  want,      \* the request that started this flush; 0 for a caller's flush()
  off,       \* off, the progress of the write() loop
  ret,       \* ret, the sign of what the last write() of this flush returned
  emitted,   \* bytes the descriptors accepted so far
  stream,    \* "torn" once a flush ended before its record was accepted
  errno      \* the error the last call returned, "none" when it succeeded

vars == <<fd, unused, dirty, given, filled, pc, want, off, ret, emitted,
          stream, errno>>

Init ==
  /\ fd = 0 /\ unused = size /\ dirty = 0
  /\ given = 0 /\ filled = 0
  /\ pc = "idle" /\ want = 0 /\ off = 0 /\ ret = 0
  /\ emitted = 0 /\ stream = "whole" /\ errno = "none"

full == unused = 0

-----------------------------------------------------------------------------
\* b_buffer_set_fd(): the record is kept, whatever it holds.
SetFd(h) ==
  /\ pc = "idle"
  /\ fd' = h
  /\ UNCHANGED <<unused, dirty, given, filled, pc, want, off, ret, emitted,
                 stream, errno>>

\* Mutant: the room that is left is not compared with the request.
AllotUnchecked(len) ==
  /\ pc' = "idle" /\ want' = len /\ filled' = 0
  /\ errno' = "none" /\ given' = padded_size(len)
  /\ unused' = unused - padded_size(len)
  /\ UNCHANGED <<fd, dirty, off, ret, emitted, stream>>

\* The end of b_buffer_get_block(): the request is refused, or the room
\* directly behind what is taken is given.
Allot(len) ==
  LET padded_len == padded_size(len) IN
  /\ pc' = "idle" /\ want' = len /\ filled' = 0
  /\ IF padded_len > unused
       THEN errno' = "EFBIG" /\ given' = 0 /\ UNCHANGED unused
       ELSE errno' = "none" /\ given' = padded_len /\
            unused' = unused - padded_len
  /\ UNCHANGED <<fd, dirty, off, ret, emitted, stream>>

\* get_block() without a handle: EBADF.
GetBlockNoHandle(len) ==
  /\ pc = "idle" /\ fd = 0
  /\ given' = 0 /\ filled' = 0 /\ want' = len /\ errno' = "EBADF"
  /\ UNCHANGED <<fd, unused, dirty, pc, off, ret, emitted, stream>>

GetBlock(len) == pc = "idle" /\ fd # 0 /\ ~full /\ Allot(len)

\* The caller writes n bytes into the room it was given.
Fill(n) ==
  /\ pc = "idle" /\ filled = 0 /\ n <= given
  /\ filled' = n
  /\ dirty' = Larger(dirty, (size - unused - given) + n)
  /\ UNCHANGED <<fd, unused, given, pc, want, off, ret, emitted, stream, errno>>

\* Mutant: what was used is not rounded up to blocks.
ReclaimUnpadded(used) ==
  /\ pc = "idle" /\ given # 0 /\ used = filled
  /\ unused' = unused + (given - used)
  /\ given' = 0 /\ filled' = 0
  /\ UNCHANGED <<fd, dirty, pc, want, off, ret, emitted, stream, errno>>

\* b_buffer_reclaim(): everything behind the last block that was used returns.
Reclaim(used) ==
  /\ pc = "idle" /\ given # 0 /\ used = filled
  /\ unused' = unused + (given - padded_size(used))
  /\ given' = 0 /\ filled' = 0
  /\ UNCHANGED <<fd, dirty, pc, want, off, ret, emitted, stream, errno>>

-----------------------------------------------------------------------------
\* b_buffer_flush() enters its loop for get_block(len), or for a caller.
EnterLoop(len) ==
  /\ emitted < MaxEmitted
  /\ pc' = "flush" /\ want' = len /\ off' = 0 /\ ret' = 0
  /\ given' = 0 /\ filled' = 0 /\ errno' = "none"
  /\ UNCHANGED <<fd, unused, dirty, emitted, stream>>

GetBlockWhenFull(len) == pc = "idle" /\ fd # 0 /\ full /\ EnterLoop(len)

Resume == pc = "resume" /\ Allot(want)

FlushNoHandle ==
  /\ pc = "idle" /\ fd = 0
  /\ errno' = "EBADF"
  /\ UNCHANGED <<fd, unused, dirty, given, filled, pc, want, off, ret, emitted,
                 stream>>

\* With nothing buffered, flush() returns without any effect.
Flush == pc = "idle" /\ fd # 0 /\ unused # size /\ EnterLoop(0)

\* Mutants: one short write is enough; the loop goes on at the end.
LoopingOnce == off = 0 \/ ret < 0
LoopingOn   == off <= size \/ ret < 0

Looping == off < size \/ ret < 0

\* write() accepts n bytes of the record's remainder.
WriteSome(n) ==
  /\ pc = "flush" /\ Looping /\ n <= size - off
  /\ off' = off + n /\ ret' = 1 /\ emitted' = emitted + n
  /\ UNCHANGED <<fd, unused, dirty, given, filled, pc, want, stream, errno>>

WriteInterrupted ==
  /\ pc = "flush" /\ Looping /\ "eintr" \in Faults
  /\ ret' = -1
  /\ UNCHANGED <<fd, unused, dirty, given, filled, pc, want, off, emitted,
                 stream, errno>>

\* Any other error leaves the loop and, in get_block(), gives no room.  The
\* record stays as it was, and so will be sent from its start next time.
WriteFails ==
  /\ pc = "flush" /\ Looping /\ "error" \in Faults
  /\ pc' = "idle" /\ off' = 0 /\ ret' = -1 /\ stream' = "torn" /\ errno' = "EIO"
  /\ UNCHANGED <<fd, unused, dirty, given, filled, want, emitted>>

\* Mutants: the record is not zeroed; the record is not empty.
RecycleUnzeroed ==
  /\ pc' = IF want = 0 THEN "idle" ELSE "resume"
  /\ off' = 0 /\ unused' = size
  /\ UNCHANGED <<fd, given, filled, want, emitted, errno, dirty>>
RecycleTaken ==
  /\ pc' = IF want = 0 THEN "idle" ELSE "resume"
  /\ off' = 0 /\ dirty' = 0
  /\ UNCHANGED <<fd, given, filled, want, emitted, errno, unused>>

\* After the loop: the record is zeroed and empty, and the caller goes on.
Recycle ==
  /\ pc' = IF want = 0 THEN "idle" ELSE "resume"
  /\ off' = 0 /\ dirty' = 0 /\ unused' = size
  /\ UNCHANGED <<fd, given, filled, want, emitted, errno>>

\* write() accepts nothing: the loop is left as if it were complete.
WriteAcceptsNothing ==
  /\ pc = "flush" /\ Looping /\ "zero" \in Faults
  /\ ret' = 0 /\ stream' = "torn"
  /\ Recycle

FlushDone ==
  /\ pc = "flush" /\ ~Looping
  /\ Recycle
  /\ UNCHANGED <<ret, stream>>

\* b_buffer_reset().
Reset ==
  /\ pc = "idle"
  /\ fd' = 0 /\ unused' = size /\ dirty' = 0 /\ given' = 0 /\ filled' = 0
  /\ UNCHANGED <<pc, want, off, ret, emitted, stream, errno>>

-----------------------------------------------------------------------------
\* A write() takes all it is offered, or one of the short amounts.
WriteProgress == \E n \in Chunks \cup {size - off} : WriteSome(n)

Next ==
  \/ \E h \in Handles : SetFd(h)
  \/ \E len \in Requests :
       GetBlockNoHandle(len) \/ GetBlock(len) \/ GetBlockWhenFull(len)
  \/ \E n \in Requests : Fill(n) \/ Reclaim(n)
  \/ Flush \/ FlushNoHandle
  \/ Resume
  \/ WriteProgress
  \/ WriteInterrupted \/ WriteFails \/ WriteAcceptsNothing
  \/ FlushDone
  \/ Reset

\* The descriptor goes on accepting bytes: write() is blocking here, and what
\* the loop waits for is the reader of the stream.
Fairness ==
  /\ WF_vars(WriteProgress)
  /\ WF_vars(FlushDone)
  /\ WF_vars(Resume)

Spec == Init /\ [][Next]_vars /\ Fairness
-----------------------------------------------------------------------------
\* The type of the state: no sum of sizes ever exceeds the record.
TypeOK ==
  /\ fd \in Handles \cup {0}
  /\ unused \in 0..size /\ dirty \in 0..size
  /\ given \in 0..size /\ filled \in 0..given
  /\ pc \in {"idle", "flush", "resume"}
  /\ want \in Requests \cup {0}
  /\ off \in 0..size /\ ret \in {-1, 0, 1}
  /\ emitted \in Nat
  /\ stream \in {"whole", "torn"}
  /\ errno \in {"none", "EBADF", "EFBIG", "EIO"}

\* A request for one block (every header, every block of a long name) is never
\* refused for want of room: only a request larger than a block can meet EFBIG,
\* which b_builder_write_file() would turn into a silently missing member.
BlockNeverRefused == errno = "EFBIG" => want > BLOCK

\* All room that has not been handed out is zero, so the header, the padding
\* of a file's last block and the tail of a flushed record start from zeros;
\* b_header_encode_block() and b_file_write_contents() write no padding.
FreshRoomIsZero == dirty <= size - unused

\* As long as no flush fell short, the stream is made of whole records,
\* however the writes were split and interrupted.
WholeRecords == stream = "whole" => \E k \in 0..(emitted - off) : emitted - off = k * size

\* The buffer is a ByteSink: callers' bytes leave it once, in whole records,
\* and are forgotten only by b_buffer_reset() or when write() accepts nothing.
Sink == INSTANCE ByteSink WITH Capacity  <- size,
                               buffered  <- size - unused,
                               delivered <- emitted - off,
                               stream    <- stream
RefinesSink == Sink!SinkSpec

\* A flush that was begun returns, whatever interrupts it.
FlushReturns == pc = "flush" ~> pc = "idle"
=============================================================================
