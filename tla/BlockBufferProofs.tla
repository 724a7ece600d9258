------------------------- MODULE BlockBufferProofs -------------------------
(***************************************************************************)
(* Proofs about BlockBuffer for every blocking factor, every set of        *)
(* handles, request sizes and short writes, and every choice of faults.    *)
(***************************************************************************)
EXTENDS BlockBuffer, TLAPS

\* What the calls between two flushes keep true of the record.
RoomInv ==
  /\ Aligned(unused) /\ Aligned(given)
  /\ given <= size - unused
  /\ FreshRoomIsZero
  /\ given # 0 => dirty <= (size - unused - given) + filled

\* What the write() loop keeps true of its locals.
LoopInv ==
  /\ pc = "flush" => unused < size /\ (ret < 0 => off < size)
  /\ pc # "flush" => off = 0
  /\ pc = "resume" => unused = size /\ want # 0
  /\ pc # "idle" => given = 0 /\ errno = "none"
  /\ off <= emitted

IInv == TypeOK /\ RoomInv /\ LoopInv /\ BlockNeverRefused

-----------------------------------------------------------------------------
\* Room is handed out in whole blocks, the fewest that hold what was asked for.
LEMMA PaddedRoom ==
  ASSUME NEW n \in Nat
  PROVE  /\ padded_size(n) \in Nat /\ Aligned(padded_size(n))
         /\ n <= padded_size(n) /\ padded_size(n) < n + BLOCK
         /\ \A m \in Nat : Aligned(m) /\ n <= m => padded_size(n) <= m
BY DEF padded_size, BLOCK, Aligned

\* A record is a positive number of whole blocks.
LEMMA SizeIsBlocks == size \in Nat /\ size >= BLOCK /\ Aligned(size)
BY BlockBufferAssumption DEF size, BLOCK, Aligned

\* Handing out room keeps the invariant: the only lemma about the shared end
\* of get_block(), whichever way it was reached.
LEMMA AllotKeepsInv ==
  ASSUME IInv, NEW len \in Requests, Allot(len), pc # "flush",
         pc = "resume" \/ unused # 0
  PROVE  IInv'
PROOF
<1> DEFINE p == padded_size(len)
<1>1. len \in Nat /\ len > 0
  BY BlockBufferAssumption
<1>2. p \in Nat /\ len <= p /\ p < len + BLOCK /\ Aligned(p)
  BY <1>1, PaddedRoom
<1>3. len <= BLOCK => p <= BLOCK
  BY <1>1 DEF padded_size, BLOCK
<1>4. unused >= BLOCK
  BY SizeIsBlocks DEF IInv, TypeOK, RoomInv, LoopInv, Aligned, BLOCK
<1>. USE SizeIsBlocks
<1>5. CASE p > unused
  BY <1>1, <1>2, <1>3, <1>4, <1>5
     DEF Allot, IInv, TypeOK, RoomInv, LoopInv, BlockNeverRefused,
         FreshRoomIsZero, Aligned, BLOCK
<1>6. CASE p <= unused
  <2>1. /\ errno' = "none" /\ given' = p /\ unused' = unused - p
        /\ pc' = "idle" /\ want' = len /\ filled' = 0
        /\ UNCHANGED <<fd, dirty, off, ret, emitted, stream>>
    BY <1>2, <1>6 DEF Allot, IInv, TypeOK
  <2>2. Aligned(unused - p)
    BY <1>2, <1>6 DEF IInv, TypeOK, RoomInv, Aligned, BLOCK
  <2>3. TypeOK'
    <3>1. /\ unused' \in 0..size /\ dirty' \in 0..size
          /\ given' \in 0..size /\ filled' \in 0..given'
      BY <1>2, <1>6, <2>1 DEF IInv, TypeOK
    <3>2. QED
      BY <2>1, <3>1 DEF IInv, TypeOK
  <2>4. RoomInv'
    BY <1>2, <1>6, <2>1, <2>2 DEF IInv, TypeOK, RoomInv, FreshRoomIsZero, Aligned
  <2>5. LoopInv'
    BY <2>1 DEF IInv, TypeOK, LoopInv
  <2>6. QED
    BY <2>1, <2>3, <2>4, <2>5 DEF IInv, BlockNeverRefused
<1>7. QED
  BY <1>2, <1>5, <1>6 DEF IInv, TypeOK

-----------------------------------------------------------------------------
\* A new buffer satisfies the invariant.
LEMMA InitIInv == Init => IInv
BY SizeIsBlocks, BlockBufferAssumption
   DEF Init, IInv, TypeOK, RoomInv, LoopInv, BlockNeverRefused,
       FreshRoomIsZero, Aligned, BLOCK

\* The invariant is inductive: one step per action of the buffer.
LEMMA StepIInv == IInv /\ [Next]_vars => IInv'
PROOF
<1> SUFFICES ASSUME IInv, [Next]_vars PROVE IInv'
  OBVIOUS
<1> USE SizeIsBlocks
<1>1. ASSUME NEW h \in Handles, SetFd(h) PROVE IInv'
  BY <1>1 DEF SetFd, IInv, TypeOK, RoomInv, LoopInv, BlockNeverRefused,
              FreshRoomIsZero, Aligned
<1>2. ASSUME NEW len \in Requests, GetBlockNoHandle(len) PROVE IInv'
  BY <1>2 DEF GetBlockNoHandle, IInv, TypeOK, RoomInv, LoopInv,
              BlockNeverRefused, FreshRoomIsZero, Aligned, BLOCK
<1>3. ASSUME NEW len \in Requests, GetBlock(len) PROVE IInv'
  BY <1>3, AllotKeepsInv DEF GetBlock, full
<1>4. ASSUME NEW len \in Requests \cup {0}, unused # size, EnterLoop(len),
             pc = "idle"
      PROVE  IInv'
  BY <1>4 DEF EnterLoop, IInv, TypeOK, RoomInv, LoopInv, BlockNeverRefused,
              FreshRoomIsZero, Aligned, BLOCK
<1>5. ASSUME NEW n \in Requests, Fill(n) PROVE IInv'
  <2>1. n \in 0..given
    BY <1>5, BlockBufferAssumption DEF Fill, IInv, TypeOK
  <2>2. /\ dirty' \in 0..size /\ dirty' <= size - unused
        /\ given # 0 => dirty' <= (size - unused - given) + n
    BY <1>5, <2>1
       DEF Fill, IInv, TypeOK, RoomInv, FreshRoomIsZero, Larger
  <2>3. QED
    BY <1>5, <2>1, <2>2
       DEF Fill, IInv, TypeOK, RoomInv, LoopInv, BlockNeverRefused,
           FreshRoomIsZero, Aligned
<1>6. ASSUME NEW n \in Requests, Reclaim(n) PROVE IInv'
  <2> DEFINE p == padded_size(n)
  <2>1. n \in Nat /\ n <= given /\ n = filled
    BY <1>6 DEF Reclaim, IInv, TypeOK
  <2>2. p \in Nat /\ n <= p /\ p <= given /\ Aligned(p)
    BY <2>1, PaddedRoom DEF IInv, TypeOK, RoomInv
  <2>3. unused' = unused + (given - p) /\ given' = 0 /\ filled' = 0
    BY <1>6 DEF Reclaim
  <2>4. unused' \in 0..size /\ Aligned(unused)' /\ dirty <= size - unused'
    BY <2>1, <2>2, <2>3, <1>6
       DEF Reclaim, IInv, TypeOK, RoomInv, Aligned, BLOCK
  <2>5. QED
    BY <1>6, <2>3, <2>4
       DEF Reclaim, IInv, TypeOK, RoomInv, LoopInv, BlockNeverRefused,
           FreshRoomIsZero, Aligned, BLOCK
<1>7. ASSUME Resume PROVE IInv'
  <2>1. want \in Requests
    BY <1>7 DEF Resume, IInv, TypeOK, LoopInv
  <2>2. QED
    BY <1>7, <2>1, AllotKeepsInv DEF Resume
<1>8. ASSUME NEW n \in Chunks \cup {size - off}, WriteSome(n) PROVE IInv'
  BY <1>8, BlockBufferAssumption
     DEF WriteSome, Looping, IInv, TypeOK, RoomInv, LoopInv,
         BlockNeverRefused, FreshRoomIsZero, Aligned
<1>9. ASSUME WriteInterrupted PROVE IInv'
  BY <1>9 DEF WriteInterrupted, Looping, IInv, TypeOK, RoomInv, LoopInv,
              BlockNeverRefused, FreshRoomIsZero, Aligned
<1>10. ASSUME WriteFails PROVE IInv'
  BY <1>10 DEF WriteFails, IInv, TypeOK, RoomInv, LoopInv,
               BlockNeverRefused, FreshRoomIsZero, Aligned
<1>11. ASSUME Recycle, pc = "flush", ret' \in {-1, 0, 1},
              stream' \in {"whole", "torn"}
       PROVE  IInv'
  <2>1. pc' \in {"idle", "resume"} /\ (pc' = "resume" => want # 0)
    BY <1>11 DEF Recycle
  <2>2. /\ off' = 0 /\ dirty' = 0 /\ unused' = size
        /\ UNCHANGED <<fd, given, filled, want, emitted, errno>>
    BY <1>11 DEF Recycle
  <2>3. given = 0 /\ errno = "none"
    BY <1>11 DEF IInv, LoopInv
  <2>4. TypeOK'
    BY <1>11, <2>1, <2>2 DEF IInv, TypeOK
  <2>5. RoomInv'
    BY <2>2, <2>3 DEF IInv, TypeOK, RoomInv, FreshRoomIsZero, Aligned, BLOCK
  <2>6. LoopInv' /\ BlockNeverRefused'
    BY <2>1, <2>2, <2>3 DEF IInv, TypeOK, LoopInv, BlockNeverRefused
  <2>7. QED
    BY <2>4, <2>5, <2>6 DEF IInv
<1>12. ASSUME Reset PROVE IInv'
  BY <1>12 DEF Reset, IInv, TypeOK, RoomInv, LoopInv,
               BlockNeverRefused, FreshRoomIsZero, Aligned, BLOCK
<1>13. CASE UNCHANGED vars
  BY <1>13 DEF vars, IInv, TypeOK, RoomInv, LoopInv,
               BlockNeverRefused, FreshRoomIsZero, Aligned
<1>14. QED
  <2>1. ASSUME NEW len \in Requests, GetBlockWhenFull(len) PROVE IInv'
    BY <2>1, <1>4 DEF GetBlockWhenFull, full, BLOCK
  <2>2. ASSUME Flush PROVE IInv'
    BY <2>2, <1>4 DEF Flush
  <2>3. ASSUME FlushNoHandle PROVE IInv'
    BY <2>3 DEF FlushNoHandle, IInv, TypeOK, RoomInv, LoopInv,
                BlockNeverRefused, FreshRoomIsZero, Aligned
  <2>4. ASSUME WriteAcceptsNothing PROVE IInv'
    BY <2>4, <1>11 DEF WriteAcceptsNothing
  <2>5. ASSUME FlushDone PROVE IInv'
    BY <2>5, <1>11 DEF FlushDone, IInv, TypeOK
  <2>6. QED
    BY <1>1, <1>2, <1>3, <1>5, <1>6, <1>7, <1>8, <1>9, <1>10, <1>12, <1>13,
       <2>1, <2>2, <2>3, <2>4, <2>5
       DEF Next, WriteProgress

\* Every reachable record is well formed: a header or a block of a long name is
\* never refused for want of room, and room that is handed out is zero.
THEOREM BufferSafety == Spec => [](TypeOK /\ BlockNeverRefused /\ FreshRoomIsZero)
PROOF
<1>1. IInv => TypeOK /\ BlockNeverRefused /\ FreshRoomIsZero
  BY DEF IInv, RoomInv
<1>2. QED
  BY <1>1, InitIInv, StepIInv, PTL DEF Spec

\* Whatever the calls of b_buffer.c are made in, unused and the room handed out stay
\* within the record, and what was filled within what was given.
THEOREM WithinRecord == Spec => []TypeOK
BY BufferSafety, PTL

\* b_buffer_get_block() refuses no header and no block of a long name with EFBIG:
\* it flushed, or there was room, also when the flush was interrupted before.
THEOREM BlocksAreGiven == Spec => []BlockNeverRefused
BY BufferSafety, PTL

-----------------------------------------------------------------------------
\* The whole-record count of one more record.
LEMMA OneMoreRecord ==
  ASSUME NEW e \in Nat, NEW k \in 0..e, e = k * size
  PROVE  k + 1 \in 0..(e + size) /\ e + size = (k + 1) * size
BY SizeIsBlocks DEF BLOCK

\* A flush that is interrupted, or split into short writes, still sends exactly
\* one record: until a flush fails, the stream is a whole number of records.
THEOREM WholeRecordsHold == Spec => []WholeRecords
PROOF
<1>1. Init => WholeRecords
  BY SizeIsBlocks DEF Init, WholeRecords
<1>2. IInv /\ WholeRecords /\ [Next]_vars => WholeRecords'
  <2> SUFFICES ASSUME IInv, WholeRecords, [Next]_vars, (stream = "whole")'
               PROVE  WholeRecords'
    BY DEF WholeRecords
  <2>1. ASSUME UNCHANGED <<emitted, off, stream>> PROVE WholeRecords'
    BY <2>1 DEF WholeRecords
  <2>2. ASSUME NEW n \in Chunks \cup {size - off}, WriteSome(n)
        PROVE  WholeRecords'
    <3>1. (emitted - off)' = emitted - off /\ stream' = stream
      BY <2>2, SizeIsBlocks, BlockBufferAssumption
         DEF WriteSome, IInv, TypeOK
    <3>2. QED
      BY <3>1 DEF WholeRecords
  <2>3. ASSUME FlushDone PROVE WholeRecords'
    <3>1. off = size /\ off' = 0 /\ emitted' = emitted /\ stream = "whole"
      BY <2>3, SizeIsBlocks DEF FlushDone, Recycle, Looping, IInv, TypeOK
    <3>2. PICK k \in 0..(emitted - off) : emitted - off = k * size
      BY <3>1 DEF WholeRecords
    <3>3. emitted - off \in Nat /\ emitted' - off' = (emitted - off) + size
      BY <3>1, SizeIsBlocks DEF IInv, TypeOK, LoopInv
    <3>4. k + 1 \in 0..(emitted' - off') /\ emitted' - off' = (k + 1) * size
      BY <3>2, <3>3, OneMoreRecord
    <3>5. QED
      BY <3>4 DEF WholeRecords
  <2>4. QED
    BY <2>1, <2>2, <2>3
       DEF Next, vars, IInv, LoopInv, SetFd, GetBlockNoHandle, GetBlock, Allot,
           GetBlockWhenFull, EnterLoop, Fill, Reclaim, Flush, FlushNoHandle,
           Resume, WriteProgress, WriteInterrupted, WriteFails,
           WriteAcceptsNothing, Reset
<1>3. QED
  BY <1>1, <1>2, InitIInv, StepIInv, PTL DEF Spec

-----------------------------------------------------------------------------
SinkStep == Sink!SinkNext \/ UNCHANGED Sink!sinkVars

\* Steps that leave both the record's fill and the ended flushes alone.
LEMMA QuietStep ==
  ASSUME UNCHANGED <<unused, stream>>, (emitted - off)' = emitted - off
  PROVE  SinkStep
BY DEF SinkStep, Sink!sinkVars

\* Handing out room is a Put, and a refusal no step of the sink at all.
LEMMA AllotImplementsPut ==
  ASSUME IInv, NEW len \in Requests, Allot(len), pc # "flush"
  PROVE  SinkStep
PROOF
<1> DEFINE p == padded_size(len)
<1>1. p \in Nat /\ p > 0
  BY PaddedRoom, BlockBufferAssumption
<1>2. CASE p > unused
  BY <1>2, QuietStep DEF Allot
<1>3. CASE p <= unused
  <2>1. unused' = unused - p /\ UNCHANGED <<off, emitted, stream>>
    BY <1>1, <1>3 DEF Allot, IInv, TypeOK
  <2>2. (size - unused') \in ((size - unused) + 1)..size
    BY <1>1, <1>3, <2>1, SizeIsBlocks DEF IInv, TypeOK
  <2>3. QED
    BY <2>1, <2>2 DEF SinkStep, Sink!SinkNext, Sink!Put, size
<1>4. QED
  BY <1>1, <1>2, <1>3 DEF IInv, TypeOK

\* Every call, and every way a write() ends, is a step of the abstract sink: no
\* byte a caller put into the record leaves it but in a whole record, through
\* b_buffer_reset(), or when the stream accepts no more.
THEOREM BufferImplementsSink == Spec => RefinesSink
PROOF
<1> USE SizeIsBlocks
<1>1. Init => Sink!SinkInit
  BY DEF Init, Sink!SinkInit
<1>2. IInv /\ [Next]_vars => SinkStep
  <2> SUFFICES ASSUME IInv, [Next]_vars PROVE SinkStep
    OBVIOUS
  <2>1. ASSUME NEW n \in Requests, Reclaim(n) PROVE SinkStep
    <3>1. n \in Nat /\ padded_size(n) \in Nat /\ padded_size(n) <= given
      BY <2>1, PaddedRoom DEF Reclaim, IInv, TypeOK, RoomInv
    <3>2. unused' = unused + (given - padded_size(n))
          /\ UNCHANGED <<off, emitted, stream>>
      BY <2>1 DEF Reclaim
    <3>3. unused' = unused \/ size - unused' \in 0..((size - unused) - 1)
      BY <3>1, <3>2 DEF IInv, TypeOK, RoomInv
    <3>4. QED
      BY <3>2, <3>3, QuietStep DEF SinkStep, Sink!SinkNext, Sink!TakeBack
  <2>2. ASSUME NEW n \in Chunks \cup {size - off}, WriteSome(n) PROVE SinkStep
    <3>1. (emitted - off)' = emitted - off /\ UNCHANGED <<unused, stream>>
      BY <2>2, BlockBufferAssumption DEF WriteSome, IInv, TypeOK
    <3>2. QED
      BY <3>1, QuietStep
  <2>3. ASSUME WriteFails PROVE SinkStep
    <3>1. /\ size - unused > 0 /\ off' = 0 /\ UNCHANGED <<unused, emitted>>
          /\ stream' = "torn" /\ off < size
      BY <2>3 DEF WriteFails, Looping, IInv, TypeOK, LoopInv
    <3>2. emitted - 0 \in (emitted - off)..((emitted - off) + size - 1)
      BY <3>1 DEF IInv, TypeOK, LoopInv
    <3>3. QED
      BY <3>1, <3>2
         DEF SinkStep, Sink!SinkNext, Sink!Tear, Sink!PartSent
  <2>4. ASSUME WriteAcceptsNothing PROVE SinkStep
    <3>1. /\ size - unused > 0 /\ off' = 0 /\ emitted' = emitted
          /\ unused' = size /\ stream' = "torn" /\ off < size
      BY <2>4 DEF WriteAcceptsNothing, Recycle, Looping, IInv, TypeOK, LoopInv
    <3>2. emitted - 0 \in (emitted - off)..((emitted - off) + size - 1)
      BY <3>1 DEF IInv, TypeOK, LoopInv
    <3>3. QED
      BY <3>1, <3>2
         DEF SinkStep, Sink!SinkNext, Sink!CutShort, Sink!PartSent
  <2>5. ASSUME FlushDone PROVE SinkStep
    <3>1. /\ size - unused > 0 /\ off = size /\ off' = 0 /\ unused' = size
          /\ UNCHANGED <<emitted, stream>>
      BY <2>5 DEF FlushDone, Recycle, Looping, IInv, TypeOK, LoopInv
    <3>2. emitted' - off' = (emitted - off) + size /\ size - unused' = 0
      BY <3>1 DEF IInv, TypeOK
    <3>3. QED
      BY <3>1, <3>2 DEF SinkStep, Sink!SinkNext, Sink!Drain
  <2>6. ASSUME Reset PROVE SinkStep
    BY <2>6 DEF Reset, SinkStep, Sink!SinkNext, Sink!Discard
  <2>7. ASSUME NEW len \in Requests, GetBlock(len) PROVE SinkStep
    BY <2>7, AllotImplementsPut DEF GetBlock
  <2>8. ASSUME Resume PROVE SinkStep
    BY <2>8, AllotImplementsPut DEF Resume, IInv, TypeOK, LoopInv
  <2>9. QED
    BY <2>1, <2>2, <2>3, <2>4, <2>5, <2>6, <2>7, <2>8, QuietStep
       DEF Next, vars, IInv, LoopInv, SetFd, GetBlockNoHandle,
           GetBlockWhenFull, EnterLoop, Fill, Flush, FlushNoHandle,
           WriteProgress, WriteInterrupted
<1>3. QED
  BY <1>1, <1>2, InitIInv, StepIInv, PTL DEF Spec, RefinesSink, Sink!SinkSpec, SinkStep
=============================================================================
