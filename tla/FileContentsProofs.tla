------------------------- MODULE FileContentsProofs -------------------------
(***************************************************************************)
(* Proofs about FileContents for every record size, every file size and    *)
(* every faulty system call.                                               *)
(***************************************************************************)
EXTENDS FileContents, TLAPS

\* padded_size() returns the least multiple of the block size that holds n.
LEMMA PaddedSize ==
  ASSUME NEW n \in Nat
  PROVE  /\ padded_size(n) \in Nat
         /\ n <= padded_size(n) /\ padded_size(n) < n + BLOCK
         /\ Aligned(padded_size(n))
         /\ \A m \in Nat : Aligned(m) /\ n <= m => padded_size(n) <= m
BY DEF padded_size, BLOCK, Aligned

\* Padding what follows a block boundary pads the whole.
LEMMA PaddedSizeAdds ==
  ASSUME NEW a \in Nat, NEW n \in Nat, Aligned(a)
  PROVE  padded_size(a + n) = a + padded_size(n)
BY DEF padded_size, BLOCK, Aligned

\* Where the file can be spliced it has not been too short so far.
Intact == output = "pipe" => shortened = 0

\* The bytes counted are the bytes that entered the stream.
CountInv ==
  /\ Aligned(unused) /\ Aligned(start)
  /\ Written = total /\ pos = real_total
  /\ can_splice = 1 => splice_total % BLOCK = total % BLOCK
  /\ output = "file" => Aligned(total)

\* While splice() is possible, an emptied buffer stays empty.
BypassInv ==
  /\ can_splice = 1 => output = "pipe"
  /\ can_splice = 1 /\ emptied_buffer = 1 => unused = size
  /\ splice_total # 0 => emptied_buffer = 1
  /\ pc = "splice" => can_splice = 1 /\ emptied_buffer = 1
  /\ pc = "read" => can_splice = 0 \/ emptied_buffer = 0

\* What the loop has decided is still true at the system call it decided on.
LoopInv ==
  pc \in {"splice", "read"} =>
    /\ max_read > 0 /\ max_read <= file_size - real_total
    /\ max_read = file_size - real_total \/ Aligned(max_read)
    /\ unused # 0

\* The bytes counted are those copied, up to the padding of the last block.
WholeInv ==
  /\ total = padded_size(real_total) \/ (can_splice = 1 /\ total = real_total)
  /\ real_total # file_size => Aligned(real_total)
  /\ pc = "finish" => real_total = file_size
  /\ output = "pipe" => length >= file_size

RunInv == CountInv /\ BypassInv /\ LoopInv /\ (Intact => WholeInv)

DoneInv == ContentsWhole /\ TotalIsWritten /\ StreamAligned

IInv == TypeOK /\ (Running => RunInv) /\ DoneInv

-----------------------------------------------------------------------------
\* A record is a positive number of whole blocks.
LEMMA SizeIsBlocks == size \in Nat /\ size >= BLOCK /\ Aligned(size)
BY FileContentsAssumption DEF size, BLOCK, Aligned

\* The call of the function, and the invariant it starts with.
LEMMA InitIInv == Init => IInv
PROOF
<1> SUFFICES ASSUME Init PROVE IInv
  OBVIOUS
<1> USE SizeIsBlocks
<1>1. PICK b \in 0..(Factor - 1) : unused = b * BLOCK
  BY DEF Init
<1>2. unused \in 0..size /\ Aligned(unused) /\ start = size - unused
      /\ start \in 0..size /\ Aligned(start)
  BY <1>1, FileContentsAssumption DEF Init, size, Aligned, BLOCK
<1>3. file_size \in Nat
  BY FileContentsAssumption DEF Init
<1>4. TypeOK
  BY <1>2, <1>3, FileContentsAssumption DEF Init, TypeOK
<1>5. CountInv
  BY <1>2, <1>3 DEF Init, CountInv, Written, Aligned, BLOCK
<1>6. BypassInv /\ LoopInv
  BY DEF Init, BypassInv, LoopInv
<1>7. WholeInv
  BY <1>3 DEF Init, WholeInv, padded_size, Aligned, BLOCK
<1>8. DoneInv
  BY DEF Init, DoneInv, ContentsWhole, TotalIsWritten, StreamAligned
<1>9. QED
  BY <1>4, <1>5, <1>6, <1>7, <1>8 DEF IInv, RunInv
-----------------------------------------------------------------------------
\* The loop head decides for the chunk that the counts call for.
LEMMA ChooseKeepsInv ==
  ASSUME IInv, pc = "top", NEW e \in {0, 1}, ChooseTransfer(e),
         NEW u \in 1..size, unused' = u, Aligned(u),
         NEW m \in Nat, emitted' = m, m - u = emitted - unused,
         (e = emptied_buffer /\ u = unused) \/ (e = 1 /\ u = size)
  PROVE  IInv'
PROOF
<1> USE SizeIsBlocks
<1>0. RunInv /\ CountInv /\ BypassInv /\ LoopInv /\ TypeOK
  BY DEF IInv, Running, RunInv
<1> DEFINE left == file_size - real_total
<1>1. left \in Nat /\ file_size \in Nat
  BY <1>0, FileContentsAssumption DEF TypeOK
<1>2. max_read' \in 0..MaxChunk /\ max_read' <= left
      /\ (max_read' = left \/ Aligned(max_read')) /\ (left > 0 => max_read' > 0)
  BY <1>1, FileContentsAssumption DEF ChooseTransfer, Smaller
<1>3. /\ pc' \in {"finish", "splice", "read"}
      /\ pc' = "finish" => left = 0
      /\ pc' # "finish" => left # 0
      /\ pc' = "splice" => can_splice = 1 /\ e = 1
      /\ pc' = "read" => ~(can_splice = 1 /\ e = 1)
  BY DEF ChooseTransfer
<1>4. /\ emptied_buffer' = e
      /\ UNCHANGED <<file_size, start, output, length, shortened, pos, can_splice,
                     splice_total, total, real_total, errno>>
  BY DEF ChooseTransfer, fixed, file
<1>5. TypeOK'
  <2>1. unused' \in 0..size /\ emitted' \in Nat /\ emptied_buffer' \in {0, 1}
    BY <1>4
  <2>2. UNCHANGED <<file_size, start, output, length, shortened, pos, can_splice,
                    splice_total, total, real_total, errno>>
    BY <1>4
  <2>3. QED
    BY <1>0, <1>2, <1>3, <2>1, <2>2 DEF TypeOK
<1>6. CountInv'
  <2>1. Written' = Written
    <3>1. start' = start /\ start \in Nat /\ emitted \in Nat /\ unused \in Nat
      BY <1>0, <1>4 DEF TypeOK
    <3>2. m + (size - u) - start = emitted + (size - unused) - start
      BY <3>1
    <3>3. QED
      BY <3>1, <3>2 DEF Written, size
  <2>2. QED
    BY <1>0, <1>4, <2>1 DEF CountInv, Aligned
<1>7. LoopInv'
  BY <1>0, <1>1, <1>2, <1>3, <1>4 DEF LoopInv, TypeOK, Aligned
<1>8. BypassInv'
  <2>1. can_splice \in {0, 1} /\ emptied_buffer \in {0, 1} /\ e \in {0, 1}
    BY <1>0 DEF TypeOK
  <2>2. size' = size
    BY DEF size
  <2>3. QED
    BY <1>0, <1>3, <1>4, <2>1, <2>2 DEF BypassInv
<1>9. Intact' => WholeInv'
  <2>1. Intact' => Intact
    BY <1>4 DEF Intact
  <2>2. ASSUME Intact PROVE WholeInv'
    <3>1. WholeInv
      BY <1>0, <2>2 DEF RunInv
    <3>2. pc' = "finish" => real_total = file_size
      BY <1>0, <1>1, <1>3 DEF TypeOK
    <3>3. QED
      BY <1>4, <3>1, <3>2 DEF WholeInv, Aligned, padded_size
  <2>3. QED
    BY <2>1, <2>2
<1>10. DoneInv'
  BY <1>3 DEF DoneInv, ContentsWhole, TotalIsWritten, StreamAligned
<1>11. QED
  BY <1>5, <1>6, <1>7, <1>8, <1>9, <1>10 DEF IInv, RunInv

\* A splice moves what the file has to offer; of a file that is long enough,
\* the chunk or whole blocks.
LEMMA SpliceKeepsInv ==
  ASSUME IInv, SpliceProgress
  PROVE  IInv'
PROOF
<1> USE SizeIsBlocks
<1>1. pc = "splice"
  BY DEF SpliceProgress, SpliceSome
<1>2. TypeOK /\ RunInv /\ CountInv /\ BypassInv /\ LoopInv
  BY <1>1 DEF IInv, Running, RunInv
<1>3. file_size \in Nat /\ length \in Nat
  BY <1>2, FileContentsAssumption DEF TypeOK
<1>4. /\ can_splice = 1 /\ output = "pipe" /\ pos = real_total
      /\ max_read > 0 /\ max_read <= file_size - real_total
      /\ max_read \in Nat /\ max_read <= MaxChunk /\ pos \in Nat
      /\ emptied_buffer = 1 /\ unused = size
  BY <1>1, <1>2, FileContentsAssumption DEF TypeOK, CountInv, BypassInv, LoopInv
<1>5. Available(max_read) \in 0..max_read
  BY <1>3, <1>4 DEF Available, Smaller
<1> DEFINE most == Available(max_read)
<1>6. PICK n \in {most} \cup {b * BLOCK : b \in 1..(most \div BLOCK)} :
           SpliceSome(n)
  BY DEF SpliceProgress
<1> HIDE DEF most
<1>7. n \in Nat /\ n > 0 /\ n <= most /\ (n = most \/ Aligned(n))
  <2>1. most \in Nat /\ n > 0
    BY <1>4, <1>5, <1>6 DEF SpliceSome, most
  <2>2. CASE n = most
    BY <2>1, <2>2
  <2>3. CASE n \in {b * BLOCK : b \in 1..(most \div BLOCK)}
    <3>1. PICK b \in 1..(most \div BLOCK) : n = b * BLOCK
      BY <2>3
    <3>2. QED
      BY <2>1, <3>1 DEF BLOCK, Aligned
  <2>4. QED
    BY <1>6, <2>2, <2>3
<1>8. /\ pc' = "top" /\ pos' = pos + n /\ emitted' = emitted + n
      /\ splice_total' = AddInt(splice_total, n)
      /\ total' = total + n /\ real_total' = real_total + n
      /\ UNCHANGED <<file_size, start, output, length, shortened, unused,
                     can_splice, max_read, emptied_buffer, errno>>
  BY <1>6 DEF SpliceSome, fixed, file
<1>9. n <= max_read
  BY <1>4, <1>5, <1>7 DEF most
<1>10. /\ splice_total' \in 0..(IntRange - 1)
       /\ splice_total' % BLOCK = (splice_total + n) % BLOCK
  BY <1>2, <1>4, <1>7, <1>8, <1>9, FileContentsAssumption
     DEF TypeOK, AddInt, Aligned, BLOCK
<1>11. splice_total' % BLOCK = total' % BLOCK
  BY <1>2, <1>4, <1>7, <1>8, <1>10 DEF CountInv, TypeOK, BLOCK
<1>12. TypeOK'
  BY <1>2, <1>3, <1>4, <1>7, <1>8, <1>9, <1>10 DEF TypeOK
<1>13. CountInv'
  BY <1>2, <1>3, <1>4, <1>7, <1>8, <1>11 DEF CountInv, TypeOK, Written, Aligned
<1>14. LoopInv' /\ BypassInv' /\ DoneInv'
  BY <1>4, <1>8 DEF LoopInv, BypassInv, DoneInv, ContentsWhole, TotalIsWritten,
                    StreamAligned, size
<1>15. Intact' => WholeInv'
  <2>1. SUFFICES ASSUME Intact PROVE WholeInv'
    BY <1>8 DEF Intact
  <2>2. WholeInv /\ length >= file_size
    BY <1>2, <1>4, <2>1 DEF RunInv, WholeInv
  <2>3. n = max_read \/ Aligned(n)
    BY <1>3, <1>4, <1>7, <2>2 DEF most, Available, Smaller
  <2>4. total = real_total /\ Aligned(real_total)
    BY <1>2, <1>3, <1>4, <2>2 DEF WholeInv, TypeOK, padded_size, Aligned
  <2>5. real_total' # file_size => Aligned(real_total')
    BY <1>1, <1>2, <1>3, <1>4, <1>7, <1>8, <1>9, <2>3, <2>4
       DEF TypeOK, LoopInv, Aligned, BLOCK
  <2>6. QED
    BY <1>4, <1>8, <2>2, <2>4, <2>5 DEF WholeInv, Aligned
<1>16. QED
  BY <1>12, <1>13, <1>14, <1>15 DEF IInv, RunInv

\* A chunk that is read takes whole blocks of the record.
LEMMA ReadKeepsInv ==
  ASSUME IInv, ReadChunk
  PROVE  IInv'
PROOF
<1> USE SizeIsBlocks
<1> DEFINE n == ReadLimit
<1>1. pc = "read"
  BY DEF ReadChunk
<1>2. TypeOK /\ RunInv /\ CountInv /\ BypassInv /\ LoopInv
  BY <1>1 DEF IInv, Running, RunInv
<1>3. file_size \in Nat
  BY <1>2, FileContentsAssumption DEF TypeOK
<1>4. /\ n \in Nat /\ n > 0 /\ n <= unused /\ n <= max_read
      /\ n = file_size - real_total \/ Aligned(n)
      /\ n <= file_size - real_total
  BY <1>1, <1>2, <1>3 DEF ReadLimit, Smaller, TypeOK, CountInv, LoopInv
<1>5. /\ pc' = "top" /\ pos' = pos + n
      /\ unused' = unused - padded_size(n) /\ total' = total + padded_size(n)
      /\ real_total' = real_total + n /\ max_read' = n
      /\ UNCHANGED <<file_size, start, output, length, shortened, emitted,
                     can_splice, emptied_buffer, splice_total, errno>>
  BY DEF ReadChunk, fixed, file
<1> HIDE DEF n
<1> DEFINE p == padded_size(n)
<1>6. p \in Nat /\ p <= unused /\ Aligned(p)
  BY <1>2, <1>4, PaddedSize DEF TypeOK, CountInv
<1>7. unused' = unused - p /\ total' = total + p
  BY <1>5 DEF p
<1> HIDE DEF p
<1>8. /\ unused' \in 0..size /\ Aligned(unused') /\ total' \in Nat
      /\ total' % BLOCK = total % BLOCK /\ Written' = total'
  BY <1>2, <1>5, <1>6, <1>7 DEF TypeOK, CountInv, Written, Aligned, BLOCK
<1>9. TypeOK'
  <2>1. pos' \in Nat /\ real_total' \in 0..file_size /\ max_read' \in 0..MaxChunk
    BY <1>2, <1>3, <1>4, <1>5, FileContentsAssumption DEF TypeOK
  <2>2. QED
    BY <2>1, <1>2, <1>5, <1>8 DEF TypeOK
<1>10. CountInv'
  <2>1. pos' = real_total' /\ Aligned(start')
    BY <1>2, <1>5 DEF CountInv, Aligned
  <2>2. (can_splice = 1 => splice_total % BLOCK = total % BLOCK)'
    BY <1>2, <1>5, <1>8 DEF CountInv, BLOCK
  <2>3. (output = "file" => Aligned(total))'
    BY <1>2, <1>5, <1>8 DEF CountInv, Aligned, BLOCK
  <2>4. Aligned(unused)' /\ (Written = total)'
    BY <1>8 DEF Aligned, BLOCK
  <2>5. QED
    BY <2>1, <2>2, <2>3, <2>4 DEF CountInv, BLOCK
<1>11. LoopInv' /\ DoneInv'
  BY <1>5 DEF LoopInv, DoneInv, ContentsWhole, TotalIsWritten, StreamAligned
<1>12. BypassInv'
  BY <1>1, <1>2, <1>5 DEF BypassInv, TypeOK, size
<1>13. Intact' => WholeInv'
  <2>1. SUFFICES ASSUME Intact PROVE WholeInv'
    BY <1>5 DEF Intact
  <2>2. WholeInv
    BY <1>2, <2>1 DEF RunInv
  <2>3. total = real_total /\ Aligned(real_total)
    BY <1>2, <1>3, <1>4, <2>2 DEF WholeInv, TypeOK, padded_size, Aligned
  <2>4. total' = padded_size(real_total')
    BY <1>2, <1>4, <1>5, <2>3, PaddedSizeAdds DEF TypeOK
  <2>5. real_total' # file_size => Aligned(real_total')
    BY <1>2, <1>3, <1>4, <1>5, <2>3 DEF TypeOK, Aligned, BLOCK
  <2>6. (total = padded_size(real_total))'
    BY <2>4 DEF padded_size
  <2>7. (real_total # file_size => Aligned(real_total))'
    BY <1>5, <2>5 DEF Aligned
  <2>8. QED
    BY <1>5, <2>2, <2>6, <2>7 DEF WholeInv
<1>14. QED
  BY <1>9, <1>10, <1>11, <1>12, <1>13 DEF IInv, RunInv

\* The end of the call: what is missing to the last block has been written.
LEMMA EndKeepsInv ==
  ASSUME IInv, WritePad \/ Finish
  PROVE  IInv'
PROOF
<1> USE SizeIsBlocks
<1>1. pc = "finish" /\ pc' = "done"
      /\ UNCHANGED <<file_size, start, output, length, shortened, pos, unused,
                     can_splice, max_read, emptied_buffer, splice_total, total,
                     real_total, errno>>
  BY DEF WritePad, Finish, fixed, file, locals, buffer
<1>2. TypeOK /\ RunInv /\ CountInv /\ BypassInv
  BY <1>1 DEF IInv, Running, RunInv
<1>3. file_size \in Nat /\ total \in Nat /\ splice_total \in Nat
  BY <1>2, FileContentsAssumption DEF TypeOK
<1>4. ASSUME Intact
      PROVE  /\ file_size = real_total
             /\ total = padded_size(file_size)
                \/ (can_splice = 1 /\ total = file_size)
  BY <1>1, <1>2, <1>4 DEF RunInv, WholeInv
<1>5. (Intact' => Intact) /\ (~(output = "pipe" /\ shortened = 1) => Intact)
      /\ shortened \in {0, 1}
  BY <1>1, <1>2 DEF Intact, TypeOK
<1>6. CASE WritePad
  <2>1. /\ can_splice = 1 /\ ~Aligned(total) /\ output = "pipe"
        /\ emitted' = emitted + (BLOCK - (total % BLOCK))
    BY <1>2, <1>6 DEF WritePad, PadNeeded, BypassInv
  <2>2. emitted' \in Nat /\ Written' = total + (BLOCK - (total % BLOCK))
    BY <1>1, <1>2, <1>3, <2>1 DEF TypeOK, CountInv, Written, BLOCK
  <2>3. ASSUME Intact PROVE Written' = padded_size(file_size)
    <3>1. total = file_size
      BY <1>3, <1>4, <2>1, <2>3, PaddedSize
    <3>2. QED
      BY <1>3, <2>1, <2>2, <3>1 DEF padded_size, Aligned, BLOCK
  <2>4. Aligned(Written')
    BY <1>3, <2>2 DEF Aligned, BLOCK
  <2>5. ContentsWhole'
    BY <1>1, <1>5, <2>3 DEF ContentsWhole
  <2>6. TotalIsWritten' /\ StreamAligned'
    BY <1>1, <2>1, <2>4 DEF TotalIsWritten, StreamAligned, Aligned
  <2>7. TypeOK'
    BY <1>1, <1>2, <2>2 DEF TypeOK
  <2>8. QED
    BY <1>1, <2>5, <2>6, <2>7 DEF IInv, Running, DoneInv
<1>7. CASE Finish
  <2>1. ~PadNeeded /\ emitted' = emitted
    BY <1>7 DEF Finish, buffer
  <2>2. can_splice = 1 => Aligned(total)
    BY <1>2, <1>3, <2>1 DEF PadNeeded, CountInv, TypeOK, Aligned, BLOCK
  <2>3. ASSUME Intact PROVE total = padded_size(file_size)
    <3>1. CASE can_splice = 1 /\ total = file_size
      BY <1>3, <2>2, <3>1 DEF padded_size, Aligned
    <3>2. QED
      BY <1>4, <2>3, <3>1
  <2>4. Written' = total
    BY <1>1, <1>2, <2>1 DEF CountInv, Written, size
  <2>5. ContentsWhole'
    BY <1>1, <1>5, <2>3, <2>4 DEF ContentsWhole
  <2>6. TotalIsWritten'
    BY <1>1, <2>4 DEF TotalIsWritten
  <2>7. StreamAligned'
    <3>1. ASSUME ~(output = "pipe" /\ can_splice = 0 /\ shortened = 1)
          PROVE  Aligned(total)
      <4>1. CASE can_splice = 1
        BY <2>2, <4>1
      <4>2. CASE Intact
        BY <1>3, <2>3, <4>2, PaddedSize
      <4>3. can_splice \in {0, 1}
        BY <1>2 DEF TypeOK
      <4>4. QED
        BY <1>5, <3>1, <4>1, <4>2, <4>3
    <3>2. QED
      BY <1>1, <2>4, <3>1 DEF StreamAligned, Aligned
  <2>8. TypeOK'
    BY <1>1, <1>2, <2>1 DEF TypeOK
  <2>9. QED
    BY <1>1, <2>5, <2>6, <2>7, <2>8 DEF IInv, Running, DoneInv
<1>8. QED
  BY <1>6, <1>7

\* A call that fails promises nothing of what it wrote.
LEMMA FailKeepsInv ==
  ASSUME IInv, Running, pc' = "failed", TypeOK'
  PROVE  IInv'
BY DEF IInv, Running, DoneInv, ContentsWhole, TotalIsWritten, StreamAligned

\* The invariant is inductive: one step per action.
LEMMA StepIInv ==
  ASSUME IInv, [Next]_vars
  PROVE  IInv'
PROOF
<1> USE SizeIsBlocks
<1>1. ASSUME LoopWithRoom PROVE IInv'
  <2>1. pc = "top" /\ unused # 0 /\ ChooseTransfer(emptied_buffer)
        /\ unused' = unused /\ emitted' = emitted
    BY <1>1 DEF LoopWithRoom, buffer, ChooseTransfer, file
  <2>2. unused \in 0..size /\ emitted \in Nat /\ emptied_buffer \in {0, 1}
        /\ Aligned(unused)
    BY <2>1 DEF IInv, TypeOK, Running, RunInv, CountInv
  <2>3. QED
    BY <2>1, <2>2, ChooseKeepsInv
<1>2. ASSUME LoopFlushing PROVE IInv'
  <2>1. pc = "top" /\ unused = 0 /\ ChooseTransfer(1)
        /\ unused' = size /\ emitted' = emitted + size
    BY <1>2 DEF LoopFlushing, ChooseTransfer, file
  <2>2. emitted \in Nat
    BY DEF IInv, TypeOK
  <2>3. size # 0
    BY DEF BLOCK
  <2>4. QED
    BY <2>1, <2>2, <2>3, ChooseKeepsInv
<1>3. ASSUME SpliceNothing PROVE IInv'
  <2>1. /\ pc = "splice" /\ pc' = "finish" /\ Available(max_read) = 0
        /\ UNCHANGED <<file_size, start, output, length, shortened, pos, unused,
                       emitted, can_splice, max_read, emptied_buffer,
                       splice_total, total, real_total, errno>>
    BY <1>3 DEF SpliceNothing, fixed, file, locals, buffer
  <2>2. TypeOK /\ RunInv /\ CountInv /\ BypassInv /\ LoopInv
    BY <2>1 DEF IInv, Running, RunInv
  <2>3. TypeOK' /\ CountInv' /\ BypassInv' /\ LoopInv' /\ DoneInv'
    BY <2>1, <2>2
       DEF TypeOK, CountInv, Written, Aligned, BypassInv, LoopInv, DoneInv,
           ContentsWhole, TotalIsWritten, StreamAligned, size
  <2>4. ~Intact
    <3>1. SUFFICES ASSUME Intact PROVE FALSE
      OBVIOUS
    <3>2. /\ max_read > 0 /\ max_read \in Nat /\ file_size \in Nat
          /\ max_read <= file_size - real_total /\ length >= file_size
          /\ pos = real_total /\ pos \in Nat /\ length \in Nat
      BY <2>1, <2>2, <3>1, FileContentsAssumption
         DEF TypeOK, RunInv, CountInv, BypassInv, LoopInv, WholeInv
    <3>3. QED
      BY <2>1, <3>2 DEF Available, Smaller
  <2>5. QED
    BY <2>1, <2>3, <2>4 DEF IInv, RunInv, Intact
<1>4. ASSUME SpliceFails PROVE IInv'
  <2>1. /\ pc = "splice" /\ pc' = "read" /\ can_splice' = 0 /\ errno' = "EAGAIN"
        /\ UNCHANGED <<file_size, start, output, length, shortened, pos, unused,
                       emitted, max_read, emptied_buffer, splice_total, total,
                       real_total>>
    BY <1>4 DEF SpliceFails, fixed, file, locals, buffer
  <2>2. TypeOK /\ RunInv /\ CountInv /\ BypassInv /\ LoopInv
        /\ file_size \in Nat
    BY <2>1, FileContentsAssumption DEF IInv, Running, RunInv, TypeOK
  <2>3. TypeOK' /\ LoopInv' /\ CountInv' /\ BypassInv' /\ DoneInv'
    BY <2>1, <2>2
       DEF TypeOK, CountInv, LoopInv, BypassInv, Written, Aligned, DoneInv,
           ContentsWhole, TotalIsWritten, StreamAligned, size
  <2>4. Intact' => WholeInv'
    <3>1. SUFFICES ASSUME Intact PROVE WholeInv'
      BY <2>1 DEF Intact
    <3>2. WholeInv
      BY <2>2, <3>1 DEF RunInv
    <3>3. Aligned(real_total) /\ total = padded_size(real_total)
      BY <2>1, <2>2, <3>2 DEF WholeInv, LoopInv, TypeOK, padded_size, Aligned
    <3>4. QED
      BY <2>1, <3>2, <3>3 DEF WholeInv, Aligned, padded_size
  <2>5. QED
    BY <2>3, <2>4 DEF IInv, RunInv
<1>5. ASSUME ReadInterrupted PROVE IInv'
  BY <1>5 DEF ReadInterrupted, fixed, file, locals, buffer, IInv, Running,
              RunInv, TypeOK, CountInv, LoopInv, BypassInv, WholeInv, Intact,
              DoneInv, ContentsWhole, TotalIsWritten, StreamAligned, Written,
              Aligned, size
<1>6. ASSUME FlushFails \/ PadFails PROVE IInv'
  BY <1>6, FailKeepsInv
     DEF FlushFails, PadFails, Fail, fixed, file, locals, buffer, Running, IInv,
         TypeOK
<1>7. ASSUME ReadFails PROVE IInv'
  BY <1>7, FailKeepsInv
     DEF ReadFails, Fail, fixed, file, locals, Running, IInv, TypeOK
<1>8. ASSUME ReadShort PROVE IInv'
  <2>1. pos' \in Nat
    BY <1>8, FileContentsAssumption
       DEF ReadShort, ReadLimit, Available, Smaller, IInv, TypeOK
  <2>2. errno' \in {"none", "stale", "EAGAIN", "EINTR", "EIO", "EINVAL"}
    BY <1>8 DEF ReadShort, Fail, IInv, TypeOK
  <2>3. QED
    BY <1>8, <2>1, <2>2, FailKeepsInv
       DEF ReadShort, Fail, fixed, file, locals, Running, IInv, TypeOK
<1>9. ASSUME NEW n \in FileSizes, Resize(n) PROVE IInv'
  <2>1. /\ Running /\ length' = n /\ n \in Nat
        /\ shortened' = IF n < file_size THEN 1 ELSE shortened
        /\ UNCHANGED <<pc, file_size, start, output, pos, unused, emitted,
                       can_splice, max_read, emptied_buffer, splice_total, total,
                       real_total, errno>>
    BY <1>9, FileContentsAssumption DEF Resize, fixed, locals, buffer
  <2>2. TypeOK /\ RunInv /\ CountInv /\ LoopInv /\ BypassInv /\ file_size \in Nat
    BY <2>1, FileContentsAssumption DEF IInv, RunInv, TypeOK
  <2>3. TypeOK' /\ CountInv' /\ DoneInv'
    BY <2>1, <2>2
       DEF TypeOK, CountInv, Written, Aligned, DoneInv, ContentsWhole,
           TotalIsWritten, StreamAligned, Running, size
  <2>4. LoopInv' /\ BypassInv'
    BY <2>1, <2>2 DEF LoopInv, BypassInv, Aligned, size
  <2>5. Intact' => WholeInv'
    BY <2>1, <2>2 DEF Intact, RunInv, WholeInv, Aligned, padded_size, TypeOK
  <2>6. QED
    BY <2>3, <2>4, <2>5 DEF IInv, RunInv
<1>10. CASE UNCHANGED vars
  BY <1>10 DEF vars, IInv, Running, RunInv, TypeOK, CountInv, LoopInv, BypassInv,
               WholeInv, Intact, DoneInv, ContentsWhole, TotalIsWritten,
               StreamAligned, Written, Aligned, size
<1>11. QED
  BY <1>1, <1>2, <1>3, <1>4, <1>5, <1>6, <1>7, <1>8, <1>9, <1>10,
     SpliceKeepsInv, ReadKeepsInv, EndKeepsInv
     DEF Next, Step, Fault

-----------------------------------------------------------------------------
\* A body reported as written has the length its header promised, padded to
\* whole blocks, unless its file was too short while it could be spliced: the
\* mixture of flushes, short splices, fallbacks and reads loses nothing.
THEOREM ContentsWholeHolds == Spec => []ContentsWhole
PROOF
<1>1. Init => IInv
  BY InitIInv
<1>2. IInv /\ [Next]_vars => IInv'
  BY StepIInv
<1>3. IInv => ContentsWhole
  BY DEF IInv, DoneInv
<1>4. QED
  BY <1>1, <1>2, <1>3, PTL DEF Spec

\* The state is as typed, in particular the room left in the record never
\* negative, and the file offset and the bytes counted, by splice() and by
\* read(), agree at every step, whatever becomes of the file: nothing is skipped
\* or repeated.
THEOREM ContiguousHolds == Spec => [](TypeOK /\ Contiguous)
PROOF
<1>1. Init => IInv
  BY InitIInv
<1>2. IInv /\ [Next]_vars => IInv'
  BY StepIInv
<1>3. IInv => TypeOK /\ Contiguous
  BY DEF IInv, RunInv, CountInv, Contiguous
<1>4. QED
  BY <1>1, <1>2, <1>3, PTL DEF Spec

\* At every step of b_file_write_contents() the offsets, the counts and the room in
\* the record are numbers in their ranges, the room within the record.
THEOREM RoomStaysInRecord == Spec => []TypeOK
BY ContiguousHolds, PTL

\* Where the output is no pipe, the count returned is the count written.
THEOREM TotalIsWrittenHolds == Spec => []TotalIsWritten
PROOF
<1>1. Init => IInv
  BY InitIInv
<1>2. IInv /\ [Next]_vars => IInv'
  BY StepIInv
<1>3. IInv => TotalIsWritten
  BY DEF IInv, DoneInv
<1>4. QED
  BY <1>1, <1>2, <1>3, PTL DEF Spec

\* splice() and the padding after it go to the output only while the record
\* holds nothing: they overtake no byte of it, and the padding is of zeros.
THEOREM BypassOnlyWhenEmptyHolds == Spec => []BypassOnlyWhenEmpty
PROOF
<1>1. Init => IInv
  BY InitIInv
<1>2. IInv /\ [Next]_vars => IInv'
  BY StepIInv
<1>3. IInv => BypassOnlyWhenEmpty
  BY DEF IInv, RunInv, BypassInv, Running, BypassOnlyWhenEmpty, PadNeeded
<1>4. QED
  BY <1>1, <1>2, <1>3, PTL DEF Spec

\* What follows a body that was reported written begins on a block, even if the
\* file was cut short, but for the exception StreamAligned names.
THEOREM StreamAlignedHolds == Spec => []StreamAligned
PROOF
<1>1. Init => IInv
  BY InitIInv
<1>2. IInv /\ [Next]_vars => IInv'
  BY StepIInv
<1>3. IInv => StreamAligned
  BY DEF IInv, DoneInv
<1>4. QED
  BY <1>1, <1>2, <1>3, PTL DEF Spec
=============================================================================
