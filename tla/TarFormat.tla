----------------------------- MODULE TarFormat -----------------------------
(***************************************************************************)
(* The sizes of the ustar format every other module counts in: a stream is *)
(* a sequence of 512-byte blocks, written out in records of a whole number *)
(* of blocks.                                                              *)
(***************************************************************************)
EXTENDS Integers

\* B_BUFFER_BLOCK_SIZE, which equals B_BLOCK_SIZE and B_HEADER_SIZE.  A literal
\* rather than a CONSTANT, so that "% BLOCK" is linear arithmetic to a prover.
BLOCK == 512

\* The number of bytes an object of this size occupies in the stream.
padded_size(size) ==
  IF size % BLOCK = 0 THEN size ELSE size + (BLOCK - (size % BLOCK))

Aligned(n) == n % BLOCK = 0

Smaller(a, b) == IF a < b THEN a ELSE b
Larger(a, b)  == IF a < b THEN b ELSE a
=============================================================================
