--------------------------- MODULE MCBlockBuffer ---------------------------
(***************************************************************************)
(* BlockBuffer with a record of two blocks.                                *)
(***************************************************************************)
EXTENDS BlockBuffer

\* One byte, a header, a header and a bit, and the whole record.
MCRequests == {1, 512, 700, 1024}

\* A write that ends within the first block, and one at its end.
MCChunks == {300, 512}
=============================================================================
