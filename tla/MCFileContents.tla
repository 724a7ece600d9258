--------------------------- MODULE MCFileContents ---------------------------
(***************************************************************************)
(* FileContents with a record of two blocks.  A file may be empty, end     *)
(* within its first block, with it, within the record, or need several     *)
(* records; at 2148 bytes the int splice_total has wrapped.                *)
(***************************************************************************)
EXTENDS FileContents

MCFileSizes == {0, 100, 512, 900, 1536, 2148, 3072}
=============================================================================
