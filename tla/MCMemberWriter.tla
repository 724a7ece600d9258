-------------------------- MODULE MCMemberWriter --------------------------
(***************************************************************************)
(* MemberWriter with a record of two or three blocks and the files whose   *)
(* archiving differs: the numbers are such that long names and bodies end  *)
(* within a record, with it, and in the next.                              *)
(***************************************************************************)
EXTENDS MemberWriter

File(name, len, cut, type, blocks, inode, dest, destlen) ==
  [name |-> name, len |-> len, cut |-> cut, type |-> type, blocks |-> blocks,
   inode |-> inode, dest |-> dest, destlen |-> destlen]

Plain == File("plain", 10, FALSE, "0", 1, 1, None, 0)
\* Another link to the same inode, with a name of two blocks.
Twin  == File("twin", 600, TRUE, "0", 1, 1, None, 0)
\* A name of 512 bytes, for which only the slash needs a second block.
Dir   == File("dir", 512, TRUE, "5", 0, 0, None, 0)
Big   == File("big", 10, FALSE, "0", 3, 0, None, 0)
Empty == File("empty", 120, TRUE, "0", 0, 0, None, 0)
Sym   == File("sym", 10, FALSE, "2", 0, 0, "far", 120)
\* Both its name and what it points to are too long for a header.
Both  == File("both", 120, TRUE, "2", 0, 0, "far", 600)

MCFiles == {Plain, Twin, Dir, Big, Sym, Empty, Both}
MCAllInputs == [e \in {"none", "gnu", "pax"} |-> MCFiles]
\* GNU extensions are not up to two long names, as a run of their own shows.
MCInputs == [MCAllInputs EXCEPT !["gnu"] = MCFiles \ {Both}]

Everything == {"flush", "read", "lookup", "readlink"}
MCFaultSets == {{"readlink"}, Everything}
=============================================================================
