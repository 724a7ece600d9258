------------------------------- MODULE MCSession -------------------------------
(***************************************************************************)
(* Session with two handles and three entries: the two paths of a file     *)
(* with two links, and a symbolic link of the same user.                   *)
(***************************************************************************)
EXTENDS Session, TLC

CONSTANTS h1, h2, file, twin

MCFiles == {[path |-> file, uid |-> 1, inode |-> 1],
            [path |-> twin, uid |-> 1, inode |-> 1],
            [path |-> "link", uid |-> 1, inode |-> None]}
MCOptions == {{"ignore_errors"}, {"preserve_hardlinks"}}

\* Nothing tells the handles apart, nor the two paths.
MCSymmetry == Permutations({h1, h2}) \cup Permutations({file, twin})
=============================================================================
