---------------------------- MODULE MCTraversal ----------------------------
(***************************************************************************)
(* Traversal of a directory with a file, a link to a directory, a socket,  *)
(* and a directory with a directory that has a file; then of a second      *)
(* argument, a file.                                                       *)
(***************************************************************************)
EXTENDS Traversal

MCNodes == {"top", "file", "link", "socket", "sub", "deep", "leaf",
            "inner", "single"}
MCParent == [n \in MCNodes |->
  CASE n \in {"top", "single"}        -> "none"
    [] n \in {"file", "link", "socket", "sub"} -> "top"
    [] n = "deep"                     -> "sub"
    [] n = "leaf"                     -> "deep"
    [] n = "inner"                    -> "link"]
MCKind == [n \in MCNodes |->
  CASE n \in {"top", "sub", "deep"} -> "dir"
    [] n = "link"                   -> "link"
    [] n = "socket"                 -> "socket"
    [] OTHER                        -> "file"]
MCBehind == [n \in MCNodes |-> "dir"]
MCArguments == <<"top", "single">>

MCTop == <<"top">>

\* A link is removed, or makes way for a file; directories are removed, and make
\* way for a file or a link; an argument is removed.
MCReplacements ==
  {<<"link", "link", "gone">>, <<"link", "link", "file">>,
   <<"sub", "dir", "gone">>, <<"deep", "dir", "file">>, <<"deep", "dir", "link">>,
   <<"single", "file", "gone">>}

MCLinkToFile == {<<"link", "link", "file">>}

\* With all the descriptors it needs, with one too few for deep, and without a
\* standard input.
MCFlags == {{}, {"follow", "sockets"}}
MCInherited == {{}, {0}, {0, 6}}
=============================================================================
