------------------------------ MODULE MCStack ------------------------------
(***************************************************************************)
(* Stack with growth factors of one, two (the default) and three.          *)
(***************************************************************************)
EXTENDS Stack
=============================================================================
