-------------------------- MODULE MCReorderBuffer --------------------------
(***************************************************************************)
(* Small instances of ReorderBuffer.  The buffer of the code has four      *)
(* groups of four entries and a window of six; the passing runs scale this *)
(* to three groups of two and a window of three, which keeps the window    *)
(* one half longer than a group.                                           *)
(***************************************************************************)
EXTENDS ReorderBuffer
=============================================================================
