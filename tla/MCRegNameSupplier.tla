------------------------- MODULE MCRegNameSupplier -------------------------
(***************************************************************************)
(* Small instances of RegNameSupplier.  Two pools let one slot stall while *)
(* another pool still has names; the four slots are those of the code.     *)
(***************************************************************************)
EXTENDS RegNameSupplier
=============================================================================
