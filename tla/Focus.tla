-------------------------------- MODULE Focus --------------------------------
(***************************************************************************)
(* Who owns the keyboard (focus.js).  Every surface over the terminals claims *)
(* it while it is open.  Claims are counted per surface; a terminal takes the   *)
(* keyboard only when none is held.  A count is kept by the module of its       *)
(* surface.                                                                    *)
(***************************************************************************)
EXTENDS Naturals

Claimed(n) == n + 1
Released(n) == IF n <= 1 THEN 0 ELSE n - 1
=============================================================================
