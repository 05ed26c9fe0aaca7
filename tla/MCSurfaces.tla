----------------------------- MODULE MCSurfaces -----------------------------
(* Two terminals, one shown here, one to attach; two folders; one sheet beside Settings. *)
EXTENDS Surfaces
MCNameOf == [t \in Terminals |-> t]
=============================================================================
