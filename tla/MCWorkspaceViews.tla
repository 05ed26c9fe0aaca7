--------------------------- MODULE MCWorkspaceViews ---------------------------
(* Model values for WorkspaceViews: the views are alike. *)
EXTENDS WorkspaceViews, TLC
AlikeViews == Permutations(Views)
\* Two of an edit, a rename and a fault in one behaviour.
TwoOfThree == done.edits + done.renames + done.faults <= 2
=============================================================================
