------------------------------ MODULE Columns -------------------------------
(***************************************************************************)
(* Side by side workspaces and the record of what is open, without a page     *)
(* (stage_columns.js, open_views.js).  A column state is [shown, active]: the   *)
(* views on screen, left to right, and the one with the keyboard.  The widths    *)
(* are abstracted to whether they are still equal.                                *)
(***************************************************************************)
EXTENDS Lists, SequencesExt

CONSTANTS
    MaxColumns,  \* MAX_COLUMNS
    MaxStored,   \* MAX_STORED_VIEWS
    None

ASSUME ColumnsAssumption == MaxColumns \in Nat \ {0, 1} /\ MaxStored \in Nat \ {0}

Has(list, x) == x \in ToSet(list)
Without(list, x) == Picked(list, {i \in DOMAIN list : list[i] # x})
At(list, x) == SelectInSeq(list, LAMBDA y : y = x)
Known(list, S) == Picked(list, {i \in DOMAIN list : list[i] \in S})
Once(list) == Picked(list, {i \in DOMAIN list : \A j \in 1 .. i - 1 : list[j] # list[i]})

-----------------------------------------------------------------------------
(* The columns. *)

Columns(shown, active) == [shown |-> shown, active |-> active]
ShowAlone(v) == Columns(<<v>>, v)
FocusColumn(c, v) == IF Has(c.shown, v) THEN Columns(c.shown, v) ELSE ShowAlone(v)

\* Past MaxColumns the oldest column leaves, never the one that had the keyboard.
AddColumn(c, v) ==
    LET next   == Append(c.shown, v)
        oldest == SelectInSeq(next, LAMBDA w : w \notin {c.active, v})
    IN  IF Has(c.shown, v) THEN Columns(c.shown, v)
        ELSE Columns(IF Len(next) > MaxColumns THEN Without(next, next[oldest]) ELSE next, v)

\* The keyboard goes to the left neighbour of the column that leaves.
RemoveColumn(c, v) ==
    LET next == Without(c.shown, v)
        left == At(c.shown, v) - 1
    IN  IF ~ Has(c.shown, v) \/ Len(c.shown) < 2 THEN c
        ELSE Columns(next, IF c.active # v THEN c.active ELSE next[IF left < 1 THEN 1 ELSE left])

ToggleColumn(c, v) ==
    IF Has(c.shown, v) /\ Len(c.shown) > 1 THEN RemoveColumn(c, v) ELSE AddColumn(c, v)

\* The column beside the active one, or None at the edge.
StepColumn(c, right) ==
    LET i == At(c.shown, c.active) IN
    IF Len(c.shown) < 2 THEN None
    ELSE IF right THEN IF i < Len(c.shown) THEN c.shown[i + 1] ELSE None
    ELSE IF i > 1 THEN c.shown[i - 1] ELSE None

-----------------------------------------------------------------------------
(* The record: what was open, which one had the keyboard, and the split.  A name *)
(* is a workspace, or Scratch for any scratch view.                               *)

Record(open, shown, split, equal) == [open |-> open, shown |-> shown, split |-> split, equal |-> equal]
Nothing == Record(<<>>, None, <<>>, TRUE)

DescribeSplit(shown, equal) == IF Len(shown) < 2 THEN [split |-> <<>>, equal |-> TRUE]
                               ELSE [split |-> shown, equal |-> equal]

\* A split that does not hold up is dropped on its own, its widths with it.
ParseSplit(r, open) ==
    LET known == Known(Once(r.split), ToSet(open))
        names == SubSeq(known, 1, IF Len(known) > MaxColumns THEN MaxColumns ELSE Len(known))
    IN  IF Len(names) < 2 THEN [split |-> <<>>, equal |-> TRUE]
        ELSE [split |-> names, equal |-> r.equal \/ names # r.split]

\* None for a list nobody opened by hand.
ParseOpenViews(r) ==
    LET open == Once(r.open)
        split == ParseSplit(r, open)
    IN  IF Len(r.open) > MaxStored THEN None
        ELSE Record(open, IF Has(open, r.shown) THEN r.shown ELSE None, split.split, split.equal)

KeepSplit(r, open) ==
    LET kept == Known(r.split, ToSet(open)) IN
    IF Len(kept) < 2 THEN [split |-> <<>>, equal |-> TRUE] ELSE [split |-> kept, equal |-> r.equal]

\* What can come back: a workspace that is not there any more is left out.
RestorePlan(r, missing) ==
    LET open == Known(r.open, ToSet(r.open) \ missing)
        kept == KeepSplit(r, open)
    IN  Record(open, IF Has(open, r.shown) THEN r.shown ELSE None, kept.split, kept.equal)
=============================================================================
