------------------------------- MODULE Stage --------------------------------
(***************************************************************************)
(* The window around the views (workspace_views.js, shell.js, and what main.js *)
(* tells the window when a view has booted).  The views are opened, closed and   *)
(* restored one operation at a time, each with an answer to wait for, while the   *)
(* user keeps switching between those that are there.  A view is a document of      *)
(* its own: it boots late, has to be told whether it is shown, and may not name the  *)
(* workspace it was opened for.  What is open is stored, and comes back after a       *)
(* reload.                                                                              *)
(*                                                                         *)
(* The methods of WorkspaceViews call one another, so each is an operator from a      *)
(* stage to a stage, and an action is one call from outside.                            *)
(***************************************************************************)
EXTENDS Columns, FiniteSets, Functions

CONSTANTS
    Names,       \* the saved workspaces
    NameOrder,   \* ... in the order of the sidebar
    Scratch, Shell,
    MaxViews,    \* bound: views made in one behaviour
    MaxCommands, \* bound: what the user does in one behaviour
    MaxReloads   \* bound: reloads of the window, and of a view

ViewIds == 1..MaxViews

ASSUME StageAssumption ==
    /\ NameOrder \in Seq(Names) /\ ToSet(NameOrder) = Names /\ Scratch \notin Names
    /\ MaxViews \in Nat /\ None \notin ViewIds /\ None \notin BOOLEAN

VARIABLES
    stage,       \* WorkspaceViews
    doc,         \* the documents of the views: phase, name and what they were told
    overlay,     \* a palette, a panel or a menu holds the keyboard
    keys,        \* the document that has the keyboard
    queue,       \* the operations asked for, the running one first
    left,        \* the workspaces the registry still counts to the page before
    boot,        \* how far the window is: "release", "restore", "restoring", "open", "up"
    commands, reloads

vars == <<stage, doc, overlay, keys, queue, left, boot, commands, reloads>>

-----------------------------------------------------------------------------
(* Documents; kept is history: the view has gone by one name all its life. *)

NoDoc == [phase |-> "none", asked |-> None, name |-> None, suspended |-> TRUE, hidden |-> FALSE,
          kept |-> TRUE]
IsLive(d) == d.phase = "live"

\* Everything an operator changes, in one record.
Now == [items |-> stage.items, recent |-> stage.recent, active |-> stage.active, shown |-> stage.shown,
        equal |-> stage.equal, pending |-> stage.pending, told |-> stage.told,
        persisting |-> stage.persisting, stored |-> stage.stored,
        doc |-> doc, overlay |-> overlay, keys |-> keys]
Becomes(s) ==
    /\ stage' = [items |-> s.items, recent |-> s.recent, active |-> s.active, shown |-> s.shown,
                 equal |-> s.equal, pending |-> s.pending, told |-> s.told,
                 persisting |-> s.persisting, stored |-> s.stored]
    /\ doc' = s.doc /\ overlay' = s.overlay /\ keys' = s.keys

WorkspaceOf(s, v) == s.doc[v].name
NamesOf(s, list) == [i \in DOMAIN list |-> WorkspaceOf(s, list[i])]
\* The first view on name, or None; Scratch finds the scratch view.
ViewFor(s, name) ==
    LET i == SelectInSeq(s.items, LAMBDA v : WorkspaceOf(s, v) = name) IN IF i = 0 THEN None ELSE s.items[i]

-----------------------------------------------------------------------------
(* What is stored. *)

\* describeOpenViews, with the name each view goes by.
DescribeAs(s, goesBy) ==
    LET names(list) == [i \in DOMAIN list |-> goesBy[list[i]]]
        split == DescribeSplit(names(s.shown), s.equal)
    IN  Record(names(s.items), IF s.active = None THEN None ELSE goesBy[s.active], split.split, split.equal)
Describe(s) == DescribeAs(s, [v \in ViewIds |-> WorkspaceOf(s, v)])
Persist(s) == IF s.persisting THEN [s EXCEPT !.stored = Describe(s)] ELSE s

-----------------------------------------------------------------------------
(* Showing one, or a few side by side. *)

\* Every document that is there hears whether it is hidden, once per change.
TellHidden(s) ==
    LET tell == {v \in ToSet(s.items) : IsLive(s.doc[v]) /\ s.told[v] # ~ Has(s.shown, v)} IN
    [s EXCEPT !.told = [v \in ViewIds |-> IF v \in tell THEN ~ Has(s.shown, v) ELSE @[v]],
              !.doc = [v \in ViewIds |-> IF v \in tell THEN [@[v] EXCEPT !.hidden = ~ Has(s.shown, v)] ELSE @[v]]]
Suspend(s) ==
    [s EXCEPT !.doc = [v \in ViewIds |-> IF Has(s.items, v) /\ IsLive(@[v])
                                         THEN [@[v] EXCEPT !.suspended = v # s.active] ELSE @[v]]]
\* A view that is not shown is inert: the page takes the keyboard out of it.
Paint(s) == TellHidden([s EXCEPT !.keys = IF @ = Shell \/ Has(s.shown, @) THEN @ ELSE Shell])

SetColumns(s, c, equal) ==
    Persist(Paint(Suspend(
        [s EXCEPT !.shown = c.shown, !.active = c.active, !.equal = equal,
                  !.recent = Append(Without(@, c.active), c.active)])))
\* The widths start equal whenever the set of columns changes.
SetShown(s, c) ==
    IF c.shown = s.shown /\ c.active = s.active THEN s
    ELSE SetColumns(s, c, s.equal \/ ToSet(c.shown) # ToSet(s.shown))
Activate(s, v, alone) ==
    IF ~ Has(s.items, v) THEN s ELSE SetShown(s, IF alone THEN ShowAlone(v) ELSE FocusColumn(s, v))

\* Fault: the view takes the keyboard from the overlay.
FocusNow(s, v, alone) ==
    LET t == Activate(s, v, alone) IN
    IF v = None THEN s
    ELSE [t EXCEPT !.pending = IF @ = v THEN None ELSE @, !.keys = IF Has(t.items, v) THEN v ELSE @]
FocusView(s, v, alone) ==
    LET t == Activate(s, v, alone) IN
    IF v = None THEN s
    ELSE IF s.overlay THEN [t EXCEPT !.pending = v]
    ELSE [t EXCEPT !.pending = IF @ = v THEN None ELSE @, !.keys = IF Has(t.items, v) THEN v ELSE @]

ToggleShown(s, v) ==
    LET t == SetShown(s, ToggleColumn(s, v)) IN
    IF t.active # s.active \/ t.active = v THEN FocusView(t, t.active, FALSE) ELSE t
RemoveShown(s, v) ==
    LET t == SetShown(s, RemoveColumn(s, v)) IN
    IF ~ Has(s.shown, v) \/ Len(s.shown) < 2 THEN s
    ELSE IF s.active = v THEN FocusView(t, t.active, FALSE) ELSE t
\* A column that still boots must not take the keyboard back later.
TakeColumn(s, v) ==
    IF ~ Has(s.shown, v) \/ v = s.active THEN s
    ELSE Activate([s EXCEPT !.pending = IF @ = v THEN v ELSE None], v, FALSE)

\* Saved workspaces by name, scratch last.
SidebarOrder(s) ==
    LET named == Known(NameOrder, {n \in Names : ViewFor(s, n) # None}) IN
    [i \in DOMAIN named |-> ViewFor(s, named[i])] \o Known(s.items, {v \in ViewIds : WorkspaceOf(s, v) = Scratch})
Cycle(s, forward) ==
    LET order == SidebarOrder(s)
        n     == Len(order)
        i     == IF s.active = None THEN 0 ELSE At(order, s.active)
        next  == order[((i - 1 + n + (IF forward THEN 1 ELSE n - 1)) % n) + 1]
    IN  IF Len(s.items) < 2 \/ n = 0 THEN s ELSE FocusView(s, next, TRUE)

-----------------------------------------------------------------------------
(* Open, close, and a document that is ready. *)

Op(kind, name, view, beside) ==
    [kind |-> kind, name |-> name, view |-> view, beside |-> beside, running |-> FALSE,
     plan |-> Nothing, names |-> <<>>, failed |-> FALSE]
NextId(s) == Cardinality({v \in ViewIds : s.doc[v].phase # "none"}) + 1
\* The registry lets one view write a workspace.
Refusable(s, name) == name \in left \cup ToSet(NamesOf(s, s.items)) /\ name # Scratch

Place(s, name) ==
    LET v == NextId(s) IN
    Paint([s EXCEPT !.items = Append(@, v), !.told[v] = None,
                    !.doc[v] = [NoDoc EXCEPT !.phase = "loading", !.asked = name, !.name = name]])
Opened(s, name, beside) ==
    LET v == NextId(s)
        t == [Place(s, name) EXCEPT !.pending = v]
    IN  IF beside THEN SetShown(t, AddColumn(t, v)) ELSE Activate(t, v, FALSE)

Removed(s, v) ==
    [s EXCEPT !.items = Without(@, v), !.recent = Without(@, v), !.pending = IF @ = v THEN None ELSE @,
              !.doc[v].phase = "gone", !.keys = IF @ = v THEN Shell ELSE @]
Leaves(s, v) ==
    LET t    == Removed(s, v)
        u    == SetShown(t, RemoveColumn(t, v))
        none == [t EXCEPT !.active = None, !.shown = <<>>]
        heir == IF t.recent # <<>> THEN Last(t.recent) ELSE IF t.items # <<>> THEN Last(t.items) ELSE None
    IN  IF Has(s.shown, v) /\ Len(s.shown) > 1
        THEN IF s.active = v THEN FocusView(u, u.active, FALSE) ELSE u
        ELSE IF s.active = v THEN FocusView(none, heir, FALSE)
        ELSE t
\* The store follows a view that was not on screen, too.
Closed(s, v) == Persist(Paint(Leaves(s, v)))

\* Fault: what the document before was told is taken for told.
ReadyToldBefore(s, v) ==
    LET t == TellHidden(Suspend([s EXCEPT !.doc[v].phase = "live"])) IN
    IF s.pending = v THEN FocusView([t EXCEPT !.pending = None], v, FALSE) ELSE t
\* A fresh document knows nothing yet.
Ready(s, v) ==
    LET t == TellHidden(Suspend([s EXCEPT !.doc[v].phase = "live", !.told[v] = None])) IN
    IF s.pending = v THEN FocusView([t EXCEPT !.pending = None], v, FALSE) ELSE t

Finished == queue' = Tail(queue)
Running(kind) == queue # <<>> /\ Head(queue).kind = kind /\ Head(queue).running
Starts(kind) == queue # <<>> /\ Head(queue).kind = kind /\ ~ Head(queue).running
Waits == queue' = <<[Head(queue) EXCEPT !.running = TRUE]>> \o Tail(queue)

StartOpen ==
    /\ Starts("open")
    /\ LET op == Head(queue)
           v  == ViewFor(Now, op.name)
       IN  IF v = None THEN Waits /\ UNCHANGED <<stage, doc, overlay, keys>>
           ELSE Finished /\ Becomes(IF op.beside THEN ToggleShown(Now, v) ELSE FocusView(Now, v, FALSE))
    /\ UNCHANGED <<left, boot>>
OpenAnswer ==
    /\ Running("open") /\ Finished
    /\ LET op == Head(queue) IN
       \/ UNCHANGED <<stage, doc, overlay, keys>>
       \/ NextId(Now) \in ViewIds /\ ~ Refusable(Now, op.name) /\ Becomes(Opened(Now, op.name, op.beside))
    /\ UNCHANGED <<left, boot>>

StartClose ==
    /\ Starts("close")
    /\ LET v == Head(queue).view IN
       IF Has(stage.items, v) /\ IsLive(doc[v]) THEN Waits ELSE Finished
    /\ UNCHANGED <<stage, doc, overlay, keys, left, boot>>
CloseAnswer ==
    /\ Running("close") /\ Finished
    /\ UNCHANGED <<stage, doc, overlay, keys>> \/ Becomes(Closed(Now, Head(queue).view))
    /\ UNCHANGED <<left, boot>>

\* The document has booted, on its workspace or, when it could not find or claim it, on scratch.
Boots(v) ==
    /\ doc[v].phase = "loading"
    /\ \E name \in {doc[v].asked, Scratch} : Becomes(Ready([Now EXCEPT !.doc[v].name = name, !.doc[v].kept = @ /\ name = doc[v].asked], v))
    /\ UNCHANGED <<queue, left, boot>>

\* saveWorkspace in a scratch view: it names itself, in place.
Promote(v) ==
    /\ IsLive(doc[v]) /\ doc[v].name = Scratch
    /\ \E n \in Names : ~ Refusable(Now, n) /\ doc' = [doc EXCEPT ![v].name = n, ![v].kept = FALSE]
    /\ UNCHANGED <<stage, overlay, keys, queue, left, boot>>

\* The sidebar renders, or a frame has loaded.
Update ==
    /\ Becomes(Persist(Now))
    /\ UNCHANGED <<queue, left, boot>>

-----------------------------------------------------------------------------
(* Across restarts. *)

\* The registry lists the views of the page before; a request that fails leaves them.
ReleaseLeftovers ==
    /\ boot = "release" /\ boot' = "restore"
    /\ left' \in {{}, left}
    /\ UNCHANGED <<stage, doc, overlay, keys, queue>>

RestoreSaved ==
    /\ boot = "restore"
    /\ \E missing \in SUBSET Names :
         LET record == ParseOpenViews(stage.stored) IN
         IF record = None \/ stage.stored = Nothing \/ stage.items # <<>>
         THEN /\ boot' = "open" /\ Becomes(Persist([Now EXCEPT !.persisting = TRUE]))
              /\ UNCHANGED queue
         ELSE /\ boot' = "restoring"
              /\ queue' = Append(queue, [Op("restore", None, None, FALSE) EXCEPT
                                            !.plan = RestorePlan(record, missing)])
              /\ UNCHANGED <<stage, doc, overlay, keys>>
    /\ UNCHANGED left

\* Fault: the view opened last is shown, not the one that was.
LastFirst(s, plan, columns) == IF s.items = <<>> THEN None ELSE Last(s.items)
ShownFirst(s, plan, columns) ==
    LET was   == IF plan.shown = None THEN None ELSE ViewFor(s, plan.shown)
        first == IF was # None THEN was ELSE IF columns # <<>> THEN columns[1]
                 ELSE IF s.items # <<>> THEN s.items[1] ELSE None
    IN  IF Len(columns) > 1 /\ ~ Has(columns, first) THEN columns[1] ELSE first
\* byName: every view by the workspace it was claimed for, whatever it booted on since.
ByName(s) == [s EXCEPT !.doc = [v \in ViewIds |-> [s.doc[v] EXCEPT !.name = s.doc[v].asked]]]
\* The split comes back with the columns that did, its widths only when all of them did.
Restored(s, plan) ==
    LET names   == Known(plan.split, {n \in ToSet(plan.split) : ViewFor(ByName(s), n) # None})
        columns == [i \in DOMAIN names |-> ViewFor(ByName(s), names[i])]
        first   == ShownFirst(ByName(s), plan, columns)
        t       == [s EXCEPT !.pending = first]
    IN  IF first = None THEN s
        ELSE IF Len(columns) > 1
        THEN SetColumns(t, Columns(columns, first), Len(columns) < Len(plan.split) \/ plan.equal)
        ELSE Activate(t, first, FALSE)

StartRestore ==
    /\ Starts("restore")
    /\ IF stage.items # <<>>
       THEN Finished /\ boot' = "open" /\ Becomes(Persist([Now EXCEPT !.persisting = TRUE]))
       ELSE Waits /\ UNCHANGED <<stage, doc, overlay, keys, boot>>
    /\ UNCHANGED left
RestoreAnswer ==
    /\ Running("restore")
    /\ LET op == Head(queue)
           i  == Len(op.names) + 1
           answered(failed) == queue' = <<[op EXCEPT !.names = Append(@, op.plan.open[i]), !.failed = @ \/ failed]>> \o Tail(queue)
       IN  /\ i <= Len(op.plan.open)
           /\ \/ answered(TRUE) /\ UNCHANGED <<stage, doc, overlay, keys>>
              \/ /\ NextId(Now) \in ViewIds /\ ~ Refusable(Now, op.plan.open[i])
                 /\ answered(FALSE) /\ Becomes(Place(Now, op.plan.open[i]))
    /\ UNCHANGED <<left, boot>>
RestoreEnds ==
    /\ Running("restore") /\ Len(Head(queue).names) = Len(Head(queue).plan.open)
    /\ Finished /\ boot' = "open"
    /\ Becomes(Persist([Restored(Now, Head(queue).plan) EXCEPT !.persisting = TRUE]))
    /\ UNCHANGED left

\* A window with nothing open opens its scratch view.
OpenFirst ==
    /\ boot = "open" /\ boot' = "up"
    /\ queue' = IF stage.items = <<>> THEN Append(queue, Op("open", Scratch, None, FALSE)) ELSE queue
    /\ UNCHANGED <<stage, doc, overlay, keys, left>>

\* The page goes away with its views; the goodbyes of some of them are lost.
Reload ==
    /\ reloads < MaxReloads /\ reloads' = reloads + 1
    /\ left' \in SUBSET (Names \cap {doc[v].name : v \in ToSet(stage.items)})
    /\ stage' = [items |-> <<>>, recent |-> <<>>, active |-> None, shown |-> <<>>, equal |-> TRUE,
                 pending |-> None, told |-> [v \in ViewIds |-> None], persisting |-> FALSE, stored |-> stage.stored]
    /\ doc' = [v \in ViewIds |-> IF doc[v].phase = "none" THEN NoDoc ELSE [NoDoc EXCEPT !.phase = "gone"]]
    /\ overlay' = FALSE /\ keys' = Shell /\ queue' = <<>> /\ boot' = "release"
    /\ UNCHANGED commands
\* The frame of one view loads its document again.
FrameReload(v) ==
    /\ reloads < MaxReloads /\ reloads' = reloads + 1
    /\ IsLive(doc[v]) /\ ~ Running("close")
    /\ doc' = [doc EXCEPT ![v] = [NoDoc EXCEPT !.phase = "loading", !.asked = doc[v].asked, !.name = doc[v].asked,
                                       !.kept = doc[v].kept]]
    /\ UNCHANGED <<stage, overlay, keys, queue, left, boot, commands>>

-----------------------------------------------------------------------------
(* What the user does. *)

Asks(op) == queue' = Append(queue, op) /\ UNCHANGED <<stage, doc, overlay, keys>>
Acts(s) == Becomes(s) /\ UNCHANGED queue

\* The sidebar, the palette, the launch loop; beside: Ctrl+click.
Open == \E name \in Names \cup {Scratch}, beside \in BOOLEAN : Asks(Op("open", name, None, beside))
Close == \E v \in ToSet(stage.items) : Asks(Op("close", None, v, FALSE))
\* A number key: the workspace alone, opened when it is not.
ShowSlot ==
    \E name \in Names \cup {Scratch} :
        LET v == ViewFor(Now, name) IN
        IF v # None THEN Acts(FocusView(Now, v, TRUE))
        ELSE name # Scratch /\ Asks(Op("open", name, None, FALSE))
CycleWorkspace == \E forward \in BOOLEAN : Acts(Cycle(Now, forward))
StepToColumn == \E right \in BOOLEAN : Acts(FocusView(Now, StepColumn(stage, right), FALSE))
RemoveFromSplit == \E v \in ToSet(stage.shown) : Acts(RemoveShown(Now, v))
ShowActiveAlone == Len(stage.shown) > 1 /\ Acts(FocusView(Now, stage.active, TRUE))
DragGutter == Len(stage.shown) > 1 /\ Acts(Persist([Now EXCEPT !.equal = FALSE]))
\* A click in a view: its document takes the keyboard when the stage lets it.
Click ==
    \E v \in ToSet(stage.shown) :
        IsLive(doc[v]) /\ ~ overlay
        /\ Acts([TakeColumn(Now, v) EXCEPT !.keys = v, !.doc[v].suspended = FALSE])
OverlayOpens == ~ overlay /\ Acts([Now EXCEPT !.overlay = TRUE, !.keys = Shell])
\* It hands the keyboard back.
OverlayCloses == overlay /\ Acts(FocusView([Now EXCEPT !.overlay = FALSE], stage.active, FALSE))
WindowFocused == ~ overlay /\ Acts(FocusView(Now, stage.active, FALSE))

Command ==
    /\ \/ Open \/ Close \/ ShowSlot \/ CycleWorkspace \/ StepToColumn \/ RemoveFromSplit \/ ShowActiveAlone
       \/ DragGutter \/ Click \/ OverlayOpens \/ OverlayCloses \/ WindowFocused
       \/ \E v \in ToSet(stage.items) : Promote(v)
    /\ UNCHANGED <<left, boot>>
Answer ==
    \/ StartOpen \/ OpenAnswer \/ StartClose \/ CloseAnswer \/ StartRestore \/ RestoreAnswer \/ RestoreEnds
    \/ Update \/ ReleaseLeftovers \/ RestoreSaved \/ OpenFirst
    \/ \E v \in ViewIds : Boots(v)

Init ==
    /\ stage = [items |-> <<>>, recent |-> <<>>, active |-> None, shown |-> <<>>, equal |-> TRUE, pending |-> None,
                told |-> [v \in ViewIds |-> None], persisting |-> FALSE, stored |-> Nothing]
    /\ doc = [v \in ViewIds |-> NoDoc] /\ overlay = FALSE /\ keys = Shell /\ queue = <<>> /\ left = {}
    /\ boot = "release" /\ commands = 0 /\ reloads = 0
Next ==
    \/ commands < MaxCommands /\ Command /\ commands' = commands + 1 /\ UNCHANGED reloads
    \/ Answer /\ UNCHANGED <<commands, reloads>>
    \/ Reload
    \/ \E v \in ToSet(stage.items) : FrameReload(v)
Spec == Init /\ [][Next]_vars

-----------------------------------------------------------------------------
TypeOK ==
    /\ ToSet(stage.items) = {v \in ViewIds : doc[v].phase \in {"loading", "live"}}
    /\ \A list \in {stage.recent, stage.shown} : ToSet(list) \subseteq ViewIds
    /\ stage.active \in ViewIds \cup {None} /\ stage.pending \in ToSet(stage.items) \cup {None}
    /\ stage.equal \in BOOLEAN /\ stage.persisting \in BOOLEAN /\ overlay \in BOOLEAN
    /\ stage.told \in [ViewIds -> BOOLEAN \cup {None}]
    /\ doc \in [ViewIds -> [phase : {"none", "loading", "live", "gone"}, asked : Names \cup {Scratch, None},
                           name : Names \cup {Scratch, None}, suspended : BOOLEAN, hidden : BOOLEAN, kept : BOOLEAN]]
    /\ keys \in ViewIds \cup {Shell} /\ left \subseteq Names
    /\ boot \in {"release", "restore", "restoring", "open", "up"}

(* The columns are open views, at most MaxColumns and none twice, and the view with *)
(* the keyboard is one of them, whatever was opened, closed, toggled or restored in   *)
(* between (stage_columns.js).                                                          *)
ColumnsHold ==
    /\ TypeOK
    /\ IsInjective(stage.shown) /\ IsInjective(stage.items) /\ Len(stage.shown) <= MaxColumns
    /\ ToSet(stage.shown) \subseteq ToSet(stage.items)
    /\ IF stage.active = None THEN stage.shown = <<>> ELSE Has(stage.shown, stage.active)
    /\ boot \in {"open", "up"} => (stage.active = None) = (stage.items = <<>>)

(* And every document that has booted knows whether it is hidden, and whether it has   *)
(* the keyboard, although it boots long after it was placed and may load again: a hidden *)
(* one gives its renderers back, and only the active one types.                          *)
ViewsKnowTheirPlace ==
    /\ ColumnsHold
    /\ \A v \in ToSet(stage.items) : IsLive(doc[v]) =>
          doc[v].suspended = (v # stage.active) /\ doc[v].hidden = ~ Has(stage.shown, v)

(* The keyboard is in the shell or in the active view (in another column only while    *)
(* the active one waits for it), and in no view while an overlay claims it: no late boot,  *)
(* close or switch takes it out of a palette, or leaves it in a view told to let go.        *)
KeysStayInPlace ==
    keys # Shell => /\ ~ overlay /\ Has(stage.shown, keys)
                    /\ stage.pending # stage.active => keys = stage.active

(* Once the boot has restored, what is stored is what is open: the views in order, the *)
(* one with the keyboard, the split and its widths.  Only a view whose document changed   *)
(* its name by itself may go by another one until the next update.                          *)
StoreFollows ==
    stage.persisting =>
        \E goesBy \in [ViewIds -> Names \cup {Scratch, None}] :
            /\ \A v \in ViewIds : doc[v].kept => goesBy[v] = doc[v].name
            /\ stage.stored = DescribeAs(Now, goesBy)

(* A restore that got every workspace shows the window as it was stored: the views in  *)
(* order, the split with its widths, and the keyboard where it was, each view counted     *)
(* by the workspace it was claimed for: one that could not load it and booted on scratch    *)
(* during the restore keeps its column.                                                       *)
RestoreBringsBack ==
    [][RestoreEnds =>
        LET op == Head(queue) IN
        op.plan.open = stage.stored.open /\ ~ op.failed => Describe(ByName(Now))' = stage.stored]_vars

-----------------------------------------------------------------------------
(* Stated by comments of the code, and not kept by it: see the README. *)

(* The view that waits for the keyboard has not booted yet, unless an overlay is in the  *)
(* way: ready() hands the keyboard over, and a document says so once.                      *)
KeyboardIsHandedOver ==
    stage.pending # None /\ stage.pending = stage.active /\ ~ overlay => ~ IsLive(doc[stage.active])

(* A view stays on one workspace for its whole life, unless it is promoted. *)
ViewKeepsItsWorkspace ==
    [][\A v \in ViewIds : doc[v].phase = "loading" /\ doc'[v].phase = "live" => doc'[v].name = doc[v].asked]_vars

(* A view that boots late does not take the stage back from the one chosen meanwhile. *)
LateBootStealsNothing ==
    [][\A v \in ViewIds : doc[v].phase = "loading" /\ doc'[v].phase = "live" => stage'.active = stage.active]_vars
=============================================================================
