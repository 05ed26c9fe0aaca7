------------------------------- MODULE Viewers -------------------------------
(***************************************************************************)
(* The file view (file_view.js) and the diff (diff_view.js), which the panel    *)
(* opens over the stage one at a time.  A view that is already open takes the    *)
(* next file itself, so answers of two of its requests may come in either order; *)
(* what answers into a view that was closed changes nothing and is left out.     *)
(***************************************************************************)
EXTENDS PanelModel

CONSTANTS Paths, Groups, Diffs    \* files, the groups git puts them in, and what a diff may hold

NoGroup == "no group"

\* find: the bar; matches and at: the matches in a file and the one shown, or the stop of a diff.
OpenViews ==
    [kind : {"file", "diff"}, path : Paths \cup {None}, group : Groups \cup {NoGroup},
     body : {"loading", "text", "message", "diff"},
     reads : Seq([path : Paths, group : Groups \cup {NoGroup}]), asking : SUBSET Paths,
     changes : Groups \cup {NoGroup}, find : {"hidden", "find", "line"}, matches : Nat, at : Nat,
     split : BOOLEAN, rows : Seq(Rows), items : Seq([left : Rows \cup {NoRow}, right : Rows \cup {NoRow}]),
     stops : SUBSET Nat]
FreshView(kind, split) ==
    [kind |-> kind, path |-> None, group |-> NoGroup, body |-> "loading", reads |-> <<>>,
     asking |-> {}, changes |-> NoGroup, find |-> "hidden", matches |-> 0, at |-> 0,
     split |-> split, rows |-> <<>>, items |-> <<>>, stops |-> {}]

\* A file starts over; a diff keeps its stops until the answer.
ViewOpens(v, path, group) ==
    LET asked == [v EXCEPT !.path = path, !.group = group, !.body = "loading", !.rows = <<>>,
                           !.reads = Append(@, [path |-> path, group |-> group])]
    IN  IF v.kind = "diff" THEN asked
        ELSE [asked EXCEPT !.asking = @ \cup {path}, !.changes = NoGroup, !.find = "hidden", !.matches = 0, !.at = 0]

-----------------------------------------------------------------------------
(* The diff. *)

Go(v, delta) == IF v.stops = {} THEN v ELSE [v EXCEPT !.at = NextStop(v.stops, v.at, delta)]

RenderDiff(v) ==
    LET items == IF v.split THEN SideBySide(v.rows) ELSE Unified(v.rows) IN
    [v EXCEPT !.items = items, !.stops = ChangeStops(items), !.at = 0, !.body = "diff"]

\* Too large, or no differences: a line says so.
DiffShows(v, lines) ==
    LET read == [v EXCEPT !.rows = ParseDiff(lines)] IN
    IF read.rows = <<>> THEN [read EXCEPT !.body = "message"] ELSE Go(RenderDiff(read), 1)

\* A failure asks for the path only.
DiffAnswers(v, i, lines, how) ==
    LET r == v.reads[i]
        rest == [v EXCEPT !.reads = RemoveAt(@, i)]
    IN  CASE how = "fails" -> IF v.path = r.path THEN [rest EXCEPT !.body = "message"] ELSE rest
          [] how = "large" -> IF v.path = r.path /\ v.group = r.group THEN [rest EXCEPT !.body = "message"] ELSE rest
          [] how = "ok" -> IF v.path = r.path /\ v.group = r.group THEN DiffShows(rest, lines) ELSE rest

ToggleLayout(v) ==
    LET turned == [v EXCEPT !.split = ~ @] IN
    IF v.rows = <<>> THEN turned ELSE Go(RenderDiff(turned), 1)

-----------------------------------------------------------------------------
(* The file. *)

FileAnswers(v, i, body) ==
    LET r == v.reads[i]
        rest == [v EXCEPT !.reads = RemoveAt(@, i)]
    IN  IF v.path = r.path THEN [rest EXCEPT !.body = body] ELSE rest

ClearFind(v) == [v EXCEPT !.matches = 0, !.at = 0]

\* Ctrl+F and Ctrl+G, once there is text.
OpenFind(v, as) ==
    IF v.body # "text" THEN v
    ELSE IF as = "line" THEN [ClearFind(v) EXCEPT !.find = as] ELSE [v EXCEPT !.find = as]
CloseFind(v) == [ClearFind(v) EXCEPT !.find = "hidden"]

RunFind(v, n) == [v EXCEPT !.matches = n, !.at = IF n = 0 THEN 0 ELSE 1]
StepMatch(v, delta) ==
    IF v.matches = 0 THEN v ELSE [v EXCEPT !.at = 1 + ((@ - 1 + delta + v.matches) % v.matches)]

\* Whether git reports the file changed (right_panel.js modifiedGroup).
Marked(v, path, group) ==
    [v EXCEPT !.asking = @ \ {path}, !.changes = IF v.path = path THEN group ELSE @]
=============================================================================
