----------------------------- MODULE PanelModel ------------------------------
(***************************************************************************)
(* The files panel without a page (right_panel_model.js): when it hides by     *)
(* itself, which actions git's state offers, the rows of a diff in both        *)
(* layouts, and what a pull request offers.  A repository is known by which of  *)
(* its groups hold a file, the commits ahead and behind, and its upstream.      *)
(***************************************************************************)
EXTENDS Integers, Sequences, SequencesExt

CONSTANTS Workspaces, None

Repositories ==
    [files : SUBSET {"staged", "changes", "untracked"}, ahead : Nat, behind : Nat, upstream : BOOLEAN]

\* Why a panel that nobody asked to hide may hide.
PanelHides(reason, pinned, viewer) ==
    /\ reason \in {"terminal", "escape", "no-folder"} /\ ~ pinned
    /\ ~ (viewer /\ reason = "terminal")

-----------------------------------------------------------------------------
(* Changes. *)

\* Untracked files are shown with the changes.
GroupFiles(files) == [staged |-> "staged" \in files, changes |-> files \cap {"changes", "untracked"} # {}]

HeadIsPushed(r) == r.upstream /\ r.ahead = 0

\* What the one button does; "none" while it is disabled.
PrimaryAction(r, typed) ==
    LET groups == GroupFiles(r.files) IN
    CASE groups.staged -> IF typed THEN "commit" ELSE "none"
      [] ~ groups.staged /\ groups.changes -> "stage-all"
      [] ~ groups.staged /\ ~ groups.changes /\ r.ahead > 0 -> IF r.upstream THEN "push" ELSE "publish"
      [] OTHER -> IF r.behind > 0 /\ r.upstream THEN "pull" ELSE "none"

\* What its menu offers.
SecondaryActions(r, typed) ==
    (IF "staged" \in r.files /\ typed THEN {"commit-push"} ELSE {})
    \cup {"amend"}
    \cup (IF r.upstream THEN {"pull"} \cup (IF r.ahead > 0 THEN {"push"} ELSE {}) ELSE {"publish"})

\* A push without an upstream publishes the branch.
GitSteps(action, upstream) ==
    LET push == IF upstream THEN "push" ELSE "publish" IN
    IF action = "commit-push" THEN <<"commit", push>> ELSE IF action = "push" THEN <<push>> ELSE <<action>>

-----------------------------------------------------------------------------
(* Diffs: lines as git prints them, the rows drawn, and the stops of n and p. *)

NoRow == [kind |-> "none", old |-> 0, new |-> 0]
Row(kind, old, new) == [kind |-> kind, old |-> old, new |-> new]
Lines == [t : {"head", "hunk", "add", "del", "ctx", "note"}, old : Nat, new : Nat]
Rows == [kind : {"hunk", "meta", "add", "del", "ctx"}, old : Nat, new : Nat]

ParseLine(line, p) ==
    LET With(row) == [p EXCEPT !.rows = Append(@, row)] IN
    CASE line.t = "hunk" -> [rows |-> Append(p.rows, Row("hunk", 0, 0)), old |-> line.old, new |-> line.new, inside |-> TRUE]
      [] line.t # "hunk" /\ ~ p.inside -> IF line.t = "head" THEN p ELSE With(Row("meta", 0, 0))
      [] line.t = "add" /\ p.inside -> [With(Row("add", 0, p.new)) EXCEPT !.new = @ + 1]
      [] line.t = "del" /\ p.inside -> [With(Row("del", p.old, 0)) EXCEPT !.old = @ + 1]
      [] line.t = "ctx" /\ p.inside -> [With(Row("ctx", p.old, p.new)) EXCEPT !.old = @ + 1, !.new = @ + 1]
      [] line.t = "note" /\ p.inside -> With(Row("meta", 0, 0))
      [] line.t = "head" /\ p.inside -> [p EXCEPT !.inside = FALSE]

ParseDiff(lines) ==
    LET upto[i \in 0 .. Len(lines)] ==
            IF i = 0 THEN [rows |-> <<>>, old |-> 0, new |-> 0, inside |-> FALSE]
            ELSE ParseLine(lines[i], upto[i - 1])
    IN  upto[Len(lines)].rows

\* Where the run of `kind` that starts at i ends.
RunEnd(rows, i, kind) ==
    CHOOSE j \in i .. Len(rows) + 1 :
        /\ \A k \in i .. j - 1 : rows[k].kind = kind
        /\ j = Len(rows) + 1 \/ rows[j].kind # kind

Unified(rows) == [i \in 1 .. Len(rows) |-> [left |-> rows[i], right |-> rows[i]]]

\* A run of deletions beside the run of additions after it.
SideBySide(rows) ==
    LET from[i \in 1 .. Len(rows) + 1] ==
            IF i > Len(rows) THEN <<>>
            ELSE IF rows[i].kind \notin {"del", "add"} THEN <<[left |-> rows[i], right |-> rows[i]]>> \o from[i + 1]
            ELSE LET d == RunEnd(rows, i, "del")
                     a == RunEnd(rows, d, "add")
                     n == IF d - i > a - d THEN d - i ELSE a - d
                 IN  [k \in 1 .. n |-> [left  |-> IF k <= d - i THEN rows[i + k - 1] ELSE NoRow,
                                        right |-> IF k <= a - d THEN rows[d + k - 1] ELSE NoRow]] \o from[a]
    IN  from[1]

Changed(item) == item.left.kind \in {"add", "del"} \/ item.right.kind \in {"add", "del"}
\* Faulty: a stop at every changed row.
ChangeStopsEach(items) == {i \in DOMAIN items : Changed(items[i])}
ChangeStops(items) == {i \in DOMAIN items : Changed(items[i]) /\ (i = 1 \/ ~ Changed(items[i - 1]))}

\* The stop after or before `at`, around the ends.
NextStop(stops, at, delta) ==
    LET ahead == {x \in stops : IF delta > 0 THEN x > at ELSE x < at}
        rest == IF ahead = {} THEN stops ELSE ahead
    IN  IF delta > 0 THEN Min(rest) ELSE Max(rest)

-----------------------------------------------------------------------------
(* Pull requests. *)

\* Checks by the bucket gh puts them in.
CheckGroups(checks) == [
    failing |-> {c \in DOMAIN checks : checks[c] \in {"fail", "cancel"}},
    pending |-> {c \in DOMAIN checks : checks[c] = "pending"},
    passing |-> {c \in DOMAIN checks : checks[c] \notin {"fail", "cancel", "pending"}}]

MayMerge(pr) == pr.state = "OPEN" /\ ~ pr.draft
=============================================================================
