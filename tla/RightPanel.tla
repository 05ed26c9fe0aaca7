----------------------------- MODULE RightPanel ------------------------------
(***************************************************************************)
(* The files panel of a window (right_panel.js) with its three tabs and the     *)
(* views it opens over the stage.  It belongs to the window and follows the       *)
(* workspace of the column with the keyboard, so what it asks may be answered      *)
(* after it went elsewhere.  `panel` is what the page keeps, changed by handlers   *)
(* that run to their end; git, GitHub and the stage go their own way.              *)
(***************************************************************************)
EXTENDS FilesTab, ChangesTab, PullRequestTab, Viewers, Focus, FiniteSets

CONSTANTS
    Folderless,       \* workspaces with no folder
    Repos, Pulls,     \* what git and GitHub may say at the start
    Starts,           \* what a window starts with: the stored tab and pin, the workspace shown,
                      \* and, as a bound, the commands and answers each part of the panel gets
    MaxAsks           \* bound: requests in flight for one tab

Tabs == {"files", "changes", "pr"}
Boxes == [what : {"amend", "discard", "merge"}, ws : Workspaces, head : Nat, busy : BOOLEAN]

ASSUME PanelAssumption ==
    /\ None \notin Workspaces /\ Root \in Dirs /\ Diffs \subseteq Seq(Lines)
    /\ Repos \subseteq Repositories /\ Pulls \subseteq PullRequests
    /\ \A s \in Starts : s.tab \in Tabs /\ s.pinned \in BOOLEAN /\ s.shown \in Workspaces \cup {None}
ASSUME NoneIsNothing ==
    None \notin Actions \cup {"loading"} /\ None \notin Jobs /\ None \notin Boxes /\ None \notin OpenViews

VARIABLES
    panel,
    shown,            \* the workspace of the column with the keyboard, or None
    away,             \* the page is hidden
    box,              \* the confirmation on screen: [what, ws, busy], or None
    repo, hub,        \* git's and GitHub's state, per workspace
    typed,            \* the message last typed for a workspace and not committed from it
    left              \* commands left

vars == <<panel, shown, away, box, repo, hub, typed, left>>

Panels ==
    [open : BOOLEAN, pinned : BOOLEAN, tab : Tabs, workspace : Workspaces \cup {None},
     record : {"unknown", "folder", "no folder"}, asked : SUBSET Workspaces, timer : SUBSET Tabs,
     keys : {"terminal", "panel", "viewer", "box", "page"}, claimed : BOOLEAN,
     claims : [panel : Nat, viewer : Nat], files : FilesTabs, changes : ChangesTabs, pr : PrTabs,
     viewer : OpenViews \cup {None}, split : BOOLEAN]

Spend(part) == left[part] > 0 /\ left' = [left EXCEPT ![part] = @ - 1]
Room ==
    /\ Len(panel.files.loads) < MaxAsks /\ Len(panel.files.searches) < MaxAsks
    /\ Len(panel.changes.asks) < MaxAsks /\ Len(panel.pr.asks) < MaxAsks

-----------------------------------------------------------------------------
(* Polling: open polls the tab on screen, hidden polls nothing. *)

Polled(p) == IF away \/ p.workspace = None \/ ~ p.open THEN {} ELSE {p.tab}

RefreshTab(p, t, poll) ==
    CASE t = "files" -> [p EXCEPT !.files = FilesRefresh(@, p.workspace, poll)]
      [] t = "changes" -> [p EXCEPT !.changes = ChangesRefresh(@, p.workspace, repo, poll)]
      [] t = "pr" -> [p EXCEPT !.pr = PrRefresh(@, p.workspace, hub, poll)]

RefreshShown(p) == IF Polled(p) = {} THEN p ELSE RefreshTab(p, p.tab, FALSE)
Schedule(p) == [p EXCEPT !.timer = Polled(p)]

-----------------------------------------------------------------------------
(* The keyboard. *)

ReleasePanelFocus(p) == IF p.claimed THEN [p EXCEPT !.claimed = FALSE, !.claims.panel = Released(@)] ELSE p
FocusIn(p) ==
    IF p.claimed THEN [p EXCEPT !.keys = "panel"]
    ELSE [p EXCEPT !.keys = "panel", !.claimed = TRUE, !.claims.panel = Claimed(@)]
FocusOut(p, to) == [ReleasePanelFocus(p) EXCEPT !.keys = to]

\* A terminal stands down while anything claims the keyboard.
FocusBack(p) ==
    IF shown = None \/ box # None \/ p.claims.panel + p.claims.viewer > 0 THEN p ELSE FocusOut(p, "terminal")

\* A tab takes the keyboard when it has something to take it with.
TabFocus(p) ==
    IF \/ p.tab = "files"
       \/ p.tab = "changes" /\ p.changes.data # None
       \/ p.tab = "pr" /\ p.pr.data # None
    THEN FocusIn(p) ELSE p

-----------------------------------------------------------------------------
(* Opening, hiding and following. *)

CloseOverlay(p, handBack) ==
    IF p.viewer = None THEN p
    ELSE LET gone == [p EXCEPT !.viewer = None, !.split = p.viewer.split, !.claims.viewer = Released(@),
                               !.keys = IF @ = "viewer" THEN "page" ELSE @]
         IN  IF ~ handBack THEN gone ELSE IF gone.open THEN TabFocus(gone) ELSE FocusBack(gone)

\* The column with the keyboard shows another workspace: start over on it.
Follow(p) ==
    IF shown = p.workspace THEN p
    ELSE LET over == CloseOverlay([p EXCEPT !.workspace = shown, !.record = "unknown"], FALSE)
             clean == [over EXCEPT !.files = FilesReset(@), !.changes = ChangesReset(@), !.pr = PrReset(@),
                                   !.asked = IF shown = None THEN @ ELSE @ \cup {shown}]
         IN  Schedule(RefreshShown(clean))

SetOpen(p) ==
    LET open == [p EXCEPT !.open = TRUE] IN
    Schedule(IF shown # p.workspace THEN Follow(open) ELSE RefreshShown(open))

\* Faulty: the claim stays with the hidden panel.
SetHiddenClaiming(p, handBack) ==
    LET shut == [p EXCEPT !.open = FALSE]
        back == IF p.keys = "panel" /\ handBack THEN FocusBack(shut) ELSE shut
    IN  Schedule([back EXCEPT !.keys = IF @ = "panel" THEN "page" ELSE @])

\* The hidden panel is inert.
SetHidden(p, handBack) ==
    LET free == ReleasePanelFocus([p EXCEPT !.open = FALSE])
        back == IF p.keys = "panel" /\ handBack THEN FocusBack(free) ELSE free
    IN  Schedule([back EXCEPT !.keys = IF @ = "panel" THEN "page" ELSE @])

AutoHide(p, reason) ==
    IF p.open /\ PanelHides(reason, p.pinned, p.viewer # None) THEN SetHidden(p, reason # "terminal") ELSE p

Select(p, t, focus) ==
    LET on == [p EXCEPT !.tab = t]
        up == Schedule(IF on.open THEN RefreshTab(on, t, FALSE) ELSE SetOpen(on))
    IN  IF focus THEN FocusIn(TabFocus(up)) ELSE up

OpenViewer(p, kind, path, group) ==
    LET stays == p.viewer # None /\ p.viewer.kind = kind
        under == IF stays THEN p ELSE CloseOverlay(p, FALSE)
        over == IF stays THEN under
                ELSE [under EXCEPT !.viewer = FreshView(kind, under.split), !.claims.viewer = Claimed(@)]
    IN  FocusOut([over EXCEPT !.viewer = ViewOpens(@, path, group)], "viewer")

-----------------------------------------------------------------------------
(* Commands and events of the frame. *)

Frame == UNCHANGED <<shown, away, box, repo, hub, typed>>

\* The tab buttons, the palette rows; the key and the footer's toggle.
SelectTab(t, focus) == Spend("frame") /\ Room /\ panel' = Select(panel, t, focus) /\ Frame
Toggle ==
    /\ Spend("frame") /\ Room
    /\ panel' = IF panel.open THEN SetHidden(panel, TRUE) ELSE Select(panel, panel.tab, TRUE)
    /\ Frame
Pin == Spend("frame") /\ panel' = [panel EXCEPT !.pinned = ~ @] /\ Frame

ColumnChanges(w) ==
    /\ Spend("frame") /\ w # shown
    /\ shown' = w
    /\ UNCHANGED <<panel, away, box, repo, hub, typed>>
Follows == Room /\ panel' = Follow(panel) /\ panel' # panel /\ Frame /\ UNCHANGED left

\* The record of a workspace asked for earlier.
DetailsAnswer(w) ==
    /\ w \in panel.asked /\ Spend("records")
    /\ LET heard == [panel EXCEPT !.asked = @ \ {w}]
           known == [heard EXCEPT !.record = IF w \in Folderless THEN "no folder" ELSE "folder"]
       IN  panel' = IF w # panel.workspace THEN heard
                    ELSE IF w \in Folderless THEN AutoHide(known, "no-folder") ELSE known
    /\ Frame

\* A click or the keyboard went into a terminal.
TerminalTouched ==
    /\ Spend("frame") /\ shown # None
    /\ panel' = AutoHide(FocusOut(panel, "terminal"), "terminal") /\ Frame
ClickPanel == Spend("frame") /\ panel.open /\ panel' = FocusIn(panel) /\ Frame
Escape ==
    /\ Spend("frame") /\ panel.keys = "panel" /\ box = None
    /\ panel' = IF PanelHides("escape", panel.pinned, panel.viewer # None) THEN AutoHide(panel, "escape")
                ELSE FocusBack(ReleasePanelFocus(panel))
    /\ Frame

PageHides == Spend("frame") /\ ~ away /\ away' = TRUE /\ panel' = [panel EXCEPT !.timer = {}]
             /\ UNCHANGED <<shown, box, repo, hub, typed>>
PageShows ==
    /\ away /\ Room /\ away' = FALSE
    /\ LET seen == panel.open /\ panel.workspace # None IN
       panel' = IF seen THEN [RefreshTab(panel, panel.tab, FALSE) EXCEPT !.timer = {panel.tab}] ELSE panel
    /\ UNCHANGED <<shown, box, repo, hub, typed, left>>
WindowFocused == Spend("frame") /\ Room /\ panel' = RefreshShown(panel) /\ Frame

\* A tick while the last one still waits is skipped.
Ticking(t) ==
    CASE t = "files" -> FilesPolling(panel.files)
      [] t = "changes" -> ChangesPolling(panel.changes)
      [] t = "pr" -> PrPolling(panel.pr)
Tick(t) ==
    /\ Spend("polls") /\ t \in panel.timer /\ ~ Ticking(t) /\ Room
    /\ panel' = RefreshTab(panel, t, TRUE) /\ Frame
-----------------------------------------------------------------------------
(* The confirmation beside a button of the panel (confirm_popover.js). *)

Outside == UNCHANGED <<shown, away, repo, hub>>

Ask(what, head) ==
    /\ box # None => ~ box.busy
    /\ box' = [what |-> what, ws |-> panel.workspace, head |-> head, busy |-> FALSE]
    /\ panel' = FocusOut(panel, "box")
    /\ UNCHANGED typed

\* The keyboard goes back to the button that asked, while it is there.
Unasked(p) == IF p.open /\ p.keys = "box" THEN FocusIn(p) ELSE p

BoxCancels == box # None /\ ~ box.busy /\ box' = None /\ panel' = Unasked(panel) /\ Outside /\ UNCHANGED <<typed, left>>

\* An amend runs in the workspace on screen, the others in the one asked about.
BoxRuns ==
    /\ box # None /\ ~ box.busy
    /\ LET starts == /\ box.what = "amend" /\ panel.workspace # None
                     /\ panel.changes.running[panel.workspace] = None
       IN  /\ panel' = CASE box.what = "discard" ->
                              [panel EXCEPT !.changes = WorkStarts(@, box.ws, "discard", TRUE)]
                         [] box.what = "amend" ->
                              [panel EXCEPT !.changes = GitStarts(@, panel.workspace, "amend", TRUE)]
                         [] box.what = "merge" -> [panel EXCEPT !.pr = MergeStarts(@, box.ws, box.head)]
           /\ box' = IF box.what # "amend" THEN [box EXCEPT !.busy = TRUE]
                     ELSE IF starts THEN [box EXCEPT !.busy = TRUE, !.ws = panel.workspace] ELSE None
    /\ Outside /\ UNCHANGED <<typed, left>>

\* Its action is answered: it goes, or offers to try again.
Waits(what, ws) == box # None /\ box.busy /\ box.what = what /\ box.ws = ws
BoxHears(what, ws, ok) ==
    box' = IF ~ Waits(what, ws) THEN box ELSE IF ok THEN None ELSE [box EXCEPT !.busy = FALSE]
BoxLeaves(what, ws, ok, p) == IF Waits(what, ws) /\ ok THEN Unasked(p) ELSE p

-----------------------------------------------------------------------------
(* The Files tab. *)

In(t) == panel.open /\ panel.tab = t /\ panel.workspace # None
FilesDo(f) == panel' = [panel EXCEPT !.files = f]

OpenFolder(d) ==
    /\ In("files") /\ Room /\ d # Root /\ \E w \in Workspaces : <<Root, w>> \in panel.files.rows
    /\ Spend("files") /\ FilesDo(ToggleDir(panel.files, panel.workspace, d)) /\ Frame
TypeFilter(q) ==
    In("files") /\ Spend("files") /\ FilesDo(ScheduleSearch(panel.files, q)) /\ Frame
SearchDue ==
    panel.files.due /\ Room /\ FilesDo(RunSearch(panel.files, panel.workspace)) /\ Frame /\ UNCHANGED left
ListingAnswer(i, ok) ==
    /\ panel.files.loads[i].live => Room
    /\ \E d \in panel.files.loads[i].want : FilesDo(ListingAnswers(panel.files, i, d, ok))
    /\ Frame /\ UNCHANGED left
SearchAnswer(i, ok) == FilesDo(SearchAnswers(panel.files, i, ok)) /\ Frame /\ UNCHANGED left

-----------------------------------------------------------------------------
(* The Changes tab. *)

ChangesDo(c) == panel' = [panel EXCEPT !.changes = c]

TypeMessage(m) ==
    /\ In("changes") /\ panel.changes.data # None /\ Spend("changes")
    /\ ChangesDo([panel.changes EXCEPT !.message = m])
    /\ typed' = [typed EXCEPT ![panel.workspace] = m]
    /\ UNCHANGED <<shown, away, box, repo, hub>>

Git(action) ==
    /\ In("changes") /\ action \in Offered(panel.changes) /\ panel.changes.running[panel.workspace] = None
    /\ Spend("changes")
    /\ IF action = "amend" /\ HeadIsPushed(panel.changes.data.repo)
       THEN Ask("amend", 0) /\ Outside
       ELSE ChangesDo(GitStarts(panel.changes, panel.workspace, action, FALSE)) /\ Frame

GitStep(w, how) ==
    /\ panel.changes.jobs[w] # None /\ Room
    /\ LET c == panel.changes
           step == Head(c.jobs[w].steps)
           last == how # "ok" \/ Len(c.jobs[w].steps) = 1
       IN  /\ how = "ok" => CanDo(step, repo[w])
           /\ repo' = IF how = "ok" THEN [repo EXCEPT ![w] = Does(step, @)] ELSE repo
           /\ LET p == [panel EXCEPT !.changes = GitStepEnds(c, w, panel.workspace, repo', how)] IN
              panel' = IF last THEN BoxLeaves("amend", w, TRUE, p) ELSE p
           /\ typed' = IF /\ how = "ok" /\ step \in {"commit", "amend"} /\ w = panel.workspace
                          /\ c.message = c.jobs[w].text /\ c.message # Blank
                       THEN [typed EXCEPT ![w] = Blank] ELSE typed
           /\ IF last THEN BoxHears("amend", w, TRUE) ELSE UNCHANGED box
    /\ UNCHANGED <<shown, away, hub, left>>

Work(action) ==
    /\ In("changes") /\ panel.changes.data # None /\ CanDo(action, panel.changes.data.repo)
    /\ Len(panel.changes.works) < MaxAsks /\ Spend("changes")
    /\ ChangesDo(WorkStarts(panel.changes, panel.workspace, action, FALSE)) /\ Frame
AskDiscard ==
    /\ In("changes") /\ panel.changes.data # None /\ CanDo("discard", panel.changes.data.repo)
    /\ Spend("changes") /\ Ask("discard", 0) /\ Outside
WorkAnswer(i, ok) ==
    /\ Room
    /\ LET w == panel.changes.works[i] IN
       /\ ok => CanDo(w.action, repo[w.ws])
       /\ repo' = IF ok THEN [repo EXCEPT ![w.ws] = Does(w.action, @)] ELSE repo
       /\ LET p == [panel EXCEPT !.changes = WorkEnds(@, i, panel.workspace, repo', ok)] IN
          IF w.boxed THEN BoxHears("discard", w.ws, ok) /\ panel' = BoxLeaves("discard", w.ws, ok, p)
          ELSE UNCHANGED box /\ panel' = p
    /\ UNCHANGED <<shown, away, hub, typed, left>>

ChangesHeard(i, how) == ChangesDo(ChangesAnswer(panel.changes, i, repo, how)) /\ Frame /\ UNCHANGED left

\* An editor or an agent writes a file.
FileWritten(w) ==
    /\ Spend("changes") /\ repo' = [repo EXCEPT ![w].files = @ \cup {"changes"}]
    /\ UNCHANGED <<panel, shown, away, box, hub, typed>>

-----------------------------------------------------------------------------
(* The Pull request tab. *)

PrDo(p) == panel' = [panel EXCEPT !.pr = p]
PrOnScreen == In("pr") /\ panel.pr.data # None /\ panel.pr.data.pr # None

OpenCheck(k) ==
    /\ PrOnScreen /\ k \in CheckGroups(panel.pr.data.pr.checks).failing
    /\ Spend("pr") /\ PrDo(ToggleCheck(panel.pr, k)) /\ Frame
LogAnswer(i, ok) == PrDo(LogAnswers(panel.pr, i, ok)) /\ Frame /\ UNCHANGED left
PrHeard(i, ok) == PrDo(PrAnswer(panel.pr, i, ok)) /\ Frame /\ UNCHANGED left
AskMerge ==
    /\ PrOnScreen /\ MayMerge(panel.pr.data.pr)
    /\ Spend("pr") /\ Ask("merge", panel.pr.data.pr.head) /\ Outside
MergeAnswer(i) ==
    /\ Room
    /\ LET m == panel.pr.merges[i]
           ok == MergeTakes(hub[m.ws], m.head)
           fine == ok \/ m.ws # panel.workspace
       IN  /\ hub' = IF ok THEN [hub EXCEPT ![m.ws].state = "MERGED"] ELSE hub
           /\ panel' = BoxLeaves("merge", m.ws, fine, [panel EXCEPT !.pr = MergeEnds(@, i, panel.workspace, hub')])
           /\ BoxHears("merge", m.ws, fine)
    /\ UNCHANGED <<shown, away, repo, typed, left>>

\* Someone pushes to the branch.
BranchMoves(w) ==
    /\ Spend("pr") /\ hub[w] # None /\ hub' = [hub EXCEPT ![w].head = @ + 1]
    /\ UNCHANGED <<panel, shown, away, box, repo, typed>>
-----------------------------------------------------------------------------
(* The views over the stage. *)

Views(v) == panel' = [panel EXCEPT !.viewer = v]
View == panel.viewer
Showing(kind) == View # None /\ View.kind = kind
RoomToRead == View # None => Len(View.reads) < MaxAsks

\* From the tree, a hit, a row of the changes, or the other view's button.
OpenFile(path) ==
    /\ In("files") \/ (Showing("diff") /\ View.path = path)
    /\ RoomToRead /\ Spend("viewer")
    /\ panel' = OpenViewer(panel, "file", path, NoGroup) /\ Frame
OpenDiff(path, group) ==
    /\ \/ In("changes") /\ panel.changes.data # None
       \/ Showing("file") /\ View.path = path /\ View.changes = group
    /\ RoomToRead /\ Spend("viewer")
    /\ panel' = OpenViewer(panel, "diff", path, group) /\ Frame

FileAnswer(i, body) == Showing("file") /\ Views(FileAnswers(View, i, body)) /\ Frame /\ UNCHANGED left
MarkAnswer(path, group) ==
    Showing("file") /\ path \in View.asking /\ Views(Marked(View, path, group)) /\ Frame /\ UNCHANGED left
DiffAnswer(i, lines, how) ==
    Showing("diff") /\ Views(DiffAnswers(View, i, lines, how)) /\ Frame /\ UNCHANGED left

ViewerKeys == panel.keys = "viewer" /\ Spend("viewer") /\ Frame
StepDiff(delta) == Showing("diff") /\ ViewerKeys /\ Views(Go(View, delta))
TurnLayout == Showing("diff") /\ ViewerKeys /\ Views(ToggleLayout(View))
Find(as) == Showing("file") /\ ViewerKeys /\ Views(OpenFind(View, as))
FindText(n) == Showing("file") /\ View.find = "find" /\ ViewerKeys /\ Views(RunFind(View, n))
FindStep(delta) == Showing("file") /\ View.find = "find" /\ ViewerKeys /\ Views(StepMatch(View, delta))
FindEnds == Showing("file") /\ View.find # "hidden" /\ ViewerKeys /\ Views(CloseFind(View))
ViewerCloses == View # None /\ Spend("viewer") /\ panel' = CloseOverlay(panel, TRUE) /\ Frame

-----------------------------------------------------------------------------

Fresh == [open |-> FALSE, pinned |-> FALSE, tab |-> "files", workspace |-> None, record |-> "unknown", asked |-> {},
          timer |-> {}, keys |-> "terminal", claimed |-> FALSE, claims |-> [panel |-> 0, viewer |-> 0],
          files |-> NoFiles, changes |-> NoChanges, pr |-> NoPr, viewer |-> None, split |-> FALSE]

\* A pinned panel comes back open, without the keyboard.
Init ==
    /\ away = FALSE /\ box = None
    /\ repo \in [Workspaces -> Repos] /\ hub \in [Workspaces -> Pulls]
    /\ typed = [w \in Workspaces |-> Blank]
    /\ \E s \in Starts :
          /\ shown = s.shown /\ left = s.left
          /\ LET p == [Fresh EXCEPT !.tab = s.tab, !.pinned = s.pinned] IN
             panel = IF s.pinned THEN SetOpen(p) ELSE p

FrameNext ==
    \/ \E t \in Tabs, focus \in BOOLEAN : SelectTab(t, focus)
    \/ Toggle \/ Pin \/ Follows \/ TerminalTouched \/ ClickPanel \/ Escape
    \/ \E w \in Workspaces \cup {None} : ColumnChanges(w)
    \/ \E w \in Workspaces : DetailsAnswer(w)
    \/ PageHides \/ PageShows \/ WindowFocused \/ BoxCancels \/ BoxRuns
    \/ \E t \in Tabs : Tick(t)

FilesNext ==
    \/ \E d \in Dirs : OpenFolder(d)
    \/ \E q \in Queries \cup {NoQuery} : TypeFilter(q)
    \/ SearchDue
    \/ \E i \in DOMAIN panel.files.loads, ok \in BOOLEAN : ListingAnswer(i, ok)
    \/ \E i \in DOMAIN panel.files.searches, ok \in BOOLEAN : SearchAnswer(i, ok)

ChangesNext ==
    \/ \E m \in Messages : TypeMessage(m)
    \/ \E action \in {"commit", "commit-push", "amend", "push", "publish", "pull", "stage-all"} : Git(action)
    \/ \E w \in Workspaces, how \in {"ok", "refused", "error"} : GitStep(w, how)
    \/ \E action \in {"stage", "unstage"} : Work(action)
    \/ AskDiscard
    \/ \E i \in DOMAIN panel.changes.works, ok \in BOOLEAN : WorkAnswer(i, ok)
    \/ \E i \in DOMAIN panel.changes.asks, how \in {"asked", "now", "fails", "no repository"} : ChangesHeard(i, how)
    \/ \E w \in Workspaces : FileWritten(w)

PrNext ==
    \/ \E k \in Checks : OpenCheck(k)
    \/ \E i \in DOMAIN panel.pr.reads, ok \in BOOLEAN : LogAnswer(i, ok)
    \/ \E i \in DOMAIN panel.pr.asks, ok \in BOOLEAN : PrHeard(i, ok)
    \/ AskMerge
    \/ \E i \in DOMAIN panel.pr.merges : MergeAnswer(i)
    \/ \E w \in Workspaces : BranchMoves(w)

ViewerNext ==
    \/ \E path \in Paths : OpenFile(path)
    \/ \E path \in Paths, group \in Groups : OpenDiff(path, group) \/ MarkAnswer(path, group)
    \/ View # None /\ \E i \in DOMAIN View.reads :
          \/ \E body \in {"text", "message"} : FileAnswer(i, body)
          \/ \E lines \in Diffs, how \in {"ok", "large", "fails"} : DiffAnswer(i, lines, how)
    \/ \E delta \in {-1, 1} : StepDiff(delta) \/ FindStep(delta)
    \/ TurnLayout \/ FindEnds \/ ViewerCloses
    \/ \E as \in {"find", "line"} : Find(as)
    \/ \E n \in 0 .. 2 : FindText(n)

Next == FrameNext \/ FilesNext \/ ChangesNext \/ PrNext \/ ViewerNext
Spec == Init /\ [][Next]_vars

-----------------------------------------------------------------------------
(* Properties. *)

\* Every variable has its type, a stop is one of the stops, a match one of the matches.
TypeOK ==
    /\ panel \in Panels /\ box \in Boxes \cup {None} /\ shown \in Workspaces \cup {None}
    /\ repo \in [Workspaces -> Repositories] /\ hub \in [Workspaces -> PullRequests]
    /\ typed \in [Workspaces -> Messages \cup {Blank}]
    /\ View # None =>
          /\ View.at \in (IF View.kind = "diff" THEN View.stops ELSE 1 .. View.matches) \cup {0}
          /\ View.stops \subseteq DOMAIN View.items

\* The panel always shows the workspace it is on (docs/CONTRACTS.md: "it always shows the shown
\* workspace"): no answer asked for another one is drawn in a tab, in whatever order they come.
TabsShowTheirWorkspace ==
    LET w == panel.workspace IN
    /\ \A d \in Dirs : panel.files.listed[d] \in {Unlisted, Nothing, w}
    /\ \A row \in panel.files.rows : row[2] = w
    /\ panel.changes.data # None => panel.changes.data.ws = w
    /\ panel.changes.draftFor \in {None, w}
    /\ panel.pr.data # None => panel.pr.data.ws = w

\* A message typed for a workspace and not committed is on screen there, or comes back with it:
\* neither a look at another workspace nor a commit that ends meanwhile takes it.
TypedMessageIsKept ==
    \A w \in Workspaces :
        typed[w] = IF panel.changes.draftFor = w THEN panel.changes.message ELSE panel.changes.drafts[w]

\* Whatever claims the keyboard gives it back: a hidden panel and a closed view claim nothing, a
\* terminal that has it is not told to stand down, and no claim is held twice.
KeyboardComesBack ==
    /\ panel.claims.viewer = IF View = None THEN 0 ELSE 1
    /\ panel.claims.panel = IF panel.claimed THEN 1 ELSE 0
    /\ ~ panel.open => panel.keys # "panel"
    /\ panel.claimed => panel.keys = "panel"
    /\ panel.keys = "viewer" => View # None

\* Every spinner, "Asking GitHub", busy button and box that waits has a request behind it, also
\* after the panel left the workspace that asked and came back.
BusyHasWork ==
    /\ TypeOK
    /\ \A d \in panel.files.spinning :
          \E i \in DOMAIN panel.files.loads : panel.files.loads[i].kind = "toggle" /\ panel.files.loads[i].want = {d}
    /\ panel.pr.loading => \E i \in DOMAIN panel.pr.asks : panel.pr.asks[i].live
    /\ \A w \in Workspaces : panel.changes.running[w] # None <=> panel.changes.jobs[w] # None
    /\ \A k \in Checks : panel.pr.logs[k] = "loading" => \E i \in DOMAIN panel.pr.reads : panel.pr.reads[i] = k
    /\ (box # None /\ box.busy) =>
          \/ box.what = "amend" /\ panel.changes.jobs[box.ws] # None
          \/ box.what = "discard" /\ \E i \in DOMAIN panel.changes.works : panel.changes.works[i].boxed
          \/ box.what = "merge" /\ panel.pr.merges # <<>>

\* Both layouts of a diff show the same one: each side of the split has the rows of its side, in
\* order and with their numbers, and n and p stop at as many changes.
LayoutsAgree ==
    (Showing("diff") /\ View.rows # <<>>) =>
        LET rows == View.rows
            split == SideBySide(rows)
            side(s) == SelectSeq([i \in DOMAIN split |-> split[i][s]], LAMBDA r : r # NoRow)
        IN  /\ side("left") = SelectSeq(rows, LAMBDA r : r.kind # "add")
            /\ side("right") = SelectSeq(rows, LAMBDA r : r.kind # "del")
            /\ Cardinality(ChangeStops(split)) = Cardinality(ChangeStops(Unified(rows)))
            /\ View.split => View.items = split

\* docs/CONTRACTS.md: "amend (asks first when the commit is already pushed)".  History that was
\* pushed is rewritten only where the panel asked.
AmendAsksFirst ==
    [][\A w \in Workspaces : repo'[w].behind > repo[w].behind => panel.changes.jobs[w].asked]_vars
=============================================================================
