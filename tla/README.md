# QuickTerm: a TLA+ verification project

QuickTerm is a terminal manager: a Python process (FastAPI on one asyncio event
loop, plus worker threads) owns the terminals, and one or more viewer windows
(a JavaScript page each) show them over WebSockets and REST calls.  This
directory models the parts of it in which threads, callbacks, messages and
crashes meet, checks them with TLC on small instances, and proves the results
that matter most with TLAPS for every value of the constants.

Paths below are relative to the repository; `api/x.py` is
`quickterm/api/x.py`, `x.js` is `quickterm/frontend/js/x.js`, and the other
Python files are under `quickterm/`.

| module | what it is | checked by | proved in |
| --- | --- | --- | --- |
| `SessionLifecycle` | the session registry, kills, viewers' attachment, the reaper | `SessionReap` (through `MCSessionLifecycle`) | `BackendProofs` |
| `OutputStream` | abstract: what a viewer of a terminal is promised | refined by `AttachStream` | `AttachStreamProofs` |
| `AttachStream` | ring, fan-out, replay handshake, pump, the page's protocol, xterm's parser | `AttachStream` | `AttachStreamProofs` |
| `WindowRegistry` | open windows, workspace ownership, the primary role, the TTL | `WindowRegistry` | `BackendProofs` |
| `WorkspaceViews` | the views' side of ownership: boot, autosave, rename, recovery, close | `WorkspaceViews` (through `MCWorkspaceViews`), `WorkspaceSaved` | `WorkspaceViewsProofs` |
| `LaunchQueue` | launches from outside and the long polls that take them | `LaunchQueue` | `BackendProofs` |
| `Layout` | the split tree of one document, the page that lags behind it, zoom, focus, drops | `Layout` (through `MCLayout`) | `LayoutProofs` |
| `Desk` | the panes of one view and their terminals: spawn, attach, retain, kill, recover, adopt | `Desk` (through `MCDesk`) | `DeskProofs` |
| `Focus` | the claims on the keyboard, used by the surfaces below | with them | |
| `Lists` | the n-th of a set of positions, and what a filter leaves of a list, without recursion | with `Surfaces` and `Stage` | |
| `Palette`, `Dialogs`, `Settings`, `Usage`, `Updates` | the surfaces over the terminals | as `Surfaces` | |
| `Surfaces` | composes these five | `Surfaces` (through `MCSurfaces`) | `SurfacesProofs` |
| `Columns` | side-by-side columns and the stored list of open views, as functions | with `Stage` | |
| `Stage` | the window around the views: boot, restore, open, close, columns, late documents | `Stage` (through `MCStage`) | `StageProofs` |
| `PanelModel` | the files panel's rules, as functions: git actions, diff rows, merging | with `RightPanel` | `RightPanelProofs` |
| `FilesTab`, `ChangesTab`, `PullRequestTab`, `Viewers` | the panel's three tabs and its file and diff views | as `RightPanel` | `RightPanelProofs` |
| `RightPanel` | composes these over a column that moves between workspaces | `RightPanel` (through `MCRightPanel`) | `RightPanelProofs` |
| `Routing` | a sidebar's gestures run through the views, the terminals and the files | `RoutingKills` (a finding) | |

`PROJECT.json` is the index: the components, the runs, for each property a
mutant that breaks it, the source lines every definition stands for, the
hazards, the findings and the theorems.

## Inventory

**Session registry** (`session_manager.py`, `api/sessions.py`, `api/common.py`).
State: `_sessions`, `_spawning`, `_max_sessions`, and in each session the flags
`alive`, `touched`, `retained`, `ever_attached`, `attention`, `stopping`,
`reaping`, and what was printed while nobody watched.  Operations: spawn (on
the loop, or built on a worker thread), write, retain, attach and detach, kill
(blocking, on a worker thread, which hands the change back to the loop), the
PTY's output and exit callbacks.  Hard: one session's exit is reported by two
threads; a request is cancelled while its process is being started; the limit
is checked before the work is done.  Correct when no process runs unlisted, the
limit holds, every viewer hears of an exit once.

**Idle reaper** (`reaper.py`, `app.py` 1578-1608).  State: the pass's snapshot of
the saved and busy ids and the claim on one session.  It runs on its own
thread, asks the loop for a claim, kills, and posts the release.  Hard: its
snapshots are old when used; the loop may be late or gone.  Correct when it
kills nothing a user watches, typed into or has not read, and leaves no claim
behind.

**Terminal output stream** (`fanout.py`, `scrollback.py`, `api/attach.py`,
`pane.js`, `pane_protocol.js`).  State: the scrollback ring, one bounded queue
per viewer, the handshake's buffer, the pump's carry, the page's protocol
phase, its queue and what xterm has not parsed.  Operations: subscribe and
snapshot, replay frame by frame against acks, hand over to the live pump,
overflow, resync, exit, reconnect.  Hard: every queue is bounded and what
happens at each bound is a different path; the exit races all of them.
Correct when the screen is one uninterrupted piece of the output and the last
lines are on it before "exited" is.

**Window registry** (`windows.py`, `api/windows.py`).  State: an entry per open
window with its workspace, its role, its shell and when it last beat.  Every
call takes a lock and drops the silent entries first.  Hard: expiry, reloads
with the same id, embedded views, and the role that has to be somewhere.
Correct when a workspace has one owner, one shell is primary, and only living
windows block.

**The page's side of ownership** (`window_registry.js`, `lifecycle.js`,
`workspace_actions.js`, `workspace_views.js`, `autosave.js`, `workspace.js`,
`scratch.js`).  State: the window id, the current and the claimed workspace,
the layout, the debounce timer, the save in flight and the chain per name.
Operations: boot, beat, recover after a 404, rename, delete, save, leave.
(`workspace_switch.js` is reached by nothing in the running page.)  Hard: everything here awaits, and the handlers overlap; a laptop
sleeps longer than the TTL.  Correct when a workspace file is written only by
its owner and no edit is lost.

**Workspace store** (`workspace.py`, `api/workspaces.py`).  State: one JSON file
per workspace.  Operations: PUT with three-valued fields, PATCH, DELETE under
one lock, the move of a corrupt file to quarantine.  Hard: DELETE kills
sessions on the way, and any of the kills may fail; readers (the reaper) run
beside it.

**PTY backends** (`pty_base.py`, `pty_posix.py`, `pty_session.py`, `conpty.py`).
State: the write queue, the writer thread, the child.  Operations: write,
secret write, resize, kill with verification, drain, exit.  Hard: a full queue
against the stop; output of grandchildren after the child's exit.

**Hook-token hold** (`session_manager.py` 548-617).  Typed input waits between
two markers of a remote script, for a bounded time and size, and follows in
order.

**Launch queue** (`api/launches.py`, `launch_loop.js`, `cli.py`).  State: the
bounded queue, the event that announces a change, and in each poll the launch
it popped.  Handoffs wait for a long poll of the primary window; a poll that
lost its client puts its item back.  Hard: a poll awaits between taking and
answering, and between looking and sleeping.  Correct when a launch goes to one
window, none is forgotten, and no poll sleeps beside one.

**Host lifetime** (`pty_host.py`, `app.py`, `server.py`, `elevation.py`).  The
detached process that owns the terminals outlives its windows, is retired or
updated, and goes when nothing is left.  Hard: each decision to go is taken
beside a request to come.

**Agent state** (`agent_hooks.py`).  A fold of events that separate processes
post, late and out of order.

**Pane layout** (`layout.js`, `split_tree.js`, `pane_move.js`).  State: a binary
tree of panes, the elements of the page, a zoomed pane, the panes that slide
shut.  Hard: a closed pane stays on the page while it slides, and every other
operation may fall into the slide.  Correct when tree and page agree and the
keyboard is where the eye is.

**Panes and their commands** (`pane.js`, `pane_commands.js`, `spawner.js`,
`scratch.js`, `terminal_actions.js`).  State: for every pane its terminal, its
bar, its line to the backend, an armed confirmation; the terminals the view
owns.  Hard: each request is answered after the pane may have been closed,
filled or renamed.  Correct when no answer displaces a terminal and a
confirmation kills what it named.

**Palette, sheets, menus, dialogs, usage line, update card** (`palette.js`,
`palette_items.js`, `panels.js`, `theme_switcher.js`, `menu.js`,
`confirm_popover.js`, `folder_browser.js`, `new_workspace_dialog.js`,
`switcher.js`, `pane_find.js`, `shortcut_input.js`, `usage_footer.js`,
`updates.js`, `update_card.js`, `focus.js`).  State: what is open, what it asked
for, its rows and its claim on the keyboard.  Hard: they open over and replace
one another, their answers arrive late.  Correct when claims and surfaces agree,
and a list shows what its mode asked for.

**Views on the stage** (`workspace_views.js`, `stage_columns.js`,
`open_views.js`, `shell.js`, `main.js`).  State: the open views, the columns,
the one with the keyboard, what every document was told, the stored list.  Hard:
documents boot late and reload; operations queue; the user goes on.  Correct
when the stored list is what is open and documents know their place.

**Files panel** (`right_panel.js`, `right_panel_model.js`, `rp_files.js`,
`rp_changes.js`, `rp_pr.js`, `file_view.js`, `diff_view.js`).  State: the tab,
the workspace, the tree, git's state, drafts, checks, logs, the view over the
stage.  Hard: it follows the column while its requests are under way.  Correct
when it shows only what belongs to its workspace, and loses no typed message.

**Sidebar and routing** (`sidebar.js`, `launcher.js`, `shell_routing.js`,
`workspace_actions.js`).  State: the rows of the last poll, the views' memories,
the saved files.  Hard: a gesture is a chain of requests in several documents.
Correct when a kill, a move or an attachment ends in all of them alike.

The rest (configuration's validation, usage and board readers, git services,
the update's download, authentication, shells and ssh discovery, voice, themes)
is listed in `PROJECT.json` with the reason it is not modelled: it is I/O around
other programs, pure parsing, or rendering.

How they meet: the page's registration calls go to the window registry, its
saves to the workspace store, which tells the session registry which sessions a
workspace owns; the reaper reads both the store and the registry; viewers
attach to sessions through the output stream; the launch queue feeds the
primary window the window registry chose; the host's exit depends on open
windows and live sessions.  In a window, the sidebar and the palette call the
stage to open views and, through the stage, the documents' panes; the surfaces
share one count of claims on the keyboard, which a pane asks before it takes it;
the files panel follows the stage's active column.

## SessionLifecycle

Three kinds of actor share the state.  The event loop runs callbacks one at a
time, so a callback is one action.  A worker thread (a REST kill, the reaper
pass) reads the loop's state without a lock, blocks in the backend's `kill`, and
posts each change back; a posted callback is a flag (`finishing`, `leaving`,
`releasing`) cleared by the action that runs it.  Callbacks of different threads
run in any order.

| actions | code |
| --- | --- |
| `Spawn`, `SpawnAsync`, `BuildOk`, `BuildFails`, `FinishAsyncSpawn` | `spawn`, `spawn_async` with its worker thread; `_spawning` goes down once, also when the request was cancelled |
| `OnOutput`, `OnExit`, `ProcessEnds`, `ChildStartsOrEnds` | the PTY's callbacks, the process under them |
| `WsOpen`, `WsReplaysExited`, `WsReplayedExited`, `WsAttach`, `WsEnds`, `Touch`, `Write` | `ws_session` as the registry sees it |
| `KillStarts`, `KillVerified`, `KillSurvived`, `FinishKill`, `RemoveIfSame` | `kill` on its thread, `_finish_kill` and the delayed removal on the loop |
| `ReadSaved`, `Scan`, `AskClaim`, `Claim`, `NextCandidate`, `GiveUp`, `ClaimRefused`, `ReapKill`, `ReapVerified`, `ReapSurvived`, `Release`, `EndPass` | one pass of `reap_idle`, statement by statement where another actor can come between |

The backend is modelled by what its code promises: `kill` returns True only of a
process that is dead, may have signalled one that it reports as surviving, and
`on_exit` runs once.  Time is two sets of flags: a session is `idle` or `aged`
once its clock has passed the configured age.

*Run.* `SessionReap` asks the questions of one terminal's life, `ClaimResolves`
under fairness, and the limit's of two. `MCSessionLifecycle` constrains it to
two overlapping parts: without a limit, one session (`Main`) with one viewer,
one worker thread and the reaper, until it is removed, and kept from the reaper
by at most one of a saved layout, a child process and the retain flag at a time;
and, with and without a limit of one, both sessions while nobody watches, types
or sweeps, which is all that admission reads. One of each is enough for the
first: its properties speak of one session, and of one viewer, worker and pass
against it; ids never interact except in counting; and each of the three shields
works by itself, wherever it is read. 460 thousand states.

*Fairness.*  Weak fairness of the callbacks posted to the loop, of the pass's own
steps and of `kill` returning, which has a deadline in both backends.  Nothing
is assumed of users, processes, the clock or the start of a pass.

*Proved* (`BackendProofs`, which holds the proofs of `WindowRegistry` and
`LaunchQueue` as well; any number of sessions, viewers and worker threads): type correctness, the safety invariants of `SessionReap` with two
more (no viewer attaches under a claim, every claim has an owner), and
`SpawnRespectsLimit` as an action property.  The invariants are not inductive by
themselves.  `IInv` adds the facts they rest on: `StagesInOrder` (flags belong to
ids that were registered), `PassInOrder` (the pass's program counter and its
claim agree), `KilledIsDead` (whatever is on its way out has ended), `ClaimIsHeld`
(the end of a session nobody asked to kill comes from a claim still held, which
is what keeps a viewer from attaching in between), `DoomedIsRead` (whoever is
being given up has been read), and `spawning = Cardinality(Building)`.  The
assumption is that ids are a finite set, `None` is not one, and limits are
natural numbers.

## OutputStream and AttachStream

`OutputStream` says what a viewer is promised: the screen holds one
uninterrupted run of the terminal's output, and when it is started over it
begins with the oldest byte the ring kept or an older one.  `AttachStream`
implements it with `shown` refined by `fed`, the bytes handed to xterm since its
last reset.

Bytes are numbered in the order the terminal wrote them, so that a queue shows
what is lost, doubled or out of order.  Queues hold bytes and markers; how the
code merges bytes into chunks is left out, and each limit counts bytes.

| actions | code |
| --- | --- |
| `OnOutput`, `Ends` | `_on_output` and the fan-out's `publish`; `_on_exit`, or `_finish_kill` before the last output is drained |
| `Accept`, `SendFrame`, `ReceiveAck`, `ReplayDone`, `AckTimeout` | `ws_session`, `_send_replay` |
| `Drain`, `StartPump`, `PumpFrame`, `InputFull` | `_HandshakeBuffer`, the hand-over, `pump_output`, the input side's 1013 |
| `Connect`, `Receive...`, `Closed...` | `Pane._connect`, its message handlers, `_closed` |
| `XtermParses` | the callback of `term.write`, which acknowledges a replay frame or pumps the page's queue |
| `ConnectionLost` | a socket that breaks between any two of these |

*Run.*  `AttachStream`: a ring of 4 bytes, queues of 2 and 3, frames of 2, at
most two broken connections, 7 bytes of output.  Seven bytes wrap the ring,
overflow the fan-out's queue, then the handshake's buffer, then the page's, and
leave output for a second resync; two breaks cover a break during the replay
that follows a break.  190 thousand states.  Deadlock is not an error: after its
exit a pane stops.  Fairness: both event loops run what is due and xterm parses
what it was handed; the terminal need never print and nothing need ever break.

*Not modelled here*: resizes during the replay (`replay_resize`), restarting a
pane in place with its screen kept, a pane detached and attached again, the
4404 and 4409 closes, and the ring's search for a cut outside an escape
sequence.  The handler of a connection whose client has gone ends at once.

*Proved* (`AttachStreamProofs`, any limits, any length of output and number of broken
connections): `MemoryIsBounded` with the types, `ReplayIsQuiet`, `ExitShowsAll`, and
the refinement `RefinesStream`, each step of the implementation being one of
`OutputStream` or a stutter.  The inductive invariant has two parts.  `Control` says
what may be where: the order of the messages on the wire (`WireOK`), what the handler
and the pane may hold in each of their states, and that one replay frame is on its way
at a time, be it on the wire, in xterm or answered (`OneFrame`), from which follows that
the phase "prelive" of the code is never entered.  `Positions` says which byte is where:
the screen follows some byte `a`, the pane's queue follows the screen, each message on
the wire (`at[i]`) follows the one before, and what the handler has yet to send follows
the last of them up to the last byte written, or to a marker that says why not.  Byte
and positions are bound by an existential, so the invariant needs no history variable
for them; `Remains` likewise accounts for `unparsed`, what live writes xterm has not
parsed, which is `Pane._pending` and is what bounds the writes handed to it.

## WindowRegistry

Each public method of the class takes the lock, so a call is one action on the
entries left after `Pruned`; a refused call has pruned all the same.  The clock
is the monotonic one and stands still within a call.  `lastCall` and `reply` are
history: who called, about what, and what was answered.

| actions | code |
| --- | --- |
| `Register` | `register`: KEEP, a parent that makes the window a view, the role, the limit, the conflict |
| `Heartbeat`, `ClaimWorkspace`, `Forget` | `heartbeat`, `claim`, `forget` |
| `Snapshot` | `snapshot` and `owner_of` |
| `Tick` | the clock |

*Run.*  Three ids, one workspace, two entries at most, a TTL of one tick and
three ticks; one id may be named as a shell.  One workspace is enough, since
claims of different names never meet except through "no claim", which is a
value of its own; three ids in two places let an arrival be refused for want of
room, an owner expire while another waits, and the role pass between two shells
while the third id is a view.  40 thousand states.

*Proved* (`BackendProofs`, any ids, names, limits, clock): type
correctness, `OneOwner`, `OnePrimary`, `BlockedByTheLiving`, and the action
properties `BeatingKeepsItsClaim` and `PrimaryIsStable`.  The four invariants are
inductive together.  The argument follows the code's own structure: a call is a
chain of functions of the entries (drop the silent ones, write one entry, give
the role, pass the role on), a lemma says of each function what it keeps, and
`PrunedKeeps` and `RegisterPuts` compose them.  That the role always finds an heir
needs a least element of a set of numbers, from the well-foundedness of the
naturals.  The ids are numbers, ordered as Python orders the strings they are.

## WorkspaceViews

The documents that show a workspace each, over the registry of `WindowRegistry`
with its clock abstracted: an entry expires when its view sleeps past the TTL.
A document's code between two awaits is one action; a request is a record that
says whether it is sent or answered, and what the server does with it is an
action of its own, so that other documents act in between.  A layout is the set
of edits it shows, and a workspace file holds a layout; 0 is the pane every
layout starts from.

| actions | code |
| --- | --- |
| `Open`, `Boot`, `Load` | the shell reserves the workspace for the new view; the document registers, claims, restores |
| `Edit`, `Persist`, `AutoSaved` | `scheduleWorkspaceSave`, `persistCurrentWorkspace` before and after its await |
| `Put`, `First`, `SaveLands`, `SaveFails` | the chain of `workspace.save` for one name, `put_workspace` |
| `Expire`, `Beat`, `RecoverServed`, `Recovered` | the TTL, the 404 and `recoverWindowRegistration` |
| `Rename`, `ClaimServed`, `RenameGoesOn`, `RenameStops`, `RenameSaved`, `ClaimsBack` | the palette's "save as" and `saveWorkspace`, with the claim taken back after a failed save |
| `Close`, `CloseSaved`, `CloseFails`, `Leave` | `closeView` and the removal of its iframe |

`NoName` stands for a view's own scratch layout, which no other view can open.
`stale`, `astray` and `trespass` are history.  They say where the code itself
gives no protection: `trespass` is set when a layout is saved by a view that lost
its workspace since it loaded it, never loaded it (the palette could not read the
list of names), gave it up with a save in flight, or took it while it was being
closed.  `SavedIsKept` says that these are the only ways to lose what was saved: as long
as no such save has landed, no save takes away what an earlier one wrote.

*Runs.*  `WorkspaceViews`: two views, a saved workspace and a free name, two of
an edit, a rename and a fault (`TwoOfThree` in `MCWorkspaceViews`), a fault being a
sleep past the TTL, a save or a close that fails, or a list of names that cannot be
read; views are symmetric.  One edit is enough for a loss, since a layout loaded
before it lacks it; two views are the writer and the one it does not know of.  336
thousand states; with all three at once it takes minutes and finds nothing else, and
both properties are proved for any number.  `WorkspaceSaved`: the two liveness
properties on one workspace, without renames, since the code keeps neither with them
(Findings); 102 thousand states.
The runs stop when nothing is left to open, so deadlock is not an error.
Fairness: documents run their timers and callbacks, every sleep ends, the server
answers.  Nobody need open, edit, rename or close anything.

*Proved* (`WorkspaceViewsProofs`, any views, names and bounds): type correctness, that
a workspace has one owner, and `WriterOwns`.  What a view owns depends on how far its
calls are, so `IInv` says it for every stage of a rename (granted but not yet taken,
given back, neither) and of a recovery, which was granted for the name shown when it
was sent (`OwnsByRename`).  It rests on three more facts: a registration on its way,
or refused, belongs to a view without an entry (`Unregistered`); a document that boots
has asked for nothing (`Fresh`); a rename has a PUT of its own only while it waits for
it (`Saving`), without which the answer of a save could end a rename that was granted
meanwhile.  The assumption is that the scratch name and "no entry" are not workspaces.

`SavedIsKept` needs an invariant of its own about the PUTs in flight, `SInv`.  They are
in order (`InOrder`): one waits for those of its name sent before it, and each has what
those before it have.  The screen has all that was sent, and a view that has not lost
its workspace sends only to that (`Owns`).  While no save of a trespasser has landed,
both the screen and what was sent have what the file has (`Extends`).  And a view that
closed left no PUT behind (`Empties`), so that the next owner starts from the last one.

*Not modelled here*: page exit (`persistOnExit`), deleting a workspace, moving
terminals between workspaces, adopting scratch, a restore that fails, a registry
that is full or cannot be reached, and two recoveries of one view at once.

## LaunchQueue

A poll is a coroutine: what it does between two awaits is one action.  `woken`
stands for the event object a poll took from `arrived`: it is set for every poll
that holds it when the queue changes, which is what replacing the event does.

| actions | code |
| --- | --- |
| `Put` | `queue_launch`, after the body was checked, and `LaunchQueue.put` |
| `Look` | one round of `next_launch` up to its await: the event, the pop, the deadline |
| `PutBack`, `HandOver`, `GoesToWait`, `WakesUp` | what follows `is_disconnected` and `_wait_event` |
| `StartPoll`, `Claimed` | the page's `claimLaunchLoop` and `claimOnce` |
| `Leave`, `Notice`, `IntoTheVoid` | a window that goes in mid-poll, the server that notices later, an answer nobody reads |

*Run.*  Two windows, two polls open at once, room for one launch, four launches,
two departures: both polls can hold a launch while the queue fills behind them,
which takes the queue to the bound of `KeptIsBounded`, and a poll of a window
that has gone competes with a live one.  127 thousand states.  The run stops when all
launches were queued and windows have left, so deadlock is not an error.
Fairness: the event loop runs what is due, the server notices a closed socket,
a page reads its answer, and some window asks again; a page that the registry
does not make primary may never ask.

*Proved* (`BackendProofs`, any polls, windows, limit, launches): type correctness, `InOnePlace`, `NoneSleepsOnALaunch`, `KeptIsBounded`.  `InOnePlace`
needs, beside the types, that a launch not yet queued has no fate.  The other
two are inductive given the types.

*Not modelled*: the checks of a launch before it is queued, and what the window
does with one it has claimed.

## Layout

One document's tree of splits (`leaf`, `split`, by path from the root) beside what
is on the page (`grid`), which lags behind while a closed pane slides shut
(`slides`).  Pixel geometry is open: whether a split has room, whether a pane is
large enough to slide, and which neighbour an arrow key finds are choices.

| actions | code |
| --- | --- |
| `SplitPane`, `MovePane`, `Drop` | `splitPane`, `movePane` and the checks of `pane_move.js` before it |
| `ClosePane`, `SlideEnds`, `CloseLast` | `closePane` with the slide or at once, the end of the transition |
| `Restore`, `ToggleZoom`, `FocusPane`, `FocusDir` | the methods of those names |
| `SetBroadcast`, `SetViewHidden`, `Splitter` | who is outlined, who gives its renderer back, a dragged gutter |

*Run.*  Four pane objects, which a close frees for another split, so that a new
pane can be opened while an old one slides; symmetric; ratios in four steps, and,
on a page of four panes, only halves.  Four panes are enough for two splits that
share nothing, and for a drop whose removal collapses the split it lands in.  26
thousand states.  Deadlock is off because a layout may have nothing left to do.

*Proved* (`LayoutProofs`, any number of panes, trees of any shape and depth, any steps
of a ratio): `PageFollowsTree`, `KeysGoWhereSeen` and, as an action property,
`DropMovesOnePane`.  The inductive invariant `IInv` says that `leaf` and `split` are a
tree (`Tree`): the paths are those of a binary tree (`Shape`: what is above a node is a
split, a split has both children, and there is one leaf more than there are splits) and
no pane has two leaves.  `TypeOK` says as much by counting nodes and parents; `Shape`
says it of every height at once, which would take an induction to get from there, and
`IInvSays` derives `TypeOK`.  To `Tree` it adds the rest of the two invariants, which
hold each other up: what a pane is told depends on the tree and the zoom, and the timer
of a slide renders the tree of then.

The argument is in three parts.  First, putting a pane beside another (`With`), taking
one out, which lifts its sibling's subtree to the parent's place (`Without`), swapping
two and setting a ratio make trees of trees (`WithIs`, `WithoutIs`, `SwapIs`,
`RatioTree`); the count of the leaves is a bijection of the lifted paths with those that
were kept.  Second, the order of the panes: two leaves part at some node, and the one
under its first child comes first (`Precedes`).  This is a strict total order of the
leaves of a tree, `FirstOf` finds the least of any of them (`FirstIs`), and both `With`
and `Without` keep it, so a drop, which is one after the other, keeps it for the panes it
does not move (`MovedIs`).  Third, one lemma per action.  A least length, a smallest
subtree and the first of some leaves come from well-founded orders, as there is no
induction over paths to be had.  The assumption is `LayoutAssumption`: `NoPane` is no
pane, the steps of a ratio are even, and the margin is positive and less than half.
Nothing bounds the number of panes.

*Not modelled*: resizing and balancing with keys (`adjustFocusedSize`,
`balanceFocusedSplit`, `canResizeFocused`), which nothing in the page calls, and the
saved form's parsing.

## Desk

One view's panes, each a record of what `Pane` keeps; a method of `Pane` that
changes only the pane is an operator on such records.  A request is a job with the
stage its answer goes on from.

| actions | code |
| --- | --- |
| `RunProfile`, `RunWithOptions`, `RunSystemTerminal`, `NewTerminal`, `StartLaunch`, `SplitFocused`, `Spawned`, `NotSpawned` | `spawner.js`: which pane is taken, what a late answer finds there |
| `AttachSession`, `RestartTerminal`, `Recover`, `Replayed`, `Exits`, `LineLost`, `Reconnect`, `NoticeTimer` | a pane's line to its terminal, its notices and its recovery bar |
| `ClosePane`, `Retained`, `KillFocusedSession`, `AcceptKill`, `CancelBar`, `Killed`, `KillSessionById`, `DetachSessionById`, `Dropped` | `pane_commands.js`: retaining, the armed confirmation, kills from outside |
| `SendSnippet`, `AcceptRun`, `Types` | what is typed into a terminal, and the bar a snippet may need |
| `MaybeAdoptScratch`, `BootAdopts`, `ListsNames`, `ClaimRefused`, `Adopts`, `Saved` | `scratch.js` |
| `MoveSessionHere`, `Moves`, `MovedHere`, `RestoreNext`, `Dies` | `terminal_actions.js`, the start of restored panes, the backend |

*Run.*  Two panes, a terminal that runs elsewhere and one that can be started, two
requests at once, three commands: from a restored workspace (a live terminal, one
to start, one that is gone), from a new workspace and from a new scratch view.  Two panes give one that
is focused and one that is not; a spawn and a kill can be under way together.  1.8
million states.  Deadlock is off: a view whose terminals ended stops.  `RestoreNext`
comes before everything else that could happen: the loop of `restoreWorkspace` goes on
in the turn in which its last start was answered, and at its end gives the keyboard to
the first pane, whether that is still open or not.  A closed pane keeps its record only
as long as it has that to come; the commands then act on it as the code does.

*Proved* (`DeskProofs`, any number of panes, terminals, requests and commands, and a
restore of any length): `ArmedIsFocused`, `KillsWhatItNamed` and `NoTerminalIsDisplaced`,
from `DeskAssumption` alone.  Most methods of `Pane` are *gentle*: the pane shows what it
showed, is being started if it was, and asks nothing it did not ask.  A step then is
gentle panes beside one pane that starts, ends a start, shows, closes or arms, and one
lemma each carries those.  The inductive invariant adds what the code takes for granted:
a start that is under way is the only one of its pane, which shows "starting" as long as
it is open (so its answer finds no terminal there); a closed pane is not used again
while a request is about it; what a pane shows was started once; an armed kill names
what its pane shows, wherever the bar is; and no recovery bar is over a terminal.

*Not modelled*: setup and startup commands (`runSetup`, `runStartup`), search in
the output, releasing the renderer, and what no caller reaches
(`newScratchWorkspace`, `openFolderInScratch`, `scratchTerminalsAtRisk`,
`discardScratch`, `switchWorkspace`, `armClose`, `killSession` of a pane).

## Surfaces

`Palette`, `Dialogs`, `Settings`, `Usage` and `Updates` each hold a part's state,
its commands and its answers; `Surfaces` composes them, with the gestures of
`shell.js` that close some and open others.  `Focus` is `claimFocus` and
`releaseFocus`; each part counts its own claims.

| module | actions | code |
| --- | --- | --- |
| `Palette` | `OpenPalette`, `Close`, the modes, `Types`, `ArrowTo`, `HoverOn`, `Click`, `EnterKey`, `EscapeKey`, `SubmitPrompt`, and one answer per request | `palette.js`, `palette_items.js` |
| `Dialogs` | `ToggleMenu`, `DropMenu`, `ConfirmNear`, `RunAction`, `AcceptConfirm`, `CloseConfirm`, `TriggerGone`; `OpenFolderBrowser`, `FolderGo`, `UseHere`, `FolderAnswer`; `OpenNewWorkspace`, `Browse`, `Create`, `ChecksOut`; `Step`, `EndSwitch`; `StartCapture`; `OpenFind`; `Press`, `WindowBlur` | a file per surface |
| `Settings` | `Show`, `LoadArrives`, `Edit`, `SaveSettings` and its two answers, `OtherSaves`, `SyncArrives`, the theme switcher's `SelectTheme` to `CheckDrift` | `panels.js`, `global_settings.js`, `config_sync.js`, `theme_switcher.js` |
| `Usage` | `ClickPart`, `PressOutside`, `ClosePopover`, `Tick`, `RefreshLine`, `ReadAnswer`, `ReadFails` | `usage_footer.js` |
| `Updates` | `Act`, `ActAnswers`, `QueryAnswers`, `QueryFails`, `Poll`, `Probe`, `LooksAgain`, `Collapse`, `Reopen`, the caret, `BackendSteps` | `updates.js`, `update_card.js`, `update.py` |

A request is answered with the state it was sent in or the one it arrives in, or
fails.  A palette row is what it does and to what; names matter only where rows are
told apart.  `Updates` sees `update.py` as a window does: the states, with the
outcome of each step a choice.

*Run.*  Three commands, any number of answers and timers; two terminals, two
folders, two settings with two values, one sheet beside Settings, three requests of
the palette.  All the surfaces, the usage line and the update card take part
together: three commands are one surface opened over or closed by another, or an
opening, a change of mode, and a closing around a late answer.  Two requests of the
usage line, and two looks at the update beside those of its own buttons and its
poll.  660 thousand states.  Deadlock is off: the
commands end.

The update card's claim is released by `focusout`, which a browser need not send
when the focused button is disabled or removed: the model leaves that open, and
`KeyboardIsClaimed` says of the card only that it holds the keyboard while the caret
is in it, and not once it is folded away.  An answer older than the one before it
(`refreshUpdateState` numbers nothing) puts an old state on the card until the next
look; the run only shows that a download shown as running is looked at again.

*Proved* (`SurfacesProofs`, any number of commands, answers and timers):
`KeyboardIsClaimed` and `WhatIsShownIsPolled`.  A part's steps do not refer to another
part, so each has an invariant of its own, kept by its own steps, and the composition's
step is one part's step beside what the others do for it (a gesture that closes them).
What is added
makes the claims computable from the surfaces: exactly one while one shows and none
otherwise, per owner, where the code only counts up and down; the types of what the
surfaces hold, without which a drawn surface could not be told from none; and that the
timer that ticks is the one of the popover on screen.  Three more say what answers do to lists.  `ListingNeverGoesBack`:
requests are numbered, and a listing shown is the one of the newest answered
(`DialogsNumbered`).  `RowsBelong`, with the types of everything the surfaces hold:
what a filter leaves of the rows is the rows at some positions (`Lists`), so each is one
of the mode's.  `RowStaysPicked`: a filled list finds the row picked with the arrows
again, *where no two terminals share a name* (`NamesDiffer`, a hypothesis of the theorem).
It needs that: `_refilter` looks for the picked row's label (`palette.js` 751), and what
`disambiguate` does for equal names changes only the hint (`palette_items.js` 196), so
with two terminals of one name a late answer moves the highlight from the second to the
first, against the comment at `palette.js` 730.  (Two terminals of one name in
`MCSurfaces` show it.)  The assumptions are what `SurfacesAssumption` and
`PaletteAssumption` say of the constants: terminals are finitely many, `None` is none of
them, the version that runs is one of the versions; and that `None` is none of the
records the surfaces are (`NoneIsNothing`).

*Not modelled*: how rows read, keep-open rows, typeahead, the order of the Ctrl+Tab
list, names and hosts in the new workspace dialog, more than one location menu, the
usage rows, the restart into a new version, checks turned off.

## Stage

`Columns` holds the pure part: columns of views, the record of what is open, the
plan of a restore.  The methods of `WorkspaceViews` (the class) call one another, so
in `Stage` each is an operator from a stage to a stage, and an action is one call from
outside, a queued operation's start or answer, or a document's boot.

| actions | code |
| --- | --- |
| `Open`, `StartOpen`, `OpenAnswer`, `Close`, `StartClose`, `CloseAnswer`, `Promote` | the queue of `workspace_views.js` and its operations |
| `Boots`, `FrameReload`, `Update` | `ready`, a frame that loads again, the poll |
| `ReleaseLeftovers`, `RestoreSaved`, `StartRestore`, `RestoreAnswer`, `RestoreEnds`, `OpenFirst`, `Reload` | the boot of `shell.js` and `restore` |
| `ShowSlot`, `CycleWorkspace`, `StepToColumn`, `RemoveFromSplit`, `ShowActiveAlone`, `DragGutter`, `Click` | switching and the columns |
| `OverlayOpens`, `OverlayCloses`, `WindowFocused` | the shell's claim on the keyboard |

*Run.*  Two saved workspaces and scratch, two columns, three stored views, four
views in a behaviour, three commands, one reload of the window or a document.  A
restore of two, a third view, and a fourth opened or restored again make every
queue of operations that two of them can meet in.  554 thousand states.  Deadlock
is off: the commands end.

*Proved* (`StageProofs`, any views, names, columns and bounds, a queue of any length):
`ViewsKnowTheirPlace`, `KeysStayInPlace` and `StoreFollows`.  The methods of the class call one
another on stages that are between two truths, so each has a lemma that says what it
makes of a stage, from no more than it needs: `Weak` holds while columns and
documents disagree, `Placed` once `_tellHidden` ran, `Sound` once the list is stored,
`Settled` when a call from outside is over.  `IInv` is `Settled` with what the rest of the
window is up to.  `Core`: the items are the open documents, each once; the view that waits
for the keyboard and the recent ones are among them; a document that kept its name goes
by the one it was asked for.  `Cols`: no columns, or at most `MaxColumns` open views, none
twice, the active one among them.  `Knows`: what a booted document was told is so, and
the window knows what it told, which is why it may leave out telling it again.
`QueueFor`: only the head of the queue runs, and a restore is alone of its kind.  `CloseFor`: the view
of a running close is still open.  `MannedFor`: but for a running restore, some view is
active when any is open.  The assumptions: the sidebar's order is a sequence of the saved
workspaces, scratch is none of them, `None` is no view and no truth value.

`Columns` filters lists with `Picked` of `Lists`, whose facts (what is left, in which order,
none twice) are proved from the n-th least position of a finite set.
`RestoreBringsBack` stays with TLC: it relates the stored list to the one before the
reload through every answer of the restore.

`ByName` is the map of the restore: a view keeps the column it was claimed for, also when
its document could not load the workspace and booted on scratch meanwhile.  So
`RestoreBringsBack` counts views by what they were claimed for, and does not ask what
they booted on.

*Not modelled*: the older stored form and its key, links that open a folder, the
`first` flag and the remembered workspace, a list that cannot be stored, the
timeout of a document that never boots, widths other than equal or not, and a
frame that reloads during its close.

## RightPanel

`PanelModel` is `right_panel_model.js`.  The three tabs and the views are records
with operators, as in the code each is an object the panel calls; `RightPanel` has the
actions.  Requests lie in lists per tab and are answered in any order, also after
the panel moved to another workspace.

| module | actions | code |
| --- | --- | --- |
| `RightPanel` | `SelectTab`, `Toggle`, `Pin`, `Follows`, `ColumnChanges`, `DetailsAnswer`, `Tick`, `PageHides`, `PageShows`, the keyboard and the box | `right_panel.js` |
| `FilesTab` | `OpenFolder`, `TypeFilter`, `SearchDue`, `ListingAnswer`, `SearchAnswer` | `rp_files.js` |
| `ChangesTab` | `TypeMessage`, `Git`, `GitStep`, `Work`, `AskDiscard`, `WorkAnswer`, `ChangesHeard` | `rp_changes.js` |
| `PullRequestTab` | `OpenCheck`, `LogAnswer`, `PrHeard`, `AskMerge`, `MergeAnswer` | `rp_pr.js` |
| `Viewers` | `OpenFile`, `OpenDiff`, `FileAnswer`, `DiffAnswer`, `StepDiff`, `TurnLayout`, `Find`... | `file_view.js`, `diff_view.js` |

*Run.*  Two workspaces, one without a folder.  All parts composed with all bounds
is past a run, so a behaviour starts in one of the situations `MCStarts` lists and
gives each part of the panel a number of commands: the frame with one tab on
screen, or a tab or view alone for more.  Two requests per tab in flight, one file in
each of git's groups, one commit ahead at first, one failing check, and four diffs
whose runs have unequal lengths, are at the first or the last row, or hold git's note.
700 thousand states.  Deadlock is off: the commands end.

*Proved* (`RightPanelProofs`, any workspaces, folders, paths, checks, messages, diffs and
repositories, any number of requests and commands): `TabsShowTheirWorkspace`,
`TypedMessageIsKept`, `KeyboardComesBack` and `BusyHasWork`, from one inductive invariant,
`IInv` (`PanelHoldsTogether`).  The four are not inductive by themselves, because an answer
is taken long after its request was sent.  What `IInv` adds is about what is under way:

* `FilesOf`, `ChangesOf`, `PrOf`: a request that is still listened to is about the
  workspace the panel is on; a state of git that is shown has taken that workspace's draft
  into the box, and with no draft taken the box is empty.  This is what leaving a
  workspace must undo, and why a late answer cannot mix two.
* `Awaited`: a confirmation that is busy waits for exactly one thing, which is about the
  workspace it names; a merge or a discard that runs for a box has that box on screen.  So
  the answer that ends the wait finds the box it belongs to, and no second one ends it.
* `KeysOf` and `ViewOf`: who has the keyboard has the claim, and a view's position is a
  stop or a match it has.  The last rests on what `PanelModel` makes of a diff: that
  the rows parsed are rows, that the two columns pair them, and that the next stop is a stop.

The tabs and views are records with operators, so each operator has a lemma saying that it
makes a good tab of a good one; `Framed` is a panel without its tabs, `Whole` one with
them, and a step is a few of these lemmas in a row.  The assumptions
(`PanelAssumption`, `NoneIsNothing`): the root is a folder, what git and GitHub say at the
start has its type, a diff is a sequence of lines, and `None` is no workspace and none of the
records the panel keeps.  `LayoutsAgree` stays with TLC: what the two layouts of a diff contain
is a fact about recursion over its lines.  The proof shows of that recursion
only what each step keeps.

*Not modelled*: dragging the width, pasting paths, opening outside, prompts for an
agent, collapsed sections, cut notes, WSL and remote hosts.

## Routing

What a click, a kill, a move or a kill-all in the sidebar does: a gesture is a
record with the step it is at and the document that step runs in, so that closing
the document ends it there; every request is an await.  Views save as in
`WorkspaceViews`, reduced to the set of terminals a file names.  Routing is checked by
one run, of a finding; its bounds are two gestures, one view opened or closed by hand
meanwhile, two terminals, one saved workspace, one poll in flight, no failed request.

*Not modelled*: attention marks, git facts, recent terminals, other windows, the
file list failing.

## Findings

`RoutingKills` is a run that TLC must find violated: a kill from the sidebar drops
the terminal from its view's memory after the kill has answered, but a close of that
view may have read its terminals before and saves them after, so that the closed
workspace's file lists a killed terminal; against "the terminal leaves every saved
workspace, leaf and all" (`workspace_actions.js` 163).

More statements of comments and documents are refuted by the models.  They are kept
as definitions; adding one to the file in brackets shows the counterexample.

* `OwnKillIsNoNews` (`SessionReap.cfg`, an INVARIANT): `kill` clears `stopping` when it
  could not verify the death, though it has signalled the process; the exit that
  follows is announced as news, against "never for an exit QuickTerm caused"
  (`session_manager.py` 1029-1030).
* `PickedUpSurvives` (`SessionReap.cfg`): a live terminal saved into a workspace after
  the pass read the workspace files is killed by that pass, against "a session picked
  up during a slow pass survives" (`docs/CONTRACTS.md` 468-471).
* `InputFullReplays` (`AttachStream.cfg`): after a 1013 for a full input queue the page
  does not always reconnect and replay, against `docs/CONTRACTS.md` 852.
* `ResetStartsClean` (`AttachStream.cfg`): the reset of a resync leaves earlier writes
  in xterm's buffer, which are parsed after it, against `docs/SESSION_MODEL.md` 28-29.
* `QuarrelEnds` with renames (`WorkspaceSaved.cfg`, `MaxRenames = 1` and a second name):
  a recovery or a re-claim beside a rename leaves a view writing a workspace its entry
  does not own, and no beat tells it, against "two windows must never own the same
  workspace" (`window_registry.js` 33-36).  `EditIsSaved` fails with it: a renamed view's
  pending save is never tried again.
* `BarIsSeen` (`Desk.cfg`): the end of a replay hides a kill confirmation that stays
  armed, against `pane.js` 782-783.
* `RestoreLeavesTerminals` (`Desk.cfg`, a PROPERTY): a restore that comes to a pane the user
  filled meanwhile starts another terminal over the one that runs there
  (`workspace_switch.js` 56-81); every other start asks `canReplace` (`pane.js` 283-285)
  first.  The one that ran stays without a pane.
* `FocusIsOpen` (`Desk.cfg`): the restore ends with the keyboard at its first pane
  (`workspace_switch.js` 83), also when the user has closed that one meanwhile: what is
  split, started or armed next is on no page, and a second Alt+W kills the terminal that
  the closed pane showed; against `layout.js` 373-374, a pane "must not take the keyboard
  while it is invisible".
* `BaselineIsSaved` (`Surfaces.cfg`, a PROPERTY): an edit made while a save of the settings
  is on its way counts as saved, against "saved" in `panels.js` 396-397.
* `AmendAsksFirst` (`RightPanel.cfg`): an amend chosen between the end of a push and git's
  answer rewrites the pushed commit and asks nothing, against `docs/CONTRACTS.md` 3268.
* `KeyboardIsHandedOver`, `ViewKeepsItsWorkspace`, `LateBootStealsNothing` (`Stage.cfg`, the
  last two PROPERTIES): a document that reloads while it waits for the keyboard, names
  another workspace at boot, or boots after another view was chosen; against comments
  of `workspace_views.js`.

Read in the code while modelling it, and not run:

* The sidebar keeps rows whose last poll said alive, so a killed row stays until the
  next poll (`sidebar.js` 125, 256; `docs/CONTRACTS.md` 1967); a poll answered late takes a
  newer one back (`sidebar.js` 227).
* Two kills at once in one closed workspace each read and write its file: one edit is
  lost.  A kill-all's edit may overwrite a view's newer save (`shell_routing.js` 157).
  `moveSessionHere` ignores a file edit that failed (`workspace_actions.js` 201).
* Making a terminal's folder a workspace writes the terminal into the new file before it
  retains it: when the retain fails the user reads "Nothing was moved"
  (`workspace_actions.js` 92), and both workspaces list the terminal (`HereNotCarried`).
* Renaming a row that a poll or a sort moves submits a half-typed name (`launcher.js` 341).
* Two adoption paths of scratch (`scratch.js` 89, 107) can drop a terminal that was
  detached on purpose, against `docs/SESSION_MODEL.md` 21-22.
* Answers of the panel's refreshes are not numbered (`rp_changes.js` 394): an older one may
  be drawn last; a committed message can come back as a draft (302, 368).
* A window restored with more than 16 open workspaces loses its list (`open_views.js`).

## What is only model-checked

Liveness (`ClaimResolves`, `FinalOutputArrives`, `LaunchIsServed`, `QuarrelEnds`,
`EditIsSaved`), because the prover has no rule for fairness; `RestoreBringsBack` of
`Stage`; `RowStaysPicked` where names coincide, which then does not hold; and `LayoutsAgree` of
`RightPanel`, by recursion over the lines of a diff.

Induction over data is not out of reach altogether.  Where a proof needs a least number
or a smallest set (the role's heir, the n-th position, the first marker of a queue), it
takes a minimal element of a well-founded order, which the library gives for the
numbers and for the finite subsets of a set.

## Plan

In this order:

1. Proofs: `RestoreBringsBack` of `Stage`.
2. `WorkspaceViews`, what it leaves out: page exit with a save and an unchained goodbye
   (`lifecycle.js` 42), a reload with the same id, delete (`workspace_actions.js` 318), a
   rename beside an autosave in flight (`workspace_actions.js` 241).
3. `WorkspaceStore`: PUT, PATCH and DELETE under the write lock, with the kill of
   owned sessions and its failures (`api/workspaces.py` 285).
4. `InputQueue`: the PTY's write queue, its writer thread and stop (`pty_base.py` 172), and
   the hook-token hold above it (`session_manager.py` 584).
5. `HostLifetime`: windows, sessions, retirement, update hold, the exit check
   (`pty_host.py` 1027).
6. `AgentState`: the fold of hook events against the order they were sent in
   (`agent_hooks.py` 822, 886).
7. Proofs: the safety properties of 2 to 4.

## Not modelled

`PROJECT.json` names every component that is left out with its reason.  Beside those
planned above they are: what asks other programs and keeps nothing (git, pull-request
and file services, shells, ssh, opening files), readers of other programs' files (usage,
transcripts, board), parsers of byte streams (terminal signals), request checks
(authentication), voice input, and tables of colours and texts (themes, help, fonts).

Runs are to stay under four minutes each; every module is parameterised by its
limits, so that the same definitions serve TLC and the proofs.
