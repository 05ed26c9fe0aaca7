------------------------------- MODULE Routing -------------------------------
(***************************************************************************)
(* Where a gesture on a terminal of the sidebar goes (shell_routing.js):   *)
(* the views of one window, what each shows and owns in memory, the saved  *)
(* workspace files the backend mirrors into its tags, the rows of the last *)
(* poll, and the gestures that run through them with an await at every     *)
(* request.  A gesture is a record: what it is about, the step it is at    *)
(* and the document its next step runs in (`doc`, None for the shell).     *)
(***************************************************************************)
EXTENDS Naturals, FiniteSets

CONSTANTS
    Terminals, Named, Scratches,      \* terminals, named workspaces, scratch views' workspaces
    Gestures,                         \* gestures that may be under way at once
    MaxGestures, MaxMoves, MaxFails,  \* gestures begun, views opened or closed by hand, failed requests
    None

Workspaces == Named \cup Scratches

VARIABLES
    proc,     \* of each terminal: "alive", "finished" (still listed) or "gone"
    tag,      \* the backend's `workspace` of each terminal
    file,     \* of each workspace: the terminals its saved file lists
    view,     \* of each workspace: "fresh" (never opened), "booting", "ready", "closing", "closed"
    active,   \* the workspace of the active view, or None
    panes,    \* of each workspace's view: how many panes show each terminal
    own,      \* of each workspace's view: workspaceSessionIds
    due,      \* of each view: a debounced, pending or retried save
    flight,   \* of each view: the terminals in the save under way, or None
    kept,     \* of each closing view: the terminals its last save names
    row,      \* the sidebar's last list: state and tag of each terminal
    answer,   \* the poll's answer on its way, or None
    hidden,   \* the sidebar's `killed` set
    menu,     \* the open menu of a row: [t, rows], or None
    question, \* the terminal the sidebar asks about before it kills it, or None
    gesture,  \* of each gesture: Idle or what it is doing
    verified, \* terminals whose kill ended as verified
    banner,   \* terminals a banner said a file may still list
    begun, moved, failed  \* the counters of the bounds

server  == <<proc, tag, file>>
stage   == <<view, active>>
memory  == <<panes, own>>
saves   == <<due, flight, kept>>
sidebar == <<row, answer, hidden, menu, question>>
told    == <<verified, banner>>
bounds  == <<begun, moved, failed>>
vars == <<server, stage, memory, saves, sidebar, gesture, told, bounds>>

Idle == [at |-> "idle"]
Open(w)     == view[w] \in {"booting", "ready", "closing"}
HasApp(w)   == view[w] \in {"ready", "closing"}
Shown(w)    == {t \in Terminals : panes[w][t] > 0}
Owned(w)    == own[w] \cup Shown(w)
Attached(t) == {w \in Workspaces : HasApp(w) /\ proc[t] = "alive" /\ t \in Shown(w)}
Claimed(t)  == {w \in Workspaces : HasApp(w) /\ t \in Owned(w)}

TypeOK ==
    /\ proc \in [Terminals -> {"alive", "finished", "gone"}]
    /\ tag \in [Terminals -> Workspaces \cup {None}]
    /\ file \in [Workspaces -> SUBSET Terminals]
    /\ view \in [Workspaces -> {"fresh", "booting", "ready", "closing", "closed"}]
    /\ active \in Workspaces \cup {None}
    /\ panes \in [Workspaces -> [Terminals -> 0 .. MaxGestures + 1]]
    /\ own \in [Workspaces -> SUBSET Terminals]
    /\ due \in [Workspaces -> BOOLEAN]
    /\ flight \in [Workspaces -> SUBSET Terminals \cup {None}]
    /\ kept \in [Workspaces -> SUBSET Terminals]
    /\ question \in Terminals \cup {None}
    /\ hidden \in SUBSET Terminals /\ verified \in SUBSET Terminals /\ banner \in SUBSET Terminals

-----------------------------------------------------------------------------
(* The backend: a saved list is mirrored into the tags; a kill is verified. *)

Put(w, ids) ==
    /\ file' = [file EXCEPT ![w] = ids]
    /\ tag' = [t \in Terminals |->
                 IF t \in ids THEN w ELSE IF tag[t] = w THEN None ELSE tag[t]]

Stopped(ts) == [t \in Terminals |-> IF t \in ts /\ proc[t] = "alive" THEN "finished" ELSE proc[t]]

-----------------------------------------------------------------------------
(* A view's memory and its saves.                                           *)

Forgets(w, ts) == own' = [own EXCEPT ![w] = @ \ ts]

ClosesPane(w, t) == panes' = [panes EXCEPT ![w][t] = IF @ > 0 THEN @ - 1 ELSE 0]

\* scheduleWorkspaceSave: nothing is scheduled while the view closes.
Schedule(w) == due' = [due EXCEPT ![w] = @ \/ view[w] = "ready"]

\* persistCurrentWorkspace, awaited by gesture g with memory (ids) as it is after
\* the step: at once while the view closes or another save is in flight.
Persist(g, w, ids, next) ==
    IF view[w] # "ready" THEN /\ gesture' = [gesture EXCEPT ![g] = next] /\ UNCHANGED saves
    ELSE IF flight[w] # None
    THEN /\ gesture' = [gesture EXCEPT ![g] = next]
         /\ due' = [due EXCEPT ![w] = TRUE] /\ UNCHANGED <<flight, kept>>
    ELSE /\ gesture' = [gesture EXCEPT ![g] = [at |-> "saving", doc |-> w, next |-> next]]
         /\ flight' = [flight EXCEPT ![w] = ids] /\ due' = [due EXCEPT ![w] = FALSE]
         /\ UNCHANGED kept

Woken(w) == [g \in Gestures |->
    IF gesture[g].at = "saving" THEN IF gesture[g].doc = w THEN gesture[g].next ELSE gesture[g]
    ELSE gesture[g]]

SaveStarts(w) ==
    /\ due[w] /\ view[w] = "ready" /\ flight[w] = None
    /\ flight' = [flight EXCEPT ![w] = Owned(w)]
    /\ due' = [due EXCEPT ![w] = FALSE] /\ UNCHANGED kept
    /\ UNCHANGED <<server, stage, memory, sidebar, gesture, told, bounds>>

SaveLands(w) ==
    /\ flight[w] # None
    /\ Put(w, flight[w])
    /\ flight' = [flight EXCEPT ![w] = None]
    /\ gesture' = Woken(w)
    /\ UNCHANGED <<proc, stage, memory, due, kept, sidebar, told, bounds>>

SaveFails(w) ==
    /\ flight[w] # None /\ failed < MaxFails /\ failed' = failed + 1
    /\ flight' = [flight EXCEPT ![w] = None]
    /\ due' = [due EXCEPT ![w] = view[w] = "ready"]
    /\ gesture' = Woken(w)
    /\ UNCHANGED <<server, stage, memory, kept, sidebar, told, begun, moved>>

-----------------------------------------------------------------------------
(* Views open, restore their file, and close with a last save.  One such    *)
(* operation runs at a time.                                                *)

NoneCloses == \A w \in Workspaces : view[w] # "closing"

\* A closed scratch view is never opened again.
MayOpen(w) == NoneCloses /\ (view[w] = "fresh" \/ (view[w] = "closed" /\ w \in Named))

Opened(w) == /\ view' = [view EXCEPT ![w] = "booting"] /\ active' = w

OpenView(w) ==
    /\ MayOpen(w) /\ moved < MaxMoves /\ moved' = moved + 1
    /\ Opened(w)
    /\ UNCHANGED <<server, memory, saves, sidebar, gesture, told, begun, failed>>

\* restoreWorkspace: the file's terminals are owned, the live ones of its layout
\* get a pane.
Boot(w) ==
    /\ view[w] = "booting"
    /\ view' = [view EXCEPT ![w] = "ready"]
    /\ own' = [own EXCEPT ![w] = file[w]]
    /\ \E laid \in SUBSET {t \in file[w] : proc[t] = "alive"} :
        panes' = [panes EXCEPT ![w] = [t \in Terminals |-> IF t \in laid THEN 1 ELSE 0]]
    /\ UNCHANGED <<server, active, saves, sidebar, gesture, told, bounds>>

\* What the last save names is read now; a scratch view leaves its idle terminals out.
CloseStarts(w) ==
    /\ view[w] = "ready" /\ NoneCloses /\ moved < MaxMoves /\ moved' = moved + 1
    /\ view' = [view EXCEPT ![w] = "closing"]
    /\ \E ids \in (IF w \in Named THEN {Owned(w)} ELSE SUBSET Owned(w)) :
        kept' = [kept EXCEPT ![w] = ids]
    /\ due' = [due EXCEPT ![w] = FALSE]
    /\ UNCHANGED <<server, active, memory, flight, sidebar, gesture, told, begun, failed>>

\* The last save queues behind an autosave under way; then the document goes,
\* and with it whatever a gesture still had to do there.
CloseEnds(w) ==
    /\ view[w] = "closing" /\ flight[w] = None
    /\ Put(w, kept[w])
    /\ view' = [view EXCEPT ![w] = "closed"]
    /\ kept' = [kept EXCEPT ![w] = {}]
    /\ own' = [own EXCEPT ![w] = {}]
    /\ panes' = [panes EXCEPT ![w] = [t \in Terminals |-> 0]]
    /\ LET others == {v \in Workspaces \ {w} : Open(v)}
       IN  active' \in IF active # w THEN {active} ELSE IF others = {} THEN {None} ELSE others
    /\ gesture' = [g \in Gestures |->
                     IF gesture[g] # Idle THEN IF gesture[g].doc = w THEN Idle ELSE gesture[g]
                     ELSE Idle]
    /\ UNCHANGED <<proc, due, flight, sidebar, told, bounds>>

CloseFails(w) ==
    /\ view[w] = "closing" /\ flight[w] = None
    /\ failed < MaxFails /\ failed' = failed + 1
    /\ view' = [view EXCEPT ![w] = "ready"]
    /\ kept' = [kept EXCEPT ![w] = {}]
    /\ due' = [due EXCEPT ![w] = TRUE]
    /\ UNCHANGED <<server, active, memory, flight, sidebar, gesture, told, begun, moved>>

-----------------------------------------------------------------------------
(* Terminals end by themselves, and the sidebar polls what the backend      *)
(* lists; a terminal killed from this window is left out once it is dead.   *)

Visible(list, ids) ==
    [t \in Terminals |-> IF t \in ids /\ list[t].state # "alive"
                          THEN [list[t] EXCEPT !.state = "gone"] ELSE list[t]]

Exits(t) ==
    /\ proc[t] = "alive" /\ proc' = Stopped({t})
    /\ UNCHANGED <<tag, file, stage, memory, saves, sidebar, gesture, told, bounds>>

Reaped(t) ==
    /\ proc[t] = "finished" /\ proc' = [proc EXCEPT ![t] = "gone"]
    /\ UNCHANGED <<tag, file, stage, memory, saves, sidebar, gesture, told, bounds>>

\* patchGroups: a question whose terminal is not listed any more is taken back (one
\* whose row moved to another group may stay here).
Listed(list, t) == list[t].state # "gone"
StillAsked(list) == IF question = None THEN None ELSE IF Listed(list, question) THEN question ELSE None

PollAsks ==
    /\ answer = None
    /\ answer' = [t \in Terminals |-> [state |-> proc[t], tag |-> tag[t]]]
    /\ UNCHANGED <<server, stage, memory, saves, row, hidden, menu, question, gesture, told, bounds>>

PollArrives ==
    /\ answer # None /\ answer' = None
    /\ hidden' = {t \in hidden : answer[t].state # "gone"}
    /\ row' = Visible(answer, hidden')
    /\ question' = StillAsked(row') /\ UNCHANGED menu
    /\ UNCHANGED <<server, stage, memory, saves, gesture, told, bounds>>

\* forget: the rows of a verified kill go at once.
Forgotten(ts) ==
    /\ hidden' = hidden \cup ts
    /\ row' = Visible(row, hidden \cup ts)
    /\ question' = StillAsked(row')
    /\ UNCHANGED <<answer, menu>>

-----------------------------------------------------------------------------
(* The route of a gesture, from the views as they are now and from the      *)
(* row's own record, which may be stale.                                    *)

\* A view that shows it wins, then a view's claim, then the row's tag.
Owners(t, rowTag) ==
    IF Attached(t) # {} THEN Attached(t)
    ELSE IF Claimed(t) # {} THEN Claimed(t) ELSE {rowTag}

RowAction(t, w) ==
    IF w \in Attached(t) THEN "focus"
    ELSE IF w = None THEN "adopt"
    ELSE IF Open(w) THEN "attach"
    ELSE IF w \in Named THEN "open" ELSE "adopt"

InShell(w) == IF w = None THEN TRUE ELSE ~Open(w)

Steps(g, next) == gesture' = [gesture EXCEPT ![g] = next]

Begins(g) ==
    /\ gesture[g] = Idle /\ begun < MaxGestures /\ begun' = begun + 1
    /\ UNCHANGED <<moved, failed>>

\* A job of the shell on terminal t in the view of w: wait for that view's app.
Job(kind, t, w, from, rec) ==
    [at |-> "app", doc |-> None, kind |-> kind, t |-> t, w |-> w, from |-> from, rec |-> rec]

\* The view of w is opened first.
Claiming(job) == [job EXCEPT !.at = "claim"]

\* views.active || await views.open(null)
ToActive(g, kind, t, from, rec) ==
    IF active # None THEN Steps(g, Job(kind, t, active, from, rec))
    ELSE \E w \in Scratches : view[w] = "fresh" /\ Steps(g, Claiming(Job(kind, t, w, from, rec)))

Route(g, t, rec) ==
    \E w \in Owners(t, rec.tag) :
        CASE RowAction(t, w) = "focus"  -> active' = w /\ Steps(g, Idle)
          [] RowAction(t, w) = "attach" -> active' = w /\ Steps(g, Job("attach", t, w, w, rec))
          [] RowAction(t, w) = "open"   -> Steps(g, Claiming(Job("open", t, w, w, rec))) /\ UNCHANGED active
          [] OTHER -> ToActive(g, "adopt", t, w, rec) /\ UNCHANGED active

ActivateTerminal(g, t) ==
    /\ Listed(row, t) /\ Begins(g)
    /\ Route(g, t, row[t])
    /\ UNCHANGED <<server, view, memory, saves, told>>

KillTerminal(g, t) ==
    /\ Listed(row, t) /\ Begins(g)
    /\ \E w \in Owners(t, row[t].tag) :
        LET job == Job("kill", t, w, w, row[t])
        IN  Steps(g, IF InShell(w) THEN [job EXCEPT !.at = "kill"] ELSE job)
    /\ UNCHANGED <<server, stage, memory, saves, told>>

DetachTerminal(g, t) ==
    /\ Listed(row, t) /\ Begins(g)
    /\ \E w \in Attached(t) : Steps(g, Job("detach", t, w, w, row[t]))
    /\ UNCHANGED <<server, stage, memory, saves, told>>

MoveTerminalHere(g, t) ==
    /\ Listed(row, t) /\ Begins(g)
    /\ \E from \in Owners(t, row[t].tag) : ToActive(g, "move", t, from, row[t])
    /\ UNCHANGED <<server, stage, memory, saves, told>>

\* What the menu of a row offers is settled when it opens, from the group the row is
\* in (none in one flat list) and the state it shows; what it does reads the row again.
RowMenu(t) ==
    /\ Listed(row, t)
    /\ \E group \in Owners(t, row[t].tag) \cup {None} :
        menu' = [t |-> t, rows |->
            {"open"}
            \cup {r \in {"move"} : active \notin {None, group} /\ row[t].state = "alive"}
            \cup {r \in {"detach"} : Attached(t) # {}}
            \cup {r \in {"kill"} : row[t].state = "alive"}]
    /\ UNCHANGED <<server, stage, memory, saves, row, answer, hidden, question, gesture, told, bounds>>

\* The kill button, Delete and the menu ask first.
KillConfirm(t) ==
    /\ Listed(row, t) /\ row[t].state = "alive"
    /\ question' = t /\ menu' = None
    /\ UNCHANGED <<server, stage, memory, saves, row, answer, hidden, gesture, told, bounds>>

\* A click opens the row's terminal, its button detaches it.
PressRow(g, t) ==
    /\ ActivateTerminal(g, t) \/ DetachTerminal(g, t)
    /\ menu' = None /\ UNCHANGED <<row, answer, hidden, question>>

PickRow(g) ==
    /\ menu # None /\ menu' = None
    /\ \/ "open" \in menu.rows /\ ActivateTerminal(g, menu.t)
       \/ "move" \in menu.rows /\ MoveTerminalHere(g, menu.t)
       \/ "detach" \in menu.rows /\ DetachTerminal(g, menu.t)
    /\ UNCHANGED <<row, answer, hidden, question>>
PickKill == menu # None /\ "kill" \in menu.rows /\ KillConfirm(menu.t)

\* The question is answered by the row as it is now.
ConfirmKill(g) ==
    /\ question # None /\ question' = None
    /\ KillTerminal(g, question)
    /\ UNCHANGED <<row, answer, hidden, menu>>

KillAllSessions(g) ==
    /\ Begins(g) /\ Steps(g, [at |-> "killall", doc |-> None])
    /\ UNCHANGED <<server, stage, memory, saves, sidebar, told>>

\* The focused terminal's folder becomes workspace v, which no view holds.
CreateWorkspaceHere(g, w, v, t) ==
    /\ view[w] = "ready" /\ w \in Attached(t) /\ v \in Named \ {w} /\ ~Open(v) /\ Begins(g)
    /\ Steps(g, [at |-> "write", doc |-> w, t |-> t, w |-> w, v |-> v, saved |-> file[v]])
    /\ UNCHANGED <<server, stage, memory, saves, sidebar, told>>

-----------------------------------------------------------------------------
(* The steps after an await.                                                *)

\* views.open: an open view is focused, another is claimed and starts booting.
Claims(g) ==
    /\ gesture[g].at = "claim" /\ NoneCloses
    /\ LET w == gesture[g].w
       IN  /\ Open(w) \/ MayOpen(w)
           /\ active' = w
           /\ view' = [view EXCEPT ![w] = IF Open(w) THEN @ ELSE "booting"]
           /\ Steps(g, [gesture[g] EXCEPT !.at = "app"])
    /\ UNCHANGED <<server, memory, saves, sidebar, told, bounds>>

\* attachSession: a terminal tagged with another workspace is refused.
Attaches(w, t, itsTag) ==
    IF itsTag \in {None, w}
    THEN /\ panes' = [panes EXCEPT ![w][t] = @ + 1]
         /\ own' = [own EXCEPT ![w] = @ \cup {t}]
         /\ Schedule(w) /\ UNCHANGED <<flight, kept>>
    ELSE UNCHANGED <<memory, saves>>

InDocument(job, at) == [job EXCEPT !.at = at, !.doc = job.w]

\* The view takes too long to boot (READY_TIMEOUT_MS): a kill falls back to the
\* shell, anything else ends.
NoApp(g) ==
    /\ gesture[g].at = "app" /\ view[gesture[g].w] = "booting"
    /\ Steps(g, IF gesture[g].kind = "kill" THEN [gesture[g] EXCEPT !.at = "kill"] ELSE Idle)
    /\ UNCHANGED <<server, stage, memory, saves, sidebar, told, bounds>>

AttachIn(g) ==
    LET job == gesture[g] IN
    /\ job.at = "app" /\ job.kind \in {"attach", "open", "adopt"} /\ HasApp(job.w)
    /\ \/ /\ job.kind = "open" /\ job.w \in Attached(job.t)
          /\ active' = job.w /\ Steps(g, Idle) /\ UNCHANGED <<memory, saves>>
       \/ /\ job.kind = "adopt" /\ job.from # None /\ job.rec.state = "alive"
          /\ Steps(g, InDocument(job, "fresh")) /\ UNCHANGED <<active, memory, saves>>
       \/ /\ ~(job.kind = "open" /\ job.w \in Attached(job.t))
          /\ ~(job.kind = "adopt" /\ job.from # None /\ job.rec.state = "alive")
          /\ Attaches(job.w, job.t, job.rec.tag) /\ Steps(g, Idle) /\ UNCHANGED active
    /\ UNCHANGED <<server, view, sidebar, told, bounds>>

ReachesApp(g) ==
    LET job == gesture[g] IN
    /\ job.at = "app" /\ job.kind \in {"kill", "detach"} /\ HasApp(job.w)
    /\ Steps(g, InDocument(job, IF job.kind = "kill" THEN "kill" ELSE "retain"))
    /\ UNCHANGED <<server, stage, memory, saves, sidebar, told, bounds>>

\* moveTerminalHere: the view that has it lets go first.
MoveReady(g) ==
    LET job == gesture[g] IN
    /\ job.at = "app" /\ job.kind = "move" /\ HasApp(job.w)
    /\ IF job.from = job.w THEN Route(g, job.t, job.rec)
       ELSE IF InShell(job.from)
       THEN active' = job.w /\ Steps(g, InDocument(job, "fresh"))
       ELSE UNCHANGED active /\ Steps(g, [job EXCEPT !.at = "letgo"])
    /\ UNCHANGED <<server, view, memory, saves, sidebar, told, bounds>>

LetsGo(g) ==
    LET job == gesture[g] IN
    /\ job.at = "letgo"
    /\ \/ HasApp(job.from) /\ Steps(g, [job EXCEPT !.at = "retain", !.doc = job.from])
       \/ ~HasApp(job.from) /\ Steps(g, [InDocument(job, "fresh") EXCEPT !.from = None])
    /\ UNCHANGED <<server, stage, memory, saves, sidebar, told, bounds>>

\* detachSessionById: retained, its pane closed; a move also forgets and saves.
Retained(g) ==
    LET job == gesture[g] IN
    /\ job.at = "retain"
    /\ ClosesPane(job.doc, job.t)
    /\ IF job.kind = "move"
       THEN /\ Forgets(job.doc, {job.t})
            /\ Persist(g, job.doc, (own[job.doc] \cup (Shown(job.doc) \ {x \in {job.t} : panes[job.doc][x] = 1}))
                                    \ {x \in {job.t} : panes[job.doc][x] <= 1},
                       [InDocument(job, "fresh") EXCEPT !.from = None])
       ELSE Schedule(job.doc) /\ Steps(g, Idle) /\ UNCHANGED <<own, flight, kept>>
    /\ UNCHANGED <<server, stage, sidebar, told, bounds>>

\* An edit of saved files: each of (todo) is read, then written without (ids).
Edit(job, ids, todo, then) ==
    [at |-> "edit", doc |-> job.doc, t |-> job.t, w |-> job.w, ids |-> ids, todo |-> todo,
     got |-> [w \in Workspaces |-> None], tried |-> {}, then |-> then]

Takes(g, w, t) ==
    /\ own' = [own EXCEPT ![w] = @ \cup {t}]
    /\ Persist(g, w, Owned(w) \cup {t}, [at |-> "attach", doc |-> w, t |-> t, w |-> w])

\* moveSessionHere, after its own list of the terminals.
Fresh(g) ==
    LET job == gesture[g]
        elsewhere == job.from # None /\ job.from # job.w
    IN
    /\ job.at = "fresh"
    /\ IF elsewhere
       THEN /\ Steps(g, Edit(job, {job.t}, {job.from},
                             IF proc[job.t] = "alive" THEN "take" ELSE "forget"))
            /\ UNCHANGED <<own, saves>>
       ELSE IF proc[job.t] = "alive" THEN Takes(g, job.w, job.t)
       ELSE /\ Forgets(job.w, {job.t})
            /\ IF job.from = job.w THEN Persist(g, job.w, Owned(job.w) \ {job.t}, Idle)
               ELSE Steps(g, Idle) /\ UNCHANGED saves
    /\ UNCHANGED <<server, stage, panes, sidebar, told, bounds>>

AttachesMoved(g) ==
    LET job == gesture[g] IN
    /\ job.at = "attach" /\ Attaches(job.w, job.t, job.w) /\ Steps(g, Idle)
    /\ UNCHANGED <<server, stage, sidebar, told, bounds>>

\* The kill is verified; in a view, the view then drops the terminal from its
\* memory, else every saved workspace is edited.
Stops(g) ==
    LET job == gesture[g] IN
    /\ job.at = "kill"
    /\ proc' = Stopped({job.t})
    /\ Steps(g, IF job.doc = None THEN Edit(job, {job.t}, Workspaces, "killed")
                ELSE [job EXCEPT !.at = "killed"])
    /\ UNCHANGED <<tag, file, stage, memory, saves, sidebar, told, bounds>>

KilledIn(g) ==
    LET job == gesture[g] IN
    /\ job.at = "killed"
    /\ Forgets(job.w, {job.t}) /\ ClosesPane(job.w, job.t)
    /\ Schedule(job.w) /\ UNCHANGED <<flight, kept>>
    /\ Forgotten({job.t})
    /\ verified' = verified \cup {job.t}
    /\ Steps(g, Idle)
    /\ UNCHANGED <<server, stage, banner, bounds>>

\* Kill all: only what the backend verified as stopped leaves the views.
StopsAll(g) ==
    /\ gesture[g].at = "killall"
    /\ \E ids \in SUBSET {t \in Terminals : proc[t] = "alive"} :
        /\ proc' = Stopped(ids)
        /\ IF ids = {} THEN Steps(g, Idle) /\ UNCHANGED sidebar
           ELSE /\ Steps(g, [at |-> "drop", doc |-> None, t |-> None, w |-> None, ids |-> ids,
                             todo |-> {w \in Workspaces : Open(w)}])
                /\ Forgotten(ids)
    /\ UNCHANGED <<tag, file, stage, memory, saves, told, bounds>>

\* dropKilledSessions in each view, once it has an app.
Drops(g, w) ==
    LET job == gesture[g] IN
    /\ job.at = "drop" /\ w \in job.todo
    /\ Steps(g, [job EXCEPT !.todo = @ \ {w}])
    /\ \/ /\ HasApp(w) /\ Forgets(w, job.ids)
          /\ panes' = [panes EXCEPT ![w] = [t \in Terminals |-> IF t \in job.ids THEN 0 ELSE @[t]]]
          /\ Schedule(w) /\ UNCHANGED <<flight, kept>>
       \/ ~HasApp(w) /\ UNCHANGED <<memory, saves>>
    /\ UNCHANGED <<server, stage, sidebar, told, bounds>>

Dropped(g) ==
    /\ gesture[g].at = "drop" /\ gesture[g].todo = {}
    /\ Steps(g, Edit(gesture[g], gesture[g].ids, Workspaces, "killed"))
    /\ UNCHANGED <<server, stage, memory, saves, sidebar, told, bounds>>

\* editSavedWorkspace: a file that lists none of them is right as it is.
EditReads(g, w) ==
    LET job == gesture[g] IN
    /\ job.at = "edit" /\ w \in job.todo /\ job.got[w] = None
    /\ Steps(g, IF file[w] \cap job.ids = {} THEN [job EXCEPT !.todo = @ \ {w}]
                ELSE [job EXCEPT !.got[w] = file[w]])
    /\ UNCHANGED <<server, stage, memory, saves, sidebar, told, bounds>>

EditWrites(g, w) ==
    LET job == gesture[g] IN
    /\ job.at = "edit" /\ w \in job.todo /\ job.got[w] # None
    /\ Put(w, job.got[w] \ job.ids)
    /\ Steps(g, [job EXCEPT !.todo = @ \ {w}])
    /\ UNCHANGED <<proc, stage, memory, saves, sidebar, told, bounds>>

\* After a kill a failed edit is retried once, then said in a banner.
EditFails(g, w) ==
    LET job == gesture[g] IN
    /\ job.at = "edit" /\ w \in job.todo /\ failed < MaxFails /\ failed' = failed + 1
    /\ IF job.then = "killed" /\ w \notin job.tried
       THEN Steps(g, [job EXCEPT !.got[w] = None, !.tried = @ \cup {w}]) /\ UNCHANGED banner
       ELSE /\ Steps(g, [job EXCEPT !.todo = @ \ {w}])
            /\ banner' = IF job.then = "killed" THEN banner \cup job.ids ELSE banner
    /\ UNCHANGED <<server, stage, memory, saves, sidebar, verified, begun, moved>>

Edited(g) ==
    LET job == gesture[g] IN
    /\ job.at = "edit" /\ job.todo = {}
    /\ CASE job.then = "killed" -> /\ verified' = verified \cup job.ids /\ Forgotten(job.ids)
                                   /\ Steps(g, Idle) /\ UNCHANGED <<own, saves>>
         [] job.then = "take"   -> Takes(g, job.w, job.t) /\ UNCHANGED <<verified, sidebar>>
         [] job.then = "forget" -> /\ Forgets(job.w, {job.t}) /\ Steps(g, Idle)
                                   /\ UNCHANGED <<saves, verified, sidebar>>
    /\ UNCHANGED <<server, stage, panes, banner, bounds>>

\* createWorkspaceHere: the terminal is written into the other file, then
\* retained and dropped here, then the other view opens.
HereWritten(g) ==
    LET job == gesture[g] IN
    /\ job.at = "write"
    /\ Put(job.v, job.saved \cup {job.t})
    /\ Steps(g, [job EXCEPT !.at = "carried"])
    /\ UNCHANGED <<proc, stage, memory, saves, sidebar, told, bounds>>

HereCarried(g) ==
    LET job == gesture[g] IN
    /\ job.at = "carried"
    /\ Forgets(job.w, {job.t}) /\ ClosesPane(job.w, job.t)
    /\ Schedule(job.w) /\ UNCHANGED <<flight, kept>>
    /\ Steps(g, Claiming(Job("view", job.t, job.v, None, row[job.t])))
    /\ UNCHANGED <<server, stage, sidebar, told, bounds>>

\* The retain fails: the terminal stays here, although the other file lists it by now.
HereNotCarried(g) ==
    /\ gesture[g].at = "carried" /\ failed < MaxFails /\ failed' = failed + 1
    /\ Steps(g, Idle)
    /\ UNCHANGED <<server, stage, memory, saves, sidebar, told, begun, moved>>

HereOpened(g) ==
    /\ gesture[g].at = "app" /\ gesture[g].kind = "view" /\ HasApp(gesture[g].w)
    /\ Steps(g, Idle)
    /\ UNCHANGED <<server, stage, memory, saves, sidebar, told, bounds>>

\* A kill or a retain that failed is thrown to the confirmation.
Fails(g) ==
    /\ gesture[g].at \in {"kill", "retain", "write"} /\ failed < MaxFails /\ failed' = failed + 1
    /\ Steps(g, Idle)
    /\ UNCHANGED <<server, stage, memory, saves, sidebar, told, begun, moved>>

-----------------------------------------------------------------------------
(* At the start one view shows the terminals of its file; the other files'  *)
(* terminals run in the background.                                         *)

Init ==
    /\ proc = [t \in Terminals |-> "alive"]
    /\ \E shown \in Workspaces \cup {None}, ids \in [Terminals -> Workspaces \cup {None}] :
        /\ tag = ids
        /\ file = [w \in Workspaces |-> {t \in Terminals : ids[t] = w}]
        /\ active = shown
        /\ view = [w \in Workspaces |-> IF w = shown THEN "ready"
                                        ELSE IF w \in Named \/ file[w] # {} THEN "closed" ELSE "fresh"]
        /\ own = [w \in Workspaces |-> IF w = shown THEN file[w] ELSE {}]
        /\ panes = [w \in Workspaces |->
                      [t \in Terminals |-> IF w = shown /\ t \in file[w] THEN 1 ELSE 0]]
        /\ row = [t \in Terminals |-> [state |-> "alive", tag |-> ids[t]]]
    /\ due = [w \in Workspaces |-> FALSE]
    /\ flight = [w \in Workspaces |-> None]
    /\ kept = [w \in Workspaces |-> {}]
    /\ answer = None /\ hidden = {} /\ menu = None /\ question = None /\ verified = {} /\ banner = {}
    /\ gesture = [g \in Gestures |-> Idle]
    /\ begun = 0 /\ moved = 0 /\ failed = 0

ViewStep(w) ==
    \/ SaveStarts(w) \/ SaveLands(w) \/ SaveFails(w)
    \/ OpenView(w) \/ Boot(w) \/ CloseStarts(w) \/ CloseEnds(w) \/ CloseFails(w)

RowGesture(g, t) ==
    \/ PressRow(g, t)
    \/ \E w, v \in Workspaces : CreateWorkspaceHere(g, w, v, t)

GestureStep(g) ==
    \/ Claims(g) \/ NoApp(g) \/ AttachIn(g) \/ ReachesApp(g) \/ MoveReady(g) \/ LetsGo(g)
    \/ Retained(g) \/ Fresh(g) \/ AttachesMoved(g) \/ Stops(g) \/ KilledIn(g) \/ StopsAll(g)
    \/ \E w \in Workspaces : Drops(g, w) \/ EditReads(g, w) \/ EditWrites(g, w) \/ EditFails(g, w)
    \/ Dropped(g) \/ Edited(g) \/ HereWritten(g) \/ HereCarried(g) \/ HereNotCarried(g)
    \/ HereOpened(g) \/ Fails(g)

Settled ==
    /\ \A g \in Gestures : gesture[g] = Idle
    /\ \A w \in Workspaces : ~due[w] /\ flight[w] = None /\ view[w] \in {"fresh", "closed", "ready"}

\* Everything that was asked is done.
Rests == Settled /\ UNCHANGED vars

\* A gesture that waits for an app that is there goes on in the same task.
Resumes(g) ==
    \/ gesture[g].at = "app" /\ HasApp(gesture[g].w)
    \/ gesture[g].at = "letgo" /\ HasApp(gesture[g].from)

Otherwise ==
    \/ \E w \in Workspaces : ViewStep(w)
    \/ \E t \in Terminals : Exits(t) \/ Reaped(t)
    \/ PollAsks \/ PollArrives
    \/ \E g \in Gestures : (\E t \in Terminals : RowGesture(g, t)) \/ PickRow(g) \/ ConfirmKill(g) \/ KillAllSessions(g)
    \/ PickKill \/ \E t \in Terminals : RowMenu(t) \/ KillConfirm(t)
    \/ Rests

Next ==
    \/ \E g \in Gestures : /\ Resumes(g) \/ \A other \in Gestures : ~Resumes(other)
                         /\ GestureStep(g)
    \/ (\A g \in Gestures : ~Resumes(g)) /\ Otherwise

Spec == Init /\ [][Next]_vars

-----------------------------------------------------------------------------

\* Verified kills leave every view of this window, so that no autosave writes
\* them back (shell_routing.js:138-141): once nothing is under way, a killed
\* terminal is in no view's memory and in no saved workspace, unless a banner
\* has said that a file may still list it.
KilledLeavesEveryFile ==
    Settled => \A t \in verified \ banner, w \in Workspaces : t \notin file[w] \cup Owned(w)

=============================================================================
