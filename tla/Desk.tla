-------------------------------- MODULE Desk --------------------------------
(***************************************************************************)
(* The terminals of one view (pane.js, spawner.js, pane_commands.js,         *)
(* scratch.js, terminal_actions.js, startup_runner.js and what main.js does   *)
(* when a view opens): every pane's state and the one bar it shows, the       *)
(* requests to the backend that are answered later, and the set of terminals  *)
(* the workspace owns.  A pane is a record; each method of Pane that only     *)
(* changes the pane is an operator on records.  Where a pane lies on the page *)
(* is the business of Layout; here only whether it is open and focused.       *)
(***************************************************************************)
EXTENDS Naturals, Sequences, FiniteSets

CONSTANTS
    Panes,      \* the Pane objects
    Sessions,   \* the terminals the backend can start
    Elsewhere,  \* a terminal that already runs, in the background
    None,
    MaxJobs,    \* bound: requests in flight at once
    MaxCommands \* bound: what the user does in one behaviour

ASSUME DeskAssumption ==
    /\ Elsewhere \in Sessions
    /\ None \notin Panes \cup Sessions
    /\ MaxJobs \in Nat \ {0} /\ MaxCommands \in Nat

VARIABLES
    pane,       \* the panes
    focused,    \* layout.focused
    jobs,       \* the requests that are not answered yet
    queue,      \* restoreWorkspace: the panes it still has to fill, and then to focus
    alive,      \* the terminals that run
    unborn,     \* the terminals not started yet
    retained,   \* the terminals the backend was asked to keep
    current,    \* state.currentWorkspace: "none", "scratch" or "named"
    wsIds,      \* state.workspaceSessionIds
    scratchIds, \* state.scratchSessionIds
    onDisk,     \* the scratch file exists
    commands    \* how many commands the user gave

backend == <<alive, unborn, retained>>
owners  == <<current, wsIds, scratchIds, onDisk>>
vars    == <<pane, focused, jobs, queue, backend, owners, commands>>

-----------------------------------------------------------------------------
(* One pane. *)

Fresh ==
    [open |-> TRUE, state |-> "empty", session |-> None, wasExited |-> FALSE, known |-> FALSE,
     keep |-> FALSE, confirm |-> None, recovery |-> FALSE, bar |-> "none", timer |-> FALSE,
     line |-> "down", wrote |-> FALSE]
Absent == [Fresh EXCEPT !.open = FALSE]

Pending(r) == r.state = "spawning"
\* Fault: a pane whose terminal is on its way is taken for an empty one.
ReplaceAlways(r) == r.state \in {"empty", "exited", "spawning"}
CanReplace(r) == r.state \in {"empty", "exited"}
CanRestart(r) == r.state \in {"exited", "missing"} /\ r.known
CanSend(r) == r.line = "live" /\ r.state = "attached"

CancelConfirmation(r) ==
    IF r.confirm = None THEN r
    ELSE [r EXCEPT !.confirm = None, !.bar = IF r.state = "exited" THEN "exit" ELSE "none"]

ClearRecovery(r) == IF r.recovery THEN [r EXCEPT !.recovery = FALSE, !.bar = "none"] ELSE r

ShowNotice(r) == [ClearRecovery(CancelConfirmation(r)) EXCEPT !.bar = "notice"]

\* What a closed pane says is on no page.
FlashNotice(r) == IF r.recovery \/ (~ r.open /\ r.confirm = None) THEN r ELSE [ShowNotice(r) EXCEPT !.timer = TRUE]

RenderRecovery(r) ==
    [r EXCEPT !.session = None, !.state = "missing", !.line = "down", !.timer = FALSE,
              !.recovery = TRUE, !.bar = "recovery"]

\* confirmAction: an earlier confirmation is dropped, the notice timer stopped.
ConfirmAction(r, label, of) ==
    [CancelConfirmation(r) EXCEPT !.timer = FALSE, !.bar = "confirm",
                                  !.confirm = [label |-> label, of |-> of, busy |-> FALSE]]

BeginSpawn(r) ==
    LET s == [ClearRecovery(r) EXCEPT !.wasExited = (r.state = "exited"), !.state = "spawning"]
    IN  IF r.keep THEN ShowNotice(s) ELSE s

EndSpawn(r) ==
    [r EXCEPT !.keep = FALSE,
              !.state = IF @ # "spawning" THEN @ ELSE IF r.wasExited THEN "exited" ELSE "empty"]

SpawnFailed(r) == ShowNotice(EndSpawn(r))

\* Fault: the bar is left as it is.
ConnectQuietly(r) == [r EXCEPT !.line = "replay"]
\* _connect: stdin is off and the bar says so until the replay is in.
Connect(r) == [ShowNotice(r) EXCEPT !.line = "replay"]

Attach(r, s, known) ==
    IF ~ r.open THEN r
    ELSE Connect([ClearRecovery(EndSpawn(r)) EXCEPT
             !.session = s, !.state = "attached", !.known = known, !.wasExited = FALSE, !.bar = "none"])

\* dispose: the pane keeps what it showed; the restore may give it the keyboard yet.
Disposed(r) == [CancelConfirmation(r) EXCEPT !.open = FALSE, !.line = "down", !.timer = FALSE]

GoLive(r) == [r EXCEPT !.line = "live", !.bar = "none"]

OnExit(r) == [ShowNotice([r EXCEPT !.state = "exited", !.line = "down"]) EXCEPT !.bar = "exit"]

ScheduleReconnect(r) == [ShowNotice(r) EXCEPT !.line = "down"]

NoticeEnds(r) ==
    [r EXCEPT !.timer = FALSE,
              !.bar = IF r.confirm # None \/ r.recovery THEN @
                      ELSE IF r.state = "exited" THEN "exit" ELSE "none"]

-----------------------------------------------------------------------------
(* The layout and the owners, as far as the commands need them. *)

Open == {p \in Panes : pane[p].open}
Queued == {queue[i] : i \in DOMAIN queue}
Free == Panes \ (Open \cup {focused} \cup {j.pane : j \in jobs} \cup {due[2] : due \in Queued})
Showing(s) == {p \in Open : pane[p].session = s}

\* Fault: the confirmation of the pane that loses the keyboard stays armed.
UnfocusedArmed(f, q) == f
\* setFocused(false) drops the confirmation of the pane that loses the keyboard.
Unfocused(f, q) == IF q = focused THEN f ELSE [f EXCEPT ![focused] = CancelConfirmation(@)]

\* layout.closePane: another pane takes the keyboard, a fresh one when there is none.
\* A closed pane that nothing refers to any more is as good as a new one.
After(p) == IF Open = {p} THEN Free ELSE Open \ {p}
Closed(p, q) ==
    /\ pane' = [Unfocused(pane, q) EXCEPT
                  ![p] = IF <<"focus", p>> \in Queued THEN Disposed(@) ELSE Absent,
                  ![q] = IF Open = {p} THEN Fresh ELSE @]
    /\ focused' = q

\* The pane a new terminal goes to: the focused one, else one split off it, unless it
\* is closed and not in the tree.
Target(p) ==
    IF CanReplace(pane[focused]) THEN p = focused ELSE focused \in Open /\ p \in Free
Placed(p) == [Unfocused(pane, p) EXCEPT ![p] = IF p = focused THEN @ ELSE Fresh]

OwnSession(s) ==
    /\ wsIds' = IF current = "none" THEN wsIds ELSE wsIds \cup {s}
    /\ scratchIds' = IF current = "none" THEN scratchIds \cup {s} ELSE scratchIds
    /\ UNCHANGED <<current, onDisk>>
ForgetSession(s) ==
    /\ wsIds' = wsIds \ {s} /\ scratchIds' = scratchIds \ {s}
    /\ UNCHANGED <<current, onDisk>>
Attached == {pane[p].session : p \in {q \in Open : pane[q].state = "attached"}}

Job(kind, p, s, stage) ==
    [kind |-> kind, pane |-> p, session |-> s, stage |-> stage, known |-> FALSE, back |-> FALSE]
Of(kind) == {j \in jobs : j.kind = kind}
Ask(j) == Cardinality(jobs) < MaxJobs /\ jobs' = jobs \cup {j}
\* state.transitioning, while the view opens.
Restoring == \E j \in Of("spawn") : j.stage = "restore"
Booting == queue # << >> \/ Restoring
Answered(j) == jobs' = jobs \ {j}
Onward(j, stage) == jobs' = (jobs \ {j}) \cup {[j EXCEPT !.stage = stage]}

-----------------------------------------------------------------------------
(* Starting terminals (spawner.js, startup_runner.js, launch_loop.js). *)

SpawnJob(p, known, back, stage) ==
    [Job("spawn", p, None, stage) EXCEPT !.known = known, !.back = back]

\* spawnInto and its siblings: nothing happens in a pane that is already starting.
Spawn(f, p, known, back, stage) ==
    IF Pending(f[p]) THEN pane' = f /\ UNCHANGED jobs
    ELSE /\ pane' = [f EXCEPT ![p] = BeginSpawn(@)]
         /\ Ask(SpawnJob(p, known, back, stage))

Fill(known) ==
    \E p \in Panes :
        /\ Target(p)
        /\ Spawn(Placed(p), p, known, FALSE, "asked")
        /\ focused' = p
        /\ UNCHANGED <<queue, backend, owners>>

RunProfile        == Fill(TRUE)
RunWithOptions    == Fill(TRUE)
RunSystemTerminal == Fill(TRUE)
NewTerminal       == \E named \in BOOLEAN : Fill(named)
StartLaunch       == ~ Booting /\ \E profile \in BOOLEAN : Fill(profile)

\* splitH, splitV: always a new pane, with the configured shell.
SplitFocused ==
    \E p \in Free :
        /\ focused \in Open
        /\ Spawn(Placed(p), p, FALSE, FALSE, "asked")
        /\ focused' = p
        /\ UNCHANGED <<queue, backend, owners>>

\* A refused split says so on the pane and leaves it at that.
NoRoom ==
    /\ focused \in Open
    /\ pane' = [pane EXCEPT ![focused] = FlashNotice(@)]
    /\ UNCHANGED <<focused, jobs, queue, backend, owners>>

\* The answer to createSession.  A pane closed meanwhile shows nothing, and the
\* terminal is the workspace's all the same.
Spawned(j, s) ==
    /\ j.kind = "spawn" /\ s \in unborn
    /\ pane' = [pane EXCEPT ![j.pane] = Attach(@, s, j.known)]
    /\ unborn' = unborn \ {s} /\ alive' = alive \cup {s}
    /\ OwnSession(s)
    /\ Answered(j)
    /\ UNCHANGED <<focused, queue, retained>>

\* A failed start; one that the recovery bar began shows the bar again.
NotSpawned(j) ==
    /\ j.kind = "spawn"
    /\ pane' = [pane EXCEPT ![j.pane] =
                  IF ~ @.open /\ ~ Pending(@) THEN @
                  ELSE IF j.back THEN RenderRecovery(SpawnFailed(@)) ELSE SpawnFailed(@)]
    /\ Answered(j)
    /\ UNCHANGED <<focused, queue, backend, owners>>

\* attachSession, with a record of the sidebar that may be stale: the terminal
\* may have exited since.  One that was never started is in no list.
ShowSession(s) ==
    /\ \E p \in Panes :
        /\ Target(p)
        /\ pane' = [Placed(p) EXCEPT ![p] = Attach(@, s, FALSE)]
        /\ focused' = p
    /\ OwnSession(s)
AttachSession(s) ==
    /\ s \notin unborn
    /\ ShowSession(s)
    /\ UNCHANGED <<jobs, queue, backend>>

\* Enter, the exit bar and the palette: the same launch again in the same pane.
RestartTerminal(p) ==
    /\ CanRestart(pane[p]) /\ p \in Open \cup {focused}
    /\ Spawn([Unfocused(pane, p) EXCEPT ![p].keep = (pane[p].state = "exited")],
             p, TRUE, FALSE, "asked")
    /\ focused' = p
    /\ UNCHANGED <<queue, backend, owners>>

\* A button of the recovery bar; a pane that remembers no launch gets a plain shell.
Recover(p, agent) ==
    /\ p \in Open /\ pane[p].bar = "recovery"
    /\ agent => pane[p].known
    /\ Spawn(Unfocused(pane, p), p, pane[p].known, TRUE, "asked")
    /\ focused' = p
    /\ UNCHANGED <<queue, backend, owners>>

-----------------------------------------------------------------------------
(* What a terminal does by itself. *)

Replayed(p) ==
    /\ p \in Open /\ pane[p].line = "replay"
    /\ pane' = [pane EXCEPT ![p] = GoLive(@)]
    /\ UNCHANGED <<focused, jobs, queue, backend, owners>>

Dies(s) ==
    /\ s \in alive
    /\ alive' = alive \ {s}
    /\ UNCHANGED <<pane, focused, jobs, queue, unborn, retained, owners>>

Exits(p) ==
    /\ p \in Open /\ pane[p].state = "attached" /\ pane[p].session \notin alive
    /\ pane' = [pane EXCEPT ![p] = OnExit(@)]
    /\ UNCHANGED <<focused, jobs, queue, backend, owners>>

\* The socket closed and the terminal still runs: connect again later.
LineLost(p) ==
    /\ p \in Open /\ pane[p].state = "attached" /\ pane[p].line # "down"
    /\ pane[p].session \in alive
    /\ pane' = [pane EXCEPT ![p] = ScheduleReconnect(@)]
    /\ UNCHANGED <<focused, jobs, queue, backend, owners>>

Reconnect(p) ==
    /\ p \in Open /\ pane[p].state = "attached" /\ pane[p].line = "down"
    /\ pane' = [pane EXCEPT ![p] = Connect(@)]
    /\ UNCHANGED <<focused, jobs, queue, backend, owners>>

NoticeTimer(p) ==
    /\ p \in Open /\ pane[p].timer
    /\ pane' = [pane EXCEPT ![p] = NoticeEnds(@)]
    /\ UNCHANGED <<focused, jobs, queue, backend, owners>>

FocusPane(p) ==
    /\ p \in Open \ {focused}
    /\ pane' = Unfocused(pane, p)
    /\ focused' = p
    /\ UNCHANGED <<jobs, queue, backend, owners>>

-----------------------------------------------------------------------------
(* Closing and stopping terminals (pane_commands.js). *)

\* The ways a request about a terminal is answered: done, no such terminal any
\* more, or an error that says nothing.
Answers(s) == IF s \in alive THEN {"ok", "failed"} ELSE {"ok", "gone", "failed"}
Keep(answer, s) == retained' = IF answer = "ok" THEN retained \cup {s} ELSE retained

\* layout.closePane on a pane that is closed already does nothing.
CloseIfOpen(p) ==
    IF p \in Open THEN \E q \in After(p) : Closed(p, q) ELSE UNCHANGED <<pane, focused>>

\* Alt+D: at once when the pane has no terminal, else the terminal is retained first.
ClosePane ==
    /\ IF pane[focused].session = None
       THEN CloseIfOpen(focused) /\ UNCHANGED jobs
       ELSE Ask(Job("detach", focused, pane[focused].session, "retain")) /\ UNCHANGED <<pane, focused>>
    /\ UNCHANGED <<queue, backend, owners>>

Retained(j, answer) ==
    /\ j.kind = "detach" /\ j.stage = "retain" /\ answer \in Answers(j.session)
    /\ Keep(answer, j.session)
    /\ CASE answer = "failed" ->
              /\ pane' = [pane EXCEPT ![j.pane] = FlashNotice(@)]
              /\ Answered(j) /\ UNCHANGED <<focused, owners>>
         [] answer = "gone" ->
              CloseIfOpen(j.pane) /\ ForgetSession(j.session) /\ Answered(j)
         [] answer = "ok" /\ current # "none" ->
              CloseIfOpen(j.pane) /\ Answered(j) /\ UNCHANGED owners
         [] OTHER ->
              Onward(j, "list") /\ UNCHANGED <<pane, focused, owners>>
    /\ UNCHANGED <<queue, alive, unborn>>

\* Alt+W, the header button: the bar asks, and names the terminal.
KillFocusedSession ==
    /\ pane' = [pane EXCEPT ![focused] =
                  IF @.session = None THEN FlashNotice(@) ELSE ConfirmAction(@, "Kill", @.session)]
    /\ UNCHANGED <<focused, jobs, queue, backend, owners>>

\* The bar's button, or Alt+W again: the terminal is read from the pane now.
AcceptKill ==
    LET r == pane[focused] IN
    /\ r.confirm # None /\ r.confirm.label = "Kill" /\ ~ r.confirm.busy
    /\ pane' = [pane EXCEPT ![focused].confirm.busy = TRUE]
    /\ Ask(Job("kill", focused, r.session, "sent"))
    /\ UNCHANGED <<focused, queue, backend, owners>>

CancelBar ==
    /\ focused \in Open /\ pane[focused].confirm # None
    /\ pane' = [pane EXCEPT ![focused] = CancelConfirmation(@)]
    /\ UNCHANGED <<focused, jobs, queue, backend, owners>>

\* A failed kill turns the bar's button into Retry, if that bar is still there.
Killed(j, answer) ==
    /\ j.kind = "kill" /\ answer \in Answers(j.session)
    /\ IF answer = "failed"
       THEN /\ pane' = [pane EXCEPT ![j.pane].confirm =
                          IF @ = None \/ ~ pane[j.pane].open THEN @ ELSE [@ EXCEPT !.busy = FALSE]]
            /\ UNCHANGED <<focused, alive, owners>>
       ELSE /\ alive' = alive \ {j.session}
            /\ ForgetSession(j.session)
            /\ CloseIfOpen(j.pane)
    /\ Answered(j)
    /\ UNCHANGED <<queue, unborn, retained>>

\* The sidebar's kill and detach: the pane that shows the terminal is looked up
\* when the answer is in.
KillSessionById(s) ==
    /\ s \notin unborn /\ Ask(Job("drop", None, s, "kill"))
    /\ UNCHANGED <<pane, focused, queue, backend, owners>>
DetachSessionById(s) ==
    /\ s \notin unborn /\ \E stage \in {"keep", "forget"} : Ask(Job("drop", None, s, stage))
    /\ UNCHANGED <<pane, focused, queue, backend, owners>>

Dropped(j, answer) ==
    /\ j.kind = "drop" /\ answer \in Answers(j.session)
    /\ IF answer = "failed" THEN UNCHANGED <<pane, focused, owners, alive, retained>>
       ELSE /\ alive' = IF j.stage = "kill" THEN alive \ {j.session} ELSE alive
            /\ IF j.stage = "kill" THEN UNCHANGED retained ELSE Keep(answer, j.session)
            /\ IF j.stage = "keep" THEN UNCHANGED owners ELSE ForgetSession(j.session)
            /\ IF Showing(j.session) = {} THEN UNCHANGED <<pane, focused>>
               ELSE \E p \in Showing(j.session) : CloseIfOpen(p)
    /\ Answered(j)
    /\ UNCHANGED <<queue, unborn>>

\* sendSnippet: several lines are confirmed first; what is sent counts as typed.
Wrote(r) == IF CanSend(r) THEN [FlashNotice(r) EXCEPT !.wrote = (current = "none")] ELSE CancelConfirmation(r)
SendSnippet ==
    /\ \/ pane' = [pane EXCEPT ![focused] = ConfirmAction(@, "Run", None)]
       \/ CanSend(pane[focused]) /\ pane' = [pane EXCEPT ![focused] = Wrote(@)]
    /\ UNCHANGED <<focused, jobs, queue, backend, owners>>
AcceptRun ==
    /\ focused \in Open /\ pane[focused].confirm # None /\ pane[focused].confirm.label = "Run"
    /\ pane' = [pane EXCEPT ![focused] = Wrote(@)]
    /\ UNCHANGED <<focused, jobs, queue, backend, owners>>

Types ==
    /\ current = "none" /\ CanSend(pane[focused]) /\ pane[focused].confirm = None
    /\ pane' = [pane EXCEPT ![focused].wrote = TRUE]
    /\ UNCHANGED <<focused, jobs, queue, backend, owners>>

-----------------------------------------------------------------------------
(* Scratch becomes a workspace (scratch.js), and a terminal moves in. *)

\* maybeAdoptScratch, on a state change of a pane the user wrote in; one at a time.
MaybeAdoptScratch ==
    /\ current = "none" /\ ~ Booting
    /\ \E p \in Open : pane[p].wrote
    /\ Of("typed") = {}
    /\ Ask(Job("typed", None, None, "list"))
    /\ UNCHANGED <<pane, focused, queue, backend, owners>>

\* What comes after ensureScratchWorkspace: the pane closes, the moved terminal is
\* shown.  Only a detached terminal leaves the disposable set when it failed.
Ensured(j, adopted) ==
    CASE j.kind = "detach" -> CloseIfOpen(j.pane) /\ Answered(j)
      [] j.kind = "move" /\ adopted -> Onward(j, "attach") /\ UNCHANGED <<pane, focused>>
      [] OTHER -> Answered(j) /\ UNCHANGED <<pane, focused>>
NotEnsured(j) ==
    /\ Ensured(j, FALSE)
    /\ scratchIds' = IF j.kind = "detach" THEN scratchIds \ {j.session} ELSE scratchIds
    /\ UNCHANGED <<current, wsIds, onDisk>>

ListsNames(j) ==
    /\ j.stage = "list"
    /\ IF onDisk THEN NotEnsured(j)
       ELSE Onward(j, "claim") /\ UNCHANGED <<pane, focused, owners>>
    /\ UNCHANGED <<queue, backend>>

ClaimRefused(j) ==
    /\ j.stage = "claim"
    /\ NotEnsured(j)
    /\ UNCHANGED <<queue, backend>>

\* The claim is granted, and nothing is looked at again before the switch.
Adopts(j) ==
    /\ j.stage = "claim"
    /\ Ensured(j, TRUE)
    /\ current' = "scratch"
    /\ wsIds' = scratchIds \cup Attached
    /\ scratchIds' = {}
    /\ UNCHANGED <<queue, backend, onDisk>>

\* The first save under the new name.
Saved ==
    /\ current = "scratch" /\ ~ onDisk
    /\ onDisk' = TRUE
    /\ UNCHANGED <<pane, focused, jobs, queue, backend, current, wsIds, scratchIds>>

\* moveSessionHere: looked up first, then owned and shown.
MoveSessionHere(s) ==
    /\ s \notin unborn /\ Ask(Job("move", None, s, "look"))
    /\ UNCHANGED <<pane, focused, queue, backend, owners>>
Moves(j) ==
    /\ j.kind = "move" /\ j.stage = "look"
    /\ IF j.session \notin alive THEN ForgetSession(j.session) /\ Answered(j)
       ELSE Onward(j, IF current = "none" THEN "list" ELSE "attach") /\ UNCHANGED owners
    /\ UNCHANGED <<pane, focused, queue, backend>>
MovedHere(j) ==
    /\ j.kind = "move" /\ j.stage = "attach"
    /\ ShowSession(j.session)
    /\ Answered(j)
    /\ UNCHANGED <<queue, backend>>

-----------------------------------------------------------------------------
(* The view opens (main.js, workspace_switch.js restoreWorkspace). *)

\* Two saved panes: a terminal that still runs, one that is gone, or one to start.
Restored(fate) ==
    CASE fate = "live" -> Attach(Fresh, Elsewhere, FALSE)
      [] fate = "gone" -> RenderRecovery(Fresh)
      [] fate = "gone agent" -> RenderRecovery([Fresh EXCEPT !.known = TRUE])
      [] fate = "start" -> Fresh

Init ==
    /\ jobs = {} /\ scratchIds = {} /\ onDisk = FALSE /\ retained = {} /\ commands = 0
    /\ alive = {Elsewhere} /\ unborn = Sessions \ {Elsewhere}
    /\ \E first, second \in Panes :
        /\ first # second /\ focused = first
        /\ \/ \E a \in {"live", "start"}, b \in {"gone", "gone agent", "start"} :
                /\ pane = [p \in Panes |-> IF p = first THEN Restored(a)
                                           ELSE IF p = second THEN Restored(b) ELSE Absent]
                /\ queue = IF "start" \notin {a, b} THEN << >>
                           ELSE (IF a = "start" THEN <<<<"fill", first>>>> ELSE << >>)
                             \o (IF b = "start" THEN <<<<"fill", second>>>> ELSE << >>)
                             \o <<<<"focus", first>>>>
                /\ current = "named"
                /\ wsIds = IF a = "live" THEN {Elsewhere} ELSE {}
           \/ /\ pane = [p \in Panes |-> IF p = first THEN Fresh ELSE Absent]
              /\ \/ current \in {"none", "named"} /\ queue = <<<<"fill", first>>, <<"focus", first>>>>
                 \/ current = "none" /\ queue = <<<<"fill", first>>>>
              /\ wsIds = {}

\* The panes to start are filled one after the other, also one closed or filled
\* meanwhile: the loop goes on in the turn in which the start before was answered, and
\* in the end gives the keyboard to the first pane, which may be closed by then.
RestoreDue == queue # << >> /\ ~ Restoring
RestoreNext ==
    /\ RestoreDue
    /\ LET p == Head(queue)[2] IN
       CASE Head(queue)[1] = "fill" -> Spawn(pane, p, FALSE, FALSE, "restore") /\ UNCHANGED focused
         [] Head(queue)[1] = "focus" -> pane' = Unfocused(pane, p) /\ focused' = p /\ UNCHANGED jobs
    /\ queue' = Tail(queue)
    /\ UNCHANGED <<backend, owners>>

\* A new scratch view adopts its name as soon as its first terminal was answered.
BootAdopts ==
    /\ current = "none" /\ ~ Booting /\ Of("boot") = {}
    /\ ~ onDisk
    /\ Ask(Job("boot", None, None, "list"))
    /\ UNCHANGED <<pane, focused, queue, backend, owners>>

-----------------------------------------------------------------------------
Command ==
    \/ RunProfile \/ RunWithOptions \/ RunSystemTerminal \/ NewTerminal \/ StartLaunch
    \/ SplitFocused \/ NoRoom
    \/ ClosePane \/ KillFocusedSession \/ AcceptKill \/ CancelBar
    \/ SendSnippet \/ AcceptRun \/ Types
    \/ \E s \in Sessions :
        AttachSession(s) \/ KillSessionById(s) \/ DetachSessionById(s) \/ MoveSessionHere(s)
    \/ \E p \in Panes :
        FocusPane(p) \/ RestartTerminal(p) \/ \E agent \in BOOLEAN : Recover(p, agent)

Answer ==
    \/ \E j \in jobs : NotSpawned(j) \/ ListsNames(j) \/ ClaimRefused(j) \/ Adopts(j)
    \/ \E j \in jobs : Moves(j) \/ MovedHere(j) \/ \E s \in Sessions : Spawned(j, s)
    \/ \E j \in jobs, answer \in {"ok", "gone", "failed"} :
        Retained(j, answer) \/ Killed(j, answer) \/ Dropped(j, answer)

Terminal ==
    \/ \E p \in Panes : Replayed(p) \/ Exits(p) \/ LineLost(p) \/ Reconnect(p) \/ NoticeTimer(p)
    \/ \E s \in Sessions : Dies(s)

Next ==
    \/ RestoreNext /\ UNCHANGED commands
    \/ ~ RestoreDue /\ commands < MaxCommands /\ Command /\ commands' = commands + 1
    \/ ~ RestoreDue /\ (Answer \/ Terminal \/ BootAdopts \/ MaybeAdoptScratch \/ Saved) /\ UNCHANGED commands

Spec == Init /\ [][Next]_vars

-----------------------------------------------------------------------------
TypeOK ==
    /\ focused \in Panes
    /\ \A p \in Panes :
        /\ pane[p].state \in {"empty", "spawning", "attached", "exited", "missing"}
        /\ pane[p].session \in Sessions \cup {None}
        /\ pane[p].bar \in {"none", "notice", "confirm", "recovery", "exit"}
        /\ pane[p].line \in {"down", "replay", "live"}
    /\ alive \cap unborn = {}
    /\ wsIds \cap unborn = {} /\ scratchIds \cap unborn = {}
    /\ current \in {"none", "scratch", "named"}

(* An armed confirmation is on the pane the user is in: none waits on another       *)
(* pane, where a later key would accept what nobody thinks of any more.             *)
ArmedIsFocused == TypeOK /\ \A p \in Panes : pane[p].confirm # None => p = focused

(* The terminal a confirmed kill is sent for is the one the bar named, although     *)
(* the pane's terminal is read again when the button is pressed and the pane may    *)
(* have exited, restarted or been given another terminal under the bar.             *)
KillsWhatItNamed ==
    [][\A j \in jobs' \ jobs : j.kind = "kill" => j.session = pane[j.pane].confirm.of]_vars

(* A terminal that shows in a pane is never pushed out of it, nor is another one      *)
(* started over it: neither by a late answer to an earlier start nor by a command.    *)
(* Only the restore of a workspace starts one over what the user put meanwhile into   *)
(* a pane it still had to fill.                                                       *)
NoTerminalIsDisplaced ==
    [][\A p \in Open : (pane[p].state = "attached" /\ pane'[p].open) =>
          /\ pane'[p].session = pane[p].session
          /\ pane'[p].state = "spawning" => queue' # queue]_vars

(* A terminal that runs in a pane keeps it, whoever starts another one: the         *)
(* restore asks canReplace of no pane.                                              *)
RestoreLeavesTerminals ==
    [][\A p \in Open : (pane[p].session \in alive /\ pane'[p].open) => pane'[p].session = pane[p].session]_vars

(* layout.js says that a pane "must not take the keyboard while it is invisible":   *)
(* the restore may give it to a pane that was closed meanwhile, and a kill may be    *)
(* armed and confirmed there.                                                       *)
FocusIsOpen == focused \in Open

(* pane.js says of the bar that "a confirmation or recovery bar rendered into the   *)
(* same element [...] must never be hidden out from under the user".                *)
BarIsSeen ==
    \A p \in Open :
        /\ pane[p].confirm # None => pane[p].bar = "confirm"
        /\ pane[p].confirm = None /\ pane[p].recovery => pane[p].bar = "recovery"

=============================================================================
