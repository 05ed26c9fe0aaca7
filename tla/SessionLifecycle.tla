-------------------------- MODULE SessionLifecycle --------------------------
(***************************************************************************)
(* The backend's session registry: how a terminal is admitted, built off    *)
(* the loop, watched, killed from worker threads, reaped when idle and      *)
(* finally dropped (session_manager.py, reaper.py, and the parts of         *)
(* api/attach.py and api/sessions.py that drive them).                      *)
(*                                                                          *)
(* Three kinds of actor share the state.  The event loop owns the registry  *)
(* and runs callbacks one at a time, so a callback is one action.  Worker   *)
(* threads (REST kills, the reaper pass) read that state unlocked, block in *)
(* PtySession.kill, and hand every change back with call_soon_threadsafe: a *)
(* posted callback is a flag here, cleared by the action that runs it, so   *)
(* callbacks of different threads run in any order.  The PTY backend is     *)
(* modelled by what it promises: kill() is verified only of a dead process, *)
(* and on_exit runs once, after the last output.                            *)
(***************************************************************************)
EXTENDS Naturals, FiniteSets

CONSTANTS
    Sessions,   \* session ids (uuid4().hex, so an id is used once)
    Viewers,    \* WebSocket connections
    Killers,    \* worker threads serving DELETE /api/sessions and kill-all
    None,       \* no session
    Limits      \* the values max_sessions may take; 0 is unlimited

ASSUME SessionsAssumption ==
    /\ IsFiniteSet(Sessions)
    /\ None \notin Sessions
    /\ Limits \subseteq Nat

VARIABLES
    stage,      \* [Sessions -> Stages]: where the id stands in its life
    spawning,   \* SessionManager._spawning
    limit,      \* SessionManager._max_sessions
    proc,       \* [Sessions -> Procs]: the OS process behind the PTY
    exitRan,    \* set of ids whose on_exit callback has run
    alive,      \* set of ids with info.alive
    touched,    \* set of ids with info.touched
    retained,   \* set of ids with info.retained
    opened,     \* set of ids with ever_attached
    unread,     \* set of ids with background_output_bytes > 0
    attention,  \* [Sessions -> {"none", "bell", "exit"}]
    idle,       \* set of ids with now - last_activity > idle_timeout_s
    aged,       \* set of ids with now - ended_at >= EXITED_UNREAD_RETENTION_S
    child,      \* set of ids whose root process has a child (the busy test)
    saved,      \* set of ids some workspace file references
    stopping,   \* set of ids with Session.stopping
    reaping,    \* set of ids with Session.reaping
    finishing,  \* set of ids with a posted _finish_kill
    leaving,    \* set of ids with an armed _remove_if_same timer
    releasing,  \* set of ids with a posted _release
    vpc,        \* [Viewers -> {"off", "accepting", "replaying", "attached"}]
    vsid,       \* [Viewers -> Sessions \cup {None}]
    exits,      \* [Viewers -> Nat]: exit markers put into the viewer's queue
    killing,    \* [Killers -> Sessions \cup {None}]: inside PtySession.kill
    rpc,        \* the reaper pass: "idle", "scan", "pass", "asking", "killing"
    target,     \* the candidate the pass works on
    call,       \* its claim: "none", "queued", "granted", "refused"
    candidates, \* the candidates the pass has left
    snapSaved,  \* the pass's copy of saved
    snapBusy,   \* the pass's copy of the busy ids
    asked       \* history: ids a REST worker has set out to kill

registry == <<stage, spawning, limit>>
process  == <<proc, exitRan, child>>
info     == <<alive, touched, retained, opened, unread, attention, idle, aged>>
calls    == <<stopping, reaping, finishing, leaving, releasing>>
viewing  == <<vpc, vsid, exits>>
pass     == <<rpc, target, call, candidates, snapSaved, snapBusy>>
workers  == <<killing, asked>>
vars     == <<registry, process, info, saved, calls, viewing, workers, pass>>

Stages == {"new", "building", "built", "failed", "listed", "removed"}
\* "hit": a kill has signalled it and it runs on; "killed": it died of that;
\* "dead": it ended with no kill attempted.
Procs  == {"none", "running", "hit", "dead", "killed"}

Ended(s)    == proc[s] \in {"dead", "killed"}
Listed      == {s \in Sessions : stage[s] = "listed"}
Building    == {s \in Sessions : stage[s] \in {"building", "built", "failed"}}
Live        == Listed \cap alive
Attached(s) == {v \in Viewers : vpc[v] = "attached" /\ vsid[v] = s}
Busy        == Live \cap child

-----------------------------------------------------------------------------
(* The reaper's policy. *)

\* Fault: only an explicit detach counts as caring, typing does not.
KeepsOnlyRetained(s) ==
    /\ \/ s \in retained /\ s \in unread
       \/ attention[s] # "none"
    /\ s \notin aged

\* An exited session the user cared about or that asks for him is kept a day.
KeepsUnreadExit(s) ==
    /\ \/ s \in retained \cup touched /\ s \in unread
       \/ attention[s] # "none"
    /\ s \notin aged

Reapable(s, protected, busy) ==
    /\ Attached(s) = {}
    /\ s \notin reaping
    /\ \/ s \notin alive /\ ~KeepsUnreadExit(s)
       \/ /\ s \in alive
          /\ s \notin protected \cup touched \cup retained \cup busy
          /\ attention[s] = "none"
          /\ s \in idle

-----------------------------------------------------------------------------
(* Admission and spawning. *)

\* What counts against the limit: live sessions and spawns in flight.
Load == Cardinality(Live) + spawning

\* Fault: spawns whose process is not up yet are not counted.
AdmittedByLiveAlone == limit = 0 \/ Cardinality(Live) < limit

Admitted == limit = 0 \/ Load < limit

\* spawn: the whole build runs on the loop thread.
Spawn(s) ==
    /\ stage[s] = "new"
    /\ Admitted
    /\ stage' = [stage EXCEPT ![s] = "listed"]
    /\ proc' = [proc EXCEPT ![s] = "running"]
    /\ alive' = alive \cup {s}
    /\ UNCHANGED <<spawning, limit, exitRan, child, touched, retained, opened,
                   unread, attention, idle, aged, saved, calls, viewing,
                   workers, pass>>

\* spawn_async up to its await: checked and counted in one turn of the loop.
SpawnAsync(s) ==
    /\ stage[s] = "new"
    /\ Admitted
    /\ stage' = [stage EXCEPT ![s] = "building"]
    /\ spawning' = spawning + 1
    /\ UNCHANGED <<limit, process, info, saved, calls, viewing, workers, pass>>

\* _build in its worker thread; the process runs before anyone can see it.
BuildOk(s) ==
    /\ stage[s] = "building"
    /\ stage' = [stage EXCEPT ![s] = "built"]
    /\ proc' = [proc EXCEPT ![s] = "running"]
    /\ alive' = alive \cup {s}
    /\ UNCHANGED <<spawning, limit, exitRan, child, touched, retained, opened,
                   unread, attention, idle, aged, saved, calls, viewing,
                   workers, pass>>

BuildFails(s) ==
    /\ stage[s] = "building"
    /\ stage' = [stage EXCEPT ![s] = "failed"]
    /\ UNCHANGED <<spawning, limit, process, info, saved, calls, viewing,
                   workers, pass>>

SettleSpawn == spawning' = spawning - 1

\* The future's done callback.  It does not ask whether the request that
\* awaits the spawn was cancelled, so cancelling one is no action here.
FinishAsyncSpawn(s) ==
    /\ stage[s] \in {"built", "failed"}
    /\ SettleSpawn
    /\ stage' = [stage EXCEPT ![s] = IF @ = "built" THEN "listed" ELSE "removed"]
    /\ UNCHANGED <<limit, process, info, saved, calls, viewing, workers, pass>>

SetMaxSessions(n) ==
    /\ limit # n
    /\ limit' = n
    /\ UNCHANGED <<stage, spawning, process, info, saved, calls, viewing,
                   workers, pass>>

-----------------------------------------------------------------------------
(* What the terminal's process does. *)

\* The root process ends, by itself or of a kill that has signalled it.
ProcessEnds(s) ==
    /\ proc[s] \in {"running", "hit"}
    /\ proc' = [proc EXCEPT ![s] = IF @ = "hit" THEN "killed" ELSE "dead"]
    /\ child' = child \ {s}
    /\ UNCHANGED <<registry, exitRan, info, saved, calls, viewing,
                   workers, pass>>

ChildStartsOrEnds(s) ==
    /\ proc[s] \in {"running", "hit"}
    /\ child' = IF s \in child THEN child \ {s} ELSE child \cup {s}
    /\ UNCHANGED <<registry, proc, exitRan, info, saved, calls, viewing,
                   workers, pass>>

\* _on_output, also for output still in the PTY when its process is gone;
\* `asks` says whether the burst rings the bell or posts a notification.
OnOutput(s, asks) ==
    /\ proc[s] # "none"
    /\ s \notin exitRan
    /\ idle' = idle \ {s}
    /\ unread' = IF s \in opened /\ Attached(s) = {} THEN unread \cup {s}
                                                     ELSE unread
    /\ attention' = IF asks THEN [attention EXCEPT ![s] = "bell"]
                            ELSE attention
    /\ UNCHANGED <<registry, process, alive, touched, retained, opened, aged,
                   saved, calls, viewing, workers, pass>>

\* publish(None): one exit marker for every viewer of s.
PublishExit(s) ==
    exits' = [v \in Viewers |-> IF v \in Attached(s) THEN exits[v] + 1
                                                     ELSE exits[v]]

\* Fault: the second of _finish_kill and _on_exit reports the end again.
AlwaysReports(s) == s \in Sessions

\* was_alive: only the first of _finish_kill and _on_exit reports the end.
FirstToEnd(s) == s \in alive

\* Somebody had a stake in the terminal and nobody sees it end.
ExitIsNews(s) ==
    /\ s \in opened
    /\ s \in touched \cup retained
    /\ Attached(s) = {}
    /\ s \notin stopping

\* _on_exit: posted once by the PTY's exit watcher, after the last output.
OnExit(s) ==
    /\ Ended(s)
    /\ s \notin exitRan
    /\ exitRan' = exitRan \cup {s}
    /\ alive' = alive \ {s}
    /\ aged' = aged \ {s}
    /\ IF FirstToEnd(s)
       THEN /\ attention' = IF ExitIsNews(s)
                            THEN [attention EXCEPT ![s] = "exit"]
                            ELSE attention
            /\ PublishExit(s)
       ELSE UNCHANGED <<attention, exits>>
    /\ UNCHANGED <<registry, proc, child, touched, retained, opened, unread,
                   idle, saved, calls, vpc, vsid, workers, pass>>

-----------------------------------------------------------------------------
(* What the user and the API ask for. *)

\* POST /api/sessions/{sid}/retain, in a worker thread.
Retain(s) ==
    /\ s \in Listed
    /\ retained' = retained \cup {s}
    /\ UNCHANGED <<registry, process, alive, touched, opened, unread, attention,
                   idle, aged, saved, calls, viewing, workers, pass>>

\* touch: the viewer's word that a person typed.
Touch(v) ==
    LET s == vsid[v] IN
    /\ vpc[v] = "attached"
    /\ s \in Live
    /\ touched' = touched \cup {s}
    /\ idle' = idle \ {s}
    /\ attention' = [attention EXCEPT ![s] = "none"]
    /\ UNCHANGED <<registry, process, alive, retained, opened, unread, aged,
                   saved, calls, viewing, workers, pass>>

\* write of bytes the terminal answers by itself: activity, but no touch.
Write(v) ==
    LET s == vsid[v] IN
    /\ vpc[v] = "attached"
    /\ s \in Live
    /\ idle' = idle \ {s}
    /\ UNCHANGED <<registry, process, alive, touched, retained, opened, unread,
                   attention, aged, saved, calls, viewing, workers, pass>>

\* mark_seen.
MarkSeen(s) ==
    /\ s \in Listed
    /\ attention' = [attention EXCEPT ![s] = "none"]
    /\ UNCHANGED <<registry, process, alive, touched, retained, opened, unread,
                   idle, aged, saved, calls, viewing, workers, pass>>

\* agent_event: a hook reports that the agent waits for the user.
AgentWaits(s) ==
    /\ s \in Live
    /\ attention[s] = "none"
    /\ attention' = [attention EXCEPT ![s] = "bell"]
    /\ UNCHANGED <<registry, process, alive, touched, retained, opened, unread,
                   idle, aged, saved, calls, viewing, workers, pass>>

\* A workspace save adds the id to a layout, or the last one drops it.
SaveWorkspace(s) ==
    /\ s \in Listed
    /\ saved' = IF s \in saved THEN saved \ {s} ELSE saved \cup {s}
    /\ UNCHANGED <<registry, process, info, calls, viewing, workers, pass>>

\* The clock passes idle_timeout_s, or a day after the end.
GoesIdle(s) ==
    /\ s \in Live
    /\ idle' = idle \cup {s}
    /\ UNCHANGED <<registry, process, alive, touched, retained, opened, unread,
                   attention, aged, saved, calls, viewing, workers, pass>>

Ages(s) ==
    /\ s \in Listed \ alive
    /\ aged' = aged \cup {s}
    /\ UNCHANGED <<registry, process, alive, touched, retained, opened, unread,
                   attention, idle, saved, calls, viewing, workers, pass>>

-----------------------------------------------------------------------------
(* Viewers (ws_session). *)

\* The handler looks the id up, then awaits the accept.
WsOpen(v, s) ==
    /\ vpc[v] = "off"
    /\ s \in Listed
    /\ vpc' = [vpc EXCEPT ![v] = "accepting"]
    /\ vsid' = [vsid EXCEPT ![v] = s]
    /\ UNCHANGED <<registry, process, info, saved, calls, exits, workers, pass>>

\* Opening a terminal reads its background output, and answers an exited one.
Acknowledge(s) ==
    /\ opened' = opened \cup {s}
    /\ unread' = unread \ {s}
    /\ attention' = IF s \in alive THEN attention
                    ELSE [attention EXCEPT ![s] = "none"]

\* Accepted, and the session has exited: the replay alone.
WsReplaysExited(v) ==
    /\ vpc[v] = "accepting"
    /\ vsid[v] \notin alive
    /\ vpc' = [vpc EXCEPT ![v] = "replaying"]
    /\ UNCHANGED <<registry, process, info, saved, calls, vsid, exits, workers,
                   pass>>

\* That replay went through: acknowledged if the registry still knows the id.
WsReplayedExited(v) ==
    /\ vpc[v] = "replaying"
    /\ vpc' = [vpc EXCEPT ![v] = "off"]
    /\ vsid' = [vsid EXCEPT ![v] = None]
    /\ IF vsid[v] \in Listed
       THEN Acknowledge(vsid[v])
       ELSE UNCHANGED <<opened, unread, attention>>
    /\ UNCHANGED <<registry, process, alive, touched, retained, idle, aged,
                   saved, calls, exits, workers, pass>>

MayAttach(s) == s \in Listed /\ s \notin reaping

\* attach(): refused for an id that is gone or claimed; the marker of an exit
\* that came first is queued at once.
WsAttach(v) ==
    LET s == vsid[v] IN
    /\ vpc[v] = "accepting"
    /\ s \in alive
    /\ IF MayAttach(s)
       THEN /\ vpc' = [vpc EXCEPT ![v] = "attached"]
            /\ exits' = [exits EXCEPT ![v] = IF s \in alive THEN 0 ELSE 1]
            /\ Acknowledge(s)
            /\ UNCHANGED vsid
       ELSE /\ vpc' = [vpc EXCEPT ![v] = "off"]
            /\ vsid' = [vsid EXCEPT ![v] = None]
            /\ UNCHANGED <<opened, unread, attention, exits>>
    /\ UNCHANGED <<registry, process, alive, touched, retained, idle, aged,
                   saved, calls, workers, pass>>

\* The socket ends, by the client, the network or the delivered exit: detach.
WsEnds(v) ==
    /\ vpc[v] # "off"
    /\ vpc' = [vpc EXCEPT ![v] = "off"]
    /\ vsid' = [vsid EXCEPT ![v] = None]
    /\ exits' = [exits EXCEPT ![v] = 0]
    /\ UNCHANGED <<registry, process, info, saved, calls, workers, pass>>

-----------------------------------------------------------------------------
(* kill(), shared by the REST workers and the reaper. *)

\* Up to the backend's first signal: the flag goes up before it.
BeginKill(s) ==
    /\ stopping' = stopping \cup {s}
    /\ proc' = IF proc[s] = "running" THEN [proc EXCEPT ![s] = "hit"] ELSE proc

\* Fault: a signalled process counts as stopped.
VerifiedBySignal(s) == Ended(s) \/ proc[s] = "hit"

\* The backend says True of a dead process only, and False only when it had
\* something to signal (a process that ended before any kill is just True).
Verified(s) == Ended(s)

Survived(s) == proc[s] \in {"hit", "killed"}

KillStarts(k, s) ==
    /\ killing[k] = None
    /\ s \in Listed
    /\ BeginKill(s)
    /\ killing' = [killing EXCEPT ![k] = s]
    /\ asked' = asked \cup {s}
    /\ UNCHANGED <<registry, exitRan, child, info, saved, reaping, finishing,
                   leaving, releasing, viewing, pass>>

KillVerified(k) ==
    LET s == killing[k] IN
    /\ s # None
    /\ Verified(s)
    /\ finishing' = finishing \cup {s}
    /\ killing' = [killing EXCEPT ![k] = None]
    /\ UNCHANGED <<registry, process, info, saved, stopping, reaping, leaving,
                   releasing, viewing, asked, pass>>

KillSurvived(k) ==
    LET s == killing[k] IN
    /\ s # None
    /\ Survived(s)
    /\ stopping' = stopping \ {s}
    /\ killing' = [killing EXCEPT ![k] = None]
    /\ UNCHANGED <<registry, process, info, saved, reaping, finishing, leaving,
                   releasing, viewing, asked, pass>>

\* _finish_kill on the loop: the session reads as exited at once and leaves
\* the registry after the grace period.
FinishKill(s) ==
    /\ s \in finishing
    /\ finishing' = finishing \ {s}
    /\ IF s \in Listed
       THEN /\ alive' = alive \ {s}
            /\ aged' = IF FirstToEnd(s) THEN aged \ {s} ELSE aged
            /\ IF FirstToEnd(s) THEN PublishExit(s) ELSE UNCHANGED exits
            /\ leaving' = leaving \cup {s}
       ELSE UNCHANGED <<alive, aged, exits, leaving>>
    /\ UNCHANGED <<registry, process, touched, retained, opened, unread,
                   attention, idle, saved, stopping, reaping, releasing, vpc,
                   vsid, workers, pass>>

\* _remove_if_same: the grace period is over.
RemoveIfSame(s) ==
    /\ s \in leaving
    /\ leaving' = leaving \ {s}
    /\ stage' = [stage EXCEPT ![s] = "removed"]
    /\ UNCHANGED <<spawning, limit, process, info, saved, stopping, reaping,
                   finishing, releasing, viewing, workers, pass>>

-----------------------------------------------------------------------------
(* The reaper pass (_reap_pass, reap_idle), in a worker thread. *)

\* referenced_session_ids() reads every workspace file first.
ReadSaved ==
    /\ rpc = "idle"
    /\ rpc' = "scan"
    /\ snapSaved' = saved
    /\ UNCHANGED <<registry, process, info, saved, calls, viewing, workers,
                   target, call, candidates, snapBusy>>

\* One process snapshot, then the candidates, from unlocked loop state.
Scan ==
    /\ rpc = "scan"
    /\ rpc' = "pass"
    /\ snapBusy' = Busy
    /\ candidates' = {s \in Listed : Reapable(s, snapSaved, Busy)}
    /\ UNCHANGED <<registry, process, info, saved, calls, viewing, workers,
                   target, call, snapSaved>>

EndPass ==
    /\ rpc = "pass"
    /\ candidates = {}
    /\ rpc' = "idle"
    /\ snapSaved' = {}
    /\ snapBusy' = {}
    /\ UNCHANGED <<registry, process, info, saved, calls, viewing, workers,
                   target, call, candidates>>

\* _on_loop posts the claim and waits for it.
AskClaim(s) ==
    /\ rpc = "pass"
    /\ s \in candidates
    /\ candidates' = candidates \ {s}
    /\ rpc' = "asking"
    /\ target' = s
    /\ call' = "queued"
    /\ UNCHANGED <<registry, process, info, saved, calls, viewing, workers,
                   snapSaved, snapBusy>>

\* _claim on the loop: looked at again, with the pass's own snapshots.
Claim ==
    /\ call = "queued"
    /\ IF target \in Listed /\ Reapable(target, snapSaved, snapBusy)
       THEN /\ reaping' = reaping \cup {target}
            /\ call' = "granted"
       ELSE /\ call' = "refused"
            /\ UNCHANGED reaping
    /\ UNCHANGED <<registry, process, info, saved, stopping, finishing, leaving,
                   releasing, viewing, workers, rpc, target, candidates,
                   snapSaved, snapBusy>>

\* The candidate is left alone from here on.
NextCandidate ==
    /\ rpc' = "pass"
    /\ target' = None
    /\ call' = "none"
    /\ UNCHANGED <<candidates, snapSaved, snapBusy>>

\* The wait runs out before the loop starts the call, which is cancelled.
GiveUp ==
    /\ rpc = "asking"
    /\ call = "queued"
    /\ NextCandidate
    /\ UNCHANGED <<registry, process, info, saved, calls, viewing, workers>>

ClaimRefused ==
    /\ rpc = "asking"
    /\ call = "refused"
    /\ NextCandidate
    /\ UNCHANGED <<registry, process, info, saved, calls, viewing, workers>>

\* kill() of the claimed session; KeyError once it left the registry.
ReapKill ==
    /\ rpc = "asking"
    /\ call = "granted"
    /\ IF target \in Listed
       THEN /\ BeginKill(target)
            /\ rpc' = "killing"
            /\ UNCHANGED <<target, call, candidates, snapSaved, snapBusy>>
       ELSE /\ NextCandidate
            /\ UNCHANGED <<stopping, proc>>
    /\ UNCHANGED <<registry, exitRan, child, info, saved, reaping, finishing,
                   leaving, releasing, viewing, workers>>

ReapVerified ==
    /\ rpc = "killing"
    /\ Verified(target)
    /\ finishing' = finishing \cup {target}
    /\ NextCandidate
    /\ UNCHANGED <<registry, process, info, saved, stopping, reaping, leaving,
                   releasing, viewing, workers>>

\* Fault: the release goes through _on_loop, which cancels it on a stalled loop.
ReleaseLost == releasing' \in {releasing, releasing \cup {target}}

ReleaseSoon == releasing' = releasing \cup {target}

\* The claimed process survived: the claim is handed back through the loop.
ReapSurvived ==
    /\ rpc = "killing"
    /\ Survived(target)
    /\ stopping' = stopping \ {target}
    /\ ReleaseSoon
    /\ NextCandidate
    /\ UNCHANGED <<registry, process, info, saved, reaping, finishing, leaving,
                   viewing, workers>>

Release(s) ==
    /\ s \in releasing
    /\ releasing' = releasing \ {s}
    /\ reaping' = reaping \ {s}
    /\ UNCHANGED <<registry, process, info, saved, stopping, finishing, leaving,
                   viewing, workers, pass>>

-----------------------------------------------------------------------------
Init ==
    /\ stage = [s \in Sessions |-> "new"]
    /\ spawning = 0
    /\ limit \in Limits
    /\ proc = [s \in Sessions |-> "none"]
    /\ attention = [s \in Sessions |-> "none"]
    /\ exitRan = {} /\ alive = {} /\ touched = {} /\ retained = {}
    /\ opened = {} /\ unread = {} /\ idle = {} /\ aged = {} /\ child = {}
    /\ saved = {} /\ stopping = {} /\ reaping = {} /\ finishing = {}
    /\ leaving = {} /\ releasing = {}
    /\ vpc = [v \in Viewers |-> "off"]
    /\ vsid = [v \in Viewers |-> None]
    /\ exits = [v \in Viewers |-> 0]
    /\ killing = [k \in Killers |-> None]
    /\ rpc = "idle" /\ target = None /\ call = "none"
    /\ candidates = {} /\ snapSaved = {} /\ snapBusy = {}
    /\ asked = {}

SpawnStep(s) ==
    Spawn(s) \/ SpawnAsync(s) \/ BuildOk(s) \/ BuildFails(s) \/ FinishAsyncSpawn(s)

ProcessStep(s) ==
    ProcessEnds(s) \/ ChildStartsOrEnds(s) \/ OnExit(s)
    \/ \E asks \in BOOLEAN : OnOutput(s, asks)

ApiStep(s) ==
    Retain(s) \/ MarkSeen(s) \/ AgentWaits(s) \/ SaveWorkspace(s)
    \/ GoesIdle(s) \/ Ages(s)

ViewerStep(v) ==
    \/ \E s \in Sessions : WsOpen(v, s)
    \/ WsReplaysExited(v) \/ WsReplayedExited(v) \/ WsAttach(v) \/ WsEnds(v)
    \/ Touch(v) \/ Write(v)

KillerStep(k) ==
    (\E s \in Sessions : KillStarts(k, s)) \/ KillVerified(k) \/ KillSurvived(k)

LoopStep(s) == FinishKill(s) \/ RemoveIfSame(s) \/ Release(s)

ReaperStep ==
    \/ ReadSaved \/ Scan \/ EndPass \/ (\E s \in Sessions : AskClaim(s))
    \/ Claim \/ GiveUp \/ ClaimRefused
    \/ ReapKill \/ ReapVerified \/ ReapSurvived

Next ==
    \/ \E s \in Sessions : SpawnStep(s) \/ ProcessStep(s) \/ ApiStep(s) \/ LoopStep(s)
    \/ \E v \in Viewers : ViewerStep(v)
    \/ \E k \in Killers : KillerStep(k)
    \/ \E n \in Limits : SetMaxSessions(n)
    \/ ReaperStep

Spec == Init /\ [][Next]_vars

\* The event loop runs what was posted to it, worker threads run on, and the
\* backend's kill() returns (its verification has a deadline).  Nothing is
\* asked of users, processes or the clock.
Fairness ==
    /\ \A s \in Sessions :
          WF_vars(FinishKill(s)) /\ WF_vars(RemoveIfSame(s)) /\ WF_vars(Release(s))
    /\ WF_vars(Claim \/ GiveUp)
    /\ WF_vars(ClaimRefused \/ ReapKill)
    /\ WF_vars(ReapVerified \/ ReapSurvived)

FairSpec == Spec /\ Fairness

-----------------------------------------------------------------------------
(* Properties. *)

TypeOK ==
    /\ stage \in [Sessions -> Stages]
    /\ spawning \in Nat
    /\ limit \in Limits
    /\ proc \in [Sessions -> Procs]
    /\ attention \in [Sessions -> {"none", "bell", "exit"}]
    /\ \A flag \in {exitRan, alive, touched, retained, opened, unread, idle, aged,
                    child, saved, stopping, reaping, finishing, leaving, releasing,
                    candidates, snapSaved, snapBusy, asked} : flag \subseteq Sessions
    /\ vpc \in [Viewers -> {"off", "accepting", "replaying", "attached"}]
    /\ vsid \in [Viewers -> Sessions \cup {None}]
    /\ exits \in [Viewers -> Nat]
    /\ killing \in [Killers -> Sessions \cup {None}]
    /\ rpc \in {"idle", "scan", "pass", "asking", "killing"}
    /\ target \in Sessions \cup {None}
    /\ call \in {"none", "queued", "granted", "refused"}

\* Every viewer of a session is told of its end exactly once, although a kill
\* and the PTY's own exit report race and viewers come and go between them
\* (_finish_kill, _on_exit, attach).
ExitToldOnce ==
    \A v \in Viewers :
        vpc[v] = "attached" => exits[v] = IF vsid[v] \in alive THEN 0 ELSE 1

\* What the reaper has claimed nobody looks at, and a live one nobody has typed
\* into, however long its kill takes (Reaper._claim, attach, touch).
ClaimedIsUnwatched ==
    \A s \in reaping \cap Listed :
        Attached(s) = {} /\ (s \in alive => s \notin touched)

\* A claim is never left behind: the pass still works on it, or its release, its
\* _finish_kill or its removal is on the way (_on_loop's cancel, _release_soon).
ClaimHasOwner ==
    \A s \in reaping \cap Listed :
        \/ target = s /\ call = "granted" /\ rpc \in {"asking", "killing"}
        \/ s \in releasing \cup finishing \cup leaving

\* No process runs where nobody can see or stop it: while it runs its session is
\* registered as alive, or is about to be (kill's verification, spawn_async).
NoHiddenProcess ==
    \A s \in Sessions :
        proc[s] \in {"running", "hit"} => s \in alive /\ stage[s] \in {"built", "listed"}

\* A session the user typed into leaves the registry with output or a question
\* he has not seen only by a kill he asked for, or after a day (keeps_unread_exit).
UnreadOutputIsKept ==
    \A s \in touched \ (asked \cup aged) :
        stage[s] = "removed" => s \notin unread /\ attention[s] = "none"

\* Parallel spawns never take the registry past the limit, whatever is still
\* being built; lowering the limit stops nothing (_check_limit, _spawning).
SpawnRespectsLimit ==
    [][Load' > Load => limit' = 0 \/ Load' <= limit']_vars

\* A claimed session is given back or goes (_release_soon: a release lost to a
\* stalled loop would answer every attach with 4404 for good).
ClaimResolves ==
    \A s \in Sessions : s \in reaping ~> s \notin reaping \/ stage[s] = "removed"

-----------------------------------------------------------------------------
(* The inductive invariant behind them (BackendProofs). *)

\* An id is alive, watched or claimed only once it is registered.
Known == {s \in Sessions : stage[s] \in {"listed", "removed"}}

StagesInOrder ==
    /\ touched \cup reaping \cup finishing \cup leaving \cup asked \subseteq Known
    /\ \A v \in Viewers : vpc[v] # "off" => vsid[v] \in Known
    /\ \A s \in alive : stage[s] \in {"built", "listed"}
    /\ call = "granted" => target \in Known

\* The pass's program counter and its claim call agree.
PassInOrder ==
    /\ rpc \in {"idle", "scan", "pass"} <=> call = "none"
    /\ rpc = "killing" => call = "granted"
    /\ call # "none" => target \in Sessions

\* What is on its way out is dead, and what is going reads as exited.
KilledIsDead ==
    /\ \A s \in finishing \cup leaving : Ended(s)
    /\ leaving \cap alive = {}
    /\ \A k \in Killers : killing[k] \in asked \cup {None}

\* Only a claim that is still held leads to an end nobody asked for.
ClaimIsHeld ==
    /\ releasing \subseteq reaping
    /\ call = "granted" => /\ target \in reaping \ releasing
                           /\ target \notin (finishing \cup leaving) \ asked
    /\ (finishing \cup leaving) \ asked \subseteq reaping \ releasing

\* The reaper has decided on s, or s is gone.
Doomed(s) ==
    \/ call = "granted" /\ target = s
    \/ s \in finishing \cup leaving
    \/ stage[s] = "removed"

\* A typed-into session is given up only when it has ended by itself, said its
\* last word and been read.
DoomedIsRead ==
    \A s \in touched \ asked :
        /\ s \in alive \cup exitRan
        /\ Doomed(s) => /\ s \notin alive
                        /\ s \in aged \/ (s \notin unread /\ attention[s] = "none")

IInv ==
    /\ TypeOK
    /\ spawning = Cardinality(Building)
    /\ StagesInOrder /\ PassInOrder /\ KilledIsDead /\ ClaimIsHeld
    /\ ExitToldOnce /\ ClaimedIsUnwatched /\ ClaimHasOwner /\ NoHiddenProcess
    /\ DoomedIsRead

-----------------------------------------------------------------------------
(* Two things the comments say that the code does not keep. *)

\* "an exit QuickTerm caused" is not reported as the terminal asking for the user.
OwnKillIsNoNews ==
    \A s \in Sessions : attention[s] = "exit" => proc[s] # "killed"

\* "A live session is spared when a saved workspace protects it", and "a session
\* picked up during a slow pass survives".
PickedUpSurvives ==
    [][\A s \in reaping' \ reaping : s \in alive => s \notin saved]_vars
=============================================================================
