--------------------------- MODULE WorkspaceViews ---------------------------
(***************************************************************************)
(* Workspace views: the documents that show a workspace each, autosave its   *)
(* layout and own it through the window registry (window_registry.js,        *)
(* autosave.js, workspace.js, workspace_actions.js, lifecycle.js, main.js).  *)
(* A layout is the set of edits it shows; 0 is the pane every layout starts  *)
(* from, and a workspace whose file is {} does not exist.  The registry is    *)
(* the one of WindowRegistry with its clock abstracted: the entry of a view   *)
(* expires only when the view sleeps past the TTL, which it does a bounded    *)
(* number of times; a shorter sleep is a delay, as any other.                 *)
(***************************************************************************)
EXTENDS Naturals, FiniteSets

CONSTANTS
    Views,          \* the documents, each with its registry id
    Names,          \* workspaces
    NoName,         \* the view's own scratch layout, which nobody else can open
    Absent,         \* no entry in the registry
    Stored,         \* the workspaces saved before the run
    MaxEdits,       \* bound: changes to a layout
    MaxRenames,     \* bound: layouts saved under a new name
    MaxFaults       \* bound: sleeps past the TTL and saves the server does not take

ASSUME ViewsAssumption ==
    /\ NoName \notin Names /\ Absent \notin Names \cup {NoName}
    /\ Stored \subseteq Names
    /\ {MaxEdits, MaxRenames, MaxFaults} \subseteq Nat

VARIABLES
    claim,      \* the registry: what each view owns, or Absent
    file,       \* the layout each workspace file holds
    pc,         \* how far each document is
    current,    \* state.currentWorkspace
    layout,     \* what is on its screen
    timers,     \* the autosave's timers that run
    pending,    \* workspaceSavePending
    save,       \* its PUTs, one at most of each kind
    recover,    \* its registration after a 404
    rename,     \* its "save workspace as"
    stale,      \* history: it lost its workspace since it loaded it, never loaded it,
                \* took it while closing, or left a save of the one before behind
    astray,     \* history: it went on with a workspace without being granted it,
                \* or registered again in the middle of a rename
    trespass,   \* history: somebody saved a workspace that was not its own
    done        \* history: edits, renames and faults so far

registry == <<claim, file>>
autosave == <<timers, pending, save>>
calls    == <<recover, rename>>
history  == <<stale, astray, trespass, done>>
vars == <<registry, pc, current, layout, autosave, calls, history>>

Edits  == 0 .. MaxEdits
Owned  == Names \cup {NoName}
Kinds  == {"rename", "auto", "close"}
NoSave == [at |-> "none", to |-> NoName, what |-> {}, after |-> {}]
NoCall == [at |-> "none", name |-> NoName]

Saves == [at: {"none", "sent", "landed", "failed"}, to: Owned, what: SUBSET Edits, after: SUBSET Kinds]
Recovers == [at: {"none", "sent", "ok", "refused"}, name: Owned]
Renames == [at: {"none", "sent", "granted", "refused", "saves", "back"}, name: Owned]
Counts == [edits: 0 .. MaxEdits, renames: 0 .. MaxRenames, faults: 0 .. MaxFaults]

TypeOK ==
    /\ claim \in [Views -> Owned \cup {Absent}]
    /\ file \in [Names -> SUBSET Edits]
    /\ pc \in [Views -> {"closed", "boots", "loads", "live", "closing", "leaving"}]
    /\ current \in [Views -> Owned]
    /\ layout \in [Views -> SUBSET Edits]
    /\ timers \in [Views -> SUBSET {"save", "retry", "soon"}]
    /\ pending \in [Views -> BOOLEAN]
    /\ save \in [Views -> [Kinds -> Saves]]
    /\ recover \in [Views -> Recovers] /\ rename \in [Views -> Renames]
    /\ stale \in [Views -> BOOLEAN] /\ astray \in [Views -> BOOLEAN] /\ trespass \in BOOLEAN
    /\ done \in Counts

Init ==
    /\ claim = [v \in Views |-> Absent]
    /\ file = [n \in Names |-> IF n \in Stored THEN {0} ELSE {}]
    /\ pc = [v \in Views |-> "closed"]
    /\ current = [v \in Views |-> NoName]
    /\ layout = [v \in Views |-> {}]
    /\ timers = [v \in Views |-> {}]
    /\ pending = [v \in Views |-> FALSE]
    /\ save = [v \in Views |-> [k \in Kinds |-> NoSave]]
    /\ recover = [v \in Views |-> NoCall]
    /\ rename = [v \in Views |-> NoCall]
    /\ stale = [v \in Views |-> FALSE]
    /\ astray = [v \in Views |-> FALSE]
    /\ trespass = FALSE
    /\ done = [edits |-> 0, renames |-> 0, faults |-> 0]

Count(what) == done' = [done EXCEPT ![what] = @ + 1]

OnScreen(v) == pc[v] \in {"live", "closing", "leaving"}

-----------------------------------------------------------------------------
(* The registry. *)

Free(v, n) == n = NoName \/ \A w \in Views \ {v} : claim[w] # n

\* The TTL passes over the entry of a view that sleeps, or of one that has gone.
Expire(v) ==
    /\ claim[v] # Absent
    /\ claim' = [claim EXCEPT ![v] = Absent]
    /\ IF pc[v] = "closed"
       THEN UNCHANGED <<stale, done>>
       ELSE /\ done.faults < MaxFaults
            /\ Count("faults")
            /\ stale' = [stale EXCEPT ![v] = TRUE]
    /\ UNCHANGED <<file, pc, current, layout, autosave, calls, astray, trespass>>

-----------------------------------------------------------------------------
(* Opening a view. *)

\* The shell reserves the workspace for the new view's id, then loads the document.
Open(v, n) ==
    /\ pc[v] = "closed" /\ claim[v] = Absent
    /\ recover[v] = NoCall /\ rename[v] = NoCall /\ \A k \in Kinds : save[v][k] = NoSave
    /\ n # NoName => file[n] # {}
    /\ Free(v, n)
    /\ claim' = [claim EXCEPT ![v] = n]
    /\ pc' = [pc EXCEPT ![v] = "boots"]
    /\ current' = [current EXCEPT ![v] = n]
    /\ UNCHANGED <<file, layout, autosave, calls, history>>

\* acquireWindowId and claimWorkspaceFor: claim before restoring, never after.
\* Refused, the view carries on as scratch.
Boot(v) ==
    /\ pc[v] = "boots"
    /\ LET mine == IF Free(v, current[v]) THEN current[v] ELSE NoName
       IN  /\ claim' = [claim EXCEPT ![v] = mine]
           /\ current' = [current EXCEPT ![v] = mine]
    /\ pc' = [pc EXCEPT ![v] = "loads"]
    /\ UNCHANGED <<file, layout, autosave, calls, history>>

\* restoreWorkspace, and the save that ends the boot.
Load(v) ==
    /\ pc[v] = "loads"
    /\ pc' = [pc EXCEPT ![v] = "live"]
    /\ IF current[v] = NoName
       THEN /\ layout' = [layout EXCEPT ![v] = {0}]
            /\ UNCHANGED <<timers, pending>>
       ELSE /\ layout' = [layout EXCEPT ![v] = file[current[v]]]
            /\ timers' = [timers EXCEPT ![v] = {"save"}]
            /\ pending' = [pending EXCEPT ![v] = TRUE]
    /\ stale' = [stale EXCEPT ![v] = claim[v] # current[v]]
    /\ UNCHANGED <<registry, current, save, calls, astray, trespass, done>>

-----------------------------------------------------------------------------
(* Autosave. *)

\* A pane is added: the layout changes and scheduleWorkspaceSave runs.
Edit(v) ==
    /\ pc[v] = "live"
    /\ done.edits < MaxEdits
    /\ Count("edits")
    /\ layout' = [layout EXCEPT ![v] = @ \cup {done.edits + 1}]
    /\ IF current[v] = NoName
       THEN UNCHANGED <<timers, pending>>
       ELSE /\ timers' = [timers EXCEPT ![v] = (@ \ {"retry"}) \cup {"save"}]
            /\ pending' = [pending EXCEPT ![v] = TRUE]
    /\ UNCHANGED <<registry, pc, current, save, calls, stale, astray, trespass>>

\* workspace.save: a PUT for a name goes after those of this document that are in
\* flight for it.
InFlight(v, n) == {k \in Kinds : save[v][k].at = "sent" /\ save[v][k].to = n}
Put(v, k, n) == save' = [save EXCEPT ![v][k] =
    [at |-> "sent", to |-> n, what |-> layout[v], after |-> InFlight(v, n)]]

\* Fault: a save that meets another in flight is forgotten.
ForgetsPending(v, t) ==
    /\ OnScreen(v)
    /\ t \in timers[v]
    /\ IF pc[v] # "live" \/ current[v] = NoName
       THEN timers' = [timers EXCEPT ![v] = @ \ {t}] /\ UNCHANGED <<pending, save>>
       ELSE /\ timers' = [timers EXCEPT ![v] = @ \ {t, "save", "retry"}]
            /\ pending' = [pending EXCEPT ![v] = FALSE]
            /\ IF save[v]["auto"].at # "none" THEN UNCHANGED save ELSE Put(v, "auto", current[v])
    /\ UNCHANGED <<registry, pc, current, layout, calls, history>>

\* persistCurrentWorkspace, when one of the timers fires.
Persist(v, t) ==
    /\ OnScreen(v)
    /\ t \in timers[v]
    /\ IF pc[v] # "live" \/ current[v] = NoName
       THEN timers' = [timers EXCEPT ![v] = @ \ {t}] /\ UNCHANGED <<pending, save>>
       ELSE /\ timers' = [timers EXCEPT ![v] = @ \ {t, "save", "retry"}]
            /\ IF save[v]["auto"].at # "none"
               THEN pending' = [pending EXCEPT ![v] = TRUE] /\ UNCHANGED save
               ELSE pending' = [pending EXCEPT ![v] = FALSE] /\ Put(v, "auto", current[v])
    /\ UNCHANGED <<registry, pc, current, layout, calls, history>>

\* Fault: a PUT does not wait for the one before it.
Unchained(v, k) == TRUE

First(v, k) == save[v][k].after = {}

\* The answer finds the document, or nobody; the next PUT for the name may go.
Answered(v, k, at) ==
    save' = [save EXCEPT ![v] = [j \in Kinds |->
        IF j # k THEN [save[v][j] EXCEPT !.after = @ \ {k}]
        ELSE IF pc[v] = "closed" THEN NoSave ELSE [save[v][k] EXCEPT !.at = at]]]

SaveLands(v, k) ==
    /\ save[v][k].at = "sent" /\ First(v, k)
    /\ file' = [file EXCEPT ![save[v][k].to] = save[v][k].what]
    /\ trespass' = (trespass \/ stale[v] \/ (pc[v] # "closed" /\ claim[v] # save[v][k].to))
    /\ Answered(v, k, "landed")
    /\ UNCHANGED <<claim, pc, current, layout, timers, pending, calls, stale, astray, done>>

SaveFails(v, k) ==
    /\ save[v][k].at = "sent" /\ First(v, k)
    /\ done.faults < MaxFaults
    /\ Count("faults")
    /\ Answered(v, k, "failed")
    /\ UNCHANGED <<registry, pc, current, layout, timers, pending, calls, stale, astray, trespass>>

\* The rest of persistCurrentWorkspace, after its await.
AutoSaved(v) ==
    /\ OnScreen(v)
    /\ save[v]["auto"].at \in {"landed", "failed"}
    /\ LET same == current[v] = save[v]["auto"].to
       IN  IF save[v]["auto"].at = "landed"
           THEN /\ timers' = [timers EXCEPT ![v] = IF same /\ pending[v] THEN @ \cup {"soon"} ELSE @]
                /\ UNCHANGED pending
           ELSE /\ timers' = [timers EXCEPT ![v] = IF same THEN @ \cup {"retry"} ELSE @]
                /\ pending' = [pending EXCEPT ![v] = @ \/ same]
    /\ save' = [save EXCEPT ![v]["auto"] = NoSave]
    /\ UNCHANGED <<registry, pc, current, layout, calls, history>>

-----------------------------------------------------------------------------
(* Recovery. *)

\* A beat is answered 404: the view registers again and asks for the workspace
\* it shows at this moment.
Beat(v) ==
    /\ pc[v] = "loads" \/ OnScreen(v)
    /\ claim[v] = Absent
    /\ recover[v].at = "none"
    /\ recover' = [recover EXCEPT ![v] = [at |-> "sent", name |-> current[v]]]
    /\ UNCHANGED <<registry, pc, current, layout, autosave, rename, history>>

RecoverServed(v) ==
    /\ recover[v].at = "sent"
    /\ IF Free(v, recover[v].name)
       THEN /\ claim' = [claim EXCEPT ![v] = recover[v].name]
            /\ recover' = [recover EXCEPT ![v] =
                             IF pc[v] = "closed" THEN NoCall ELSE [@ EXCEPT !.at = "ok"]]
       ELSE /\ recover' = [recover EXCEPT ![v] =
                             IF pc[v] = "closed" THEN NoCall ELSE [@ EXCEPT !.at = "refused"]]
            /\ UNCHANGED claim
    /\ astray' = [astray EXCEPT ![v] = @ \/ rename[v] # NoCall]
    /\ UNCHANGED <<file, pc, current, layout, autosave, rename, stale, trespass, done>>

\* Fault: a refused view goes on showing the workspace.
GoesOn(v) ==
    /\ pc[v] = "loads" \/ OnScreen(v)
    /\ recover[v].at \in {"ok", "refused"}
    /\ recover' = [recover EXCEPT ![v] = NoCall]
    /\ UNCHANGED <<registry, pc, current, layout, autosave, rename, history>>

\* Granted, the view goes on as it is, though it may show another workspace by
\* now; refused, it lets go and carries on as scratch.
Recovered(v) ==
    /\ pc[v] = "loads" \/ OnScreen(v)
    /\ recover[v].at \in {"ok", "refused"}
    /\ recover' = [recover EXCEPT ![v] = NoCall]
    /\ IF recover[v].at = "ok"
       THEN /\ astray' = [astray EXCEPT ![v] = @ \/ current[v] # recover[v].name]
            /\ UNCHANGED <<current, timers>>
       ELSE /\ timers' = [timers EXCEPT ![v] = @ \ {"save"}]
            /\ current' = [current EXCEPT ![v] = NoName]
            /\ UNCHANGED astray
    /\ UNCHANGED <<registry, pc, layout, pending, save, rename, stale, trespass, done>>

-----------------------------------------------------------------------------
(* Saving the layout as a new workspace (saveWorkspace). *)

\* The palette takes no name another workspace has, if it can read the list of names.
Rename(v, n) ==
    /\ pc[v] = "live"
    /\ done.renames < MaxRenames
    /\ rename[v].at = "none"
    /\ \/ (file[n] = {} \/ n = current[v]) /\ Count("renames")
       \/ /\ done.faults < MaxFaults
          /\ done' = [done EXCEPT !.renames = @ + 1, !.faults = @ + 1]
    /\ rename' = [rename EXCEPT ![v] = [at |-> "sent", name |-> n]]
    /\ UNCHANGED <<registry, pc, current, layout, autosave, recover, stale, astray, trespass>>

\* A claim gives up the one before it.  To an entry that is gone the registry
\* answers 404, which the page takes as "carry on".
ClaimServed(v) ==
    /\ rename[v].at = "sent"
    /\ LET granted == Free(v, rename[v].name)
       IN  /\ claim' = IF granted /\ claim[v] # Absent
                       THEN [claim EXCEPT ![v] = rename[v].name] ELSE claim
           /\ rename' = [rename EXCEPT ![v] =
                 IF pc[v] = "closed" THEN NoCall
                 ELSE [@ EXCEPT !.at = IF granted \/ claim[v] = Absent THEN "granted" ELSE "refused"]]
           /\ stale' = [stale EXCEPT ![v] =
                 @ \/ (granted /\ claim[v] # rename[v].name /\ file[rename[v].name] # {})]
    /\ astray' = [astray EXCEPT ![v] = @ \/ claim[v] = Absent]
    /\ UNCHANGED <<file, pc, current, layout, autosave, recover, trespass, done>>

\* Fault: the page does not look whether the new name was granted.
TakesItAnyway(v) ==
    /\ OnScreen(v)
    /\ rename[v].at \in {"granted", "refused"}
    /\ timers' = [timers EXCEPT ![v] = @ \ {"save"}]
    /\ Put(v, "rename", rename[v].name)
    /\ current' = [current EXCEPT ![v] = rename[v].name]
    /\ rename' = [rename EXCEPT ![v] = [at |-> "saves", name |-> current[v]]]
    /\ UNCHANGED <<registry, pc, layout, pending, recover, history>>

\* The view takes the new name and saves; `current` goes into the call's record.
RenameGoesOn(v) ==
    /\ OnScreen(v)
    /\ rename[v].at = "granted"
    /\ timers' = [timers EXCEPT ![v] = @ \ {"save"}]
    /\ Put(v, "rename", rename[v].name)
    /\ current' = [current EXCEPT ![v] = rename[v].name]
    /\ rename' = [rename EXCEPT ![v] = [at |-> "saves", name |-> current[v]]]
    /\ stale' = [stale EXCEPT ![v] =
          @ \/ pc[v] # "live" \/ (current[v] # rename[v].name /\ InFlight(v, current[v]) # {})]
    /\ UNCHANGED <<registry, pc, layout, pending, recover, astray, trespass, done>>

RenameStops(v) ==
    /\ OnScreen(v)
    /\ rename[v].at = "refused"
    /\ rename' = [rename EXCEPT ![v] = NoCall]
    /\ UNCHANGED <<registry, pc, current, layout, autosave, recover, history>>

\* Not saved, the rename did not happen: the old name is shown and claimed again.
RenameSaved(v) ==
    /\ OnScreen(v)
    /\ save[v]["rename"].at \in {"landed", "failed"}
    /\ save' = [save EXCEPT ![v]["rename"] = NoSave]
    /\ IF save[v]["rename"].at = "landed"
       THEN /\ rename' = [rename EXCEPT ![v] = NoCall]
            /\ UNCHANGED <<current, stale>>
       ELSE /\ current' = [current EXCEPT ![v] = rename[v].name]
            /\ rename' = [rename EXCEPT ![v].at = "back"]
            /\ stale' = [stale EXCEPT ![v] =
                  @ \/ (current[v] # rename[v].name /\ InFlight(v, current[v]) # {})]
    /\ UNCHANGED <<registry, pc, layout, timers, pending, recover, astray, trespass, done>>

\* The answer to that claim is not looked at.
ClaimsBack(v) ==
    /\ rename[v].at = "back"
    /\ LET granted == claim[v] # Absent /\ Free(v, rename[v].name)
       IN  /\ claim' = IF granted THEN [claim EXCEPT ![v] = rename[v].name] ELSE claim
           /\ astray' = [astray EXCEPT ![v] = @ \/ (~granted /\ rename[v].name # NoName)]
    /\ stale' = [stale EXCEPT ![v] = @ \/ rename[v].name \notin {NoName, claim[v]}]
    /\ rename' = [rename EXCEPT ![v] = NoCall]
    /\ UNCHANGED <<file, pc, current, layout, autosave, recover, trespass, done>>

-----------------------------------------------------------------------------
(* Closing a view (closeView): the layout is saved before the entry goes. *)

Close(v) ==
    /\ pc[v] = "live"
    /\ timers' = [timers EXCEPT ![v] = @ \ {"save", "retry"}]
    /\ IF current[v] = NoName
       THEN pc' = [pc EXCEPT ![v] = "leaving"] /\ UNCHANGED save
       ELSE pc' = [pc EXCEPT ![v] = "closing"] /\ Put(v, "close", current[v])
    /\ UNCHANGED <<registry, current, layout, pending, calls, history>>

\* A close that fails leaves the view open and autosaving again.
StaysOpen(v) ==
    /\ pc' = [pc EXCEPT ![v] = "live"]
    /\ IF current[v] = NoName
       THEN UNCHANGED <<timers, pending>>
       ELSE /\ timers' = [timers EXCEPT ![v] = (@ \ {"retry"}) \cup {"save"}]
            /\ pending' = [pending EXCEPT ![v] = TRUE]

CloseSaved(v) ==
    /\ pc[v] = "closing"
    /\ save[v]["close"].at \in {"landed", "failed"}
    /\ save' = [save EXCEPT ![v]["close"] = NoSave]
    /\ IF save[v]["close"].at = "landed"
       THEN /\ pc' = [pc EXCEPT ![v] = "leaving"]
            /\ UNCHANGED <<timers, pending>>
       ELSE StaysOpen(v)
    /\ UNCHANGED <<registry, current, layout, calls, history>>

\* A terminal is not retained, or the entry not given back.
CloseFails(v) ==
    /\ pc[v] = "leaving"
    /\ done.faults < MaxFaults
    /\ Count("faults")
    /\ StaysOpen(v)
    /\ UNCHANGED <<registry, current, layout, save, calls, stale, astray, trespass>>

\* The entry is gone and the document with it; what it has sent is still on its way.
Leave(v) ==
    /\ pc[v] = "leaving"
    /\ claim' = [claim EXCEPT ![v] = Absent]
    /\ pc' = [pc EXCEPT ![v] = "closed"]
    /\ current' = [current EXCEPT ![v] = NoName]
    /\ layout' = [layout EXCEPT ![v] = {}]
    /\ timers' = [timers EXCEPT ![v] = {}]
    /\ pending' = [pending EXCEPT ![v] = FALSE]
    /\ save' = [save EXCEPT ![v] = [k \in Kinds |-> IF @[k].at = "sent" THEN @[k] ELSE NoSave]]
    /\ recover' = [recover EXCEPT ![v] = IF @.at = "sent" THEN @ ELSE NoCall]
    /\ astray' = [astray EXCEPT ![v] = FALSE]
    /\ rename' = [rename EXCEPT ![v] = IF @.at \in {"sent", "back"} THEN @ ELSE NoCall]
    /\ UNCHANGED <<file, stale, trespass, done>>

-----------------------------------------------------------------------------

\* What a document does of its own accord once it is due, and what the server
\* does with a call it has received.
Due(v) ==
    \/ Boot(v) \/ Load(v) \/ AutoSaved(v) \/ Beat(v) \/ Recovered(v)
    \/ RenameGoesOn(v) \/ RenameStops(v) \/ RenameSaved(v) \/ CloseSaved(v) \/ Leave(v)
    \/ \E t \in {"save", "retry", "soon"} : Persist(v, t)

Served(v) ==
    \/ RecoverServed(v) \/ ClaimServed(v) \/ ClaimsBack(v)
    \/ \E k \in Kinds : SaveLands(v, k)

Next == \E v \in Views :
    \/ Due(v) \/ Served(v)
    \/ Expire(v) \/ Edit(v) \/ Close(v) \/ CloseFails(v)
    \/ \E n \in Owned : Open(v, n)
    \/ \E n \in Names : Rename(v, n)
    \/ \E k \in Kinds : SaveFails(v, k)

Spec == Init /\ [][Next]_vars

\* A document runs its timers and callbacks, every sleep ends, the server answers.
FairSpec ==
    /\ Spec
    /\ \A v \in Views :
          /\ WF_vars(Boot(v)) /\ WF_vars(Load(v)) /\ WF_vars(AutoSaved(v))
          /\ WF_vars(Beat(v)) /\ WF_vars(Recovered(v))
          /\ WF_vars(RenameGoesOn(v) \/ RenameStops(v) \/ RenameSaved(v))
          /\ WF_vars(CloseSaved(v) \/ Leave(v))
          /\ \A t \in {"save", "retry", "soon"} : WF_vars(Persist(v, t))
          /\ WF_vars(RecoverServed(v)) /\ WF_vars(ClaimServed(v) \/ ClaimsBack(v))
          /\ \A k \in Kinds : WF_vars(SaveLands(v, k))

-----------------------------------------------------------------------------
(* Properties. *)

Writes(v, n) == OnScreen(v) /\ current[v] = n

\* A view the registry knows, that waited for its grants and did not recover in the
\* middle of a rename, writes the workspace it owns, however opening, renaming,
\* closing, failed saves and recoveries interleave with the other views' (and each
\* variable keeps its type).
WriterOwns ==
    /\ TypeOK
    /\ \A v \in Views :
        OnScreen(v) /\ claim[v] # Absent /\ ~astray[v] /\ rename[v].at = "none" /\ recover[v].at = "none"
          => claim[v] = current[v]

\* A save takes nothing away that an earlier one wrote, whatever is in flight and
\* whoever renames, closes and recovers, unless somebody saves a workspace that was not
\* its own, not any more or not since it loaded it: otherwise owning the claim is
\* enough ("the loser's panes disappear without a trace").
SavedIsKept == [][~trespass' => \A n \in Names : file[n] \subseteq file'[n]]_vars

\* "Two windows must never own the same workspace, because both of them autosave
\* the whole layout": two views come to write one workspace, when one of them
\* slept or when a refusal was not looked at, but they do not go on doing so.
Quarrel == \E v, w \in Views, n \in Names : v # w /\ Writes(v, n) /\ Writes(w, n)
QuarrelEnds == Quarrel ~> ~Quarrel

Saved == UNION {file[n] : n \in Names}

\* A change that is on the screen of a named workspace reaches a file, whatever
\* saves fail or overlap, unless the view closes, lets the workspace go, or somebody
\* saves over it who does not own it.
EditIsSaved ==
    \A v \in Views, e \in Edits \ {0} :
        (pc[v] = "live" /\ current[v] # NoName /\ e \in layout[v])
          ~> (e \in Saved \/ trespass \/ pc[v] # "live" \/ current[v] = NoName)
=============================================================================
