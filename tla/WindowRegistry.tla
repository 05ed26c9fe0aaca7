--------------------------- MODULE WindowRegistry ---------------------------
(***************************************************************************)
(* Which viewer windows are open and which workspace each one owns          *)
(* (windows.py, api/windows.py).  Every public method takes the registry's  *)
(* lock and first drops the entries that stopped beating, so a call is one  *)
(* action that starts from Pruned.  The clock is monotonic and stands still *)
(* within a call; MaxTime bounds it for TLC.                                *)
(***************************************************************************)
EXTENDS Naturals, FiniteSets

CONSTANTS
    Windows,        \* window ids, ordered as Python orders the strings
    Workspaces,     \* workspace names
    NoWindow,       \* None where an id may stand
    NoWorkspace,    \* None where a name may stand
    Keep,           \* windows.KEEP: the call is not about the claim
    TTL,            \* WindowRegistry._ttl, in clock ticks
    MaxWindows,     \* WindowRegistry._max
    Hosts,          \* bound: the ids a view may name as its shell
    MaxTime         \* bound: the last instant of the clock

ASSUME WindowsAssumption ==
    /\ Windows \subseteq Nat /\ IsFiniteSet(Windows)
    /\ NoWindow \notin Windows
    /\ NoWorkspace \notin Workspaces
    /\ Keep \notin Workspaces \cup {NoWorkspace}
    /\ Hosts \subseteq Windows
    /\ TTL \in Nat /\ MaxWindows \in Nat /\ MaxTime \in Nat

VARIABLES
    windows,    \* _windows: id -> WindowInfo, for the ids that are registered
    now,        \* the monotonic clock
    lastCall,   \* history: who made the last call, and what it asked about
    reply       \* what that call answered: its status, and the owner a 409 names

registryVars == <<windows, now, lastCall, reply>>

Names  == Workspaces \cup {NoWorkspace}
Infos  == [workspace: Names, primary: BOOLEAN, created: Nat, last_seen: Nat,
           parent: Windows \cup {NoWindow}]
Matters == {"claim", "role", "leave"}
Status == {"none", "ok", "unknown", "full", "claimed"}

\* ws is a registry: an entry for each of some ids.
IsRegistry(ws) == DOMAIN ws \subseteq Windows /\ ws \in [DOMAIN ws -> Infos]

RegistryTypeOK ==
    /\ IsRegistry(windows)
    /\ now \in 0 .. MaxTime
    /\ lastCall \in [by: Windows \cup {NoWindow}, about: SUBSET Matters]
    /\ reply \in [status: Status, owner: Windows \cup {NoWindow}]

-----------------------------------------------------------------------------
(* The registry's own bookkeeping, as functions of the entries ws. *)

Only(ws, ids)     == [w \in ids |-> ws[w]]
With(ws, w, info) == [x \in DOMAIN ws \cup {w} |-> IF x = w THEN info ELSE ws[x]]

\* A view lives in a shell window and is never the primary window.
Shells(ws) == {w \in DOMAIN ws : ws[w].parent = NoWindow}

\* v was created no later than w.
Before(ws, v, w) ==
    \/ ws[v].created < ws[w].created
    \/ ws[v].created = ws[w].created /\ v <= w

Oldest(ws) == CHOOSE v \in Shells(ws) : \A w \in Shells(ws) : Before(ws, v, w)

\* Fault: the oldest shell takes the role back.
OldestTakesItBack(ws) ==
    IF Shells(ws) = {} THEN ws ELSE [w \in DOMAIN ws |-> [ws[w] EXCEPT !.primary = (w = Oldest(ws))]]

EnsurePrimary(ws) ==
    IF Shells(ws) = {} \/ \E w \in Shells(ws) : ws[w].primary
    THEN ws
    ELSE [ws EXCEPT ![Oldest(ws)].primary = TRUE]

SetPrimary(ws, w) == [x \in DOMAIN ws |-> [ws[x] EXCEPT !.primary = (x = w)]]

Fresh(info) == now - info.last_seen <= TTL

\* _prune_locked.
Pruned == EnsurePrimary(Only(windows, {w \in DOMAIN windows : Fresh(windows[w])}))

Owners(ws, name) ==
    {w \in DOMAIN ws : name \notin {Keep, NoWorkspace} /\ ws[w].workspace = name}

\* Fault: only a shell's claim stands in the way.
ConflictsWithShells(ws, name, w) == (Owners(ws, name) \cap Shells(ws)) \ {w}

Conflicts(ws, name, w) == Owners(ws, name) \ {w}

Ok      == [status |-> "ok", owner |-> NoWindow]
Unknown == [status |-> "unknown", owner |-> NoWindow]
Full    == [status |-> "full", owner |-> NoWindow]

\* The 409 names an owner; there is only one (OneOwner).
Refusal(ws, name, w) == [status |-> "claimed", owner |-> CHOOSE o \in Conflicts(ws, name, w) : TRUE]

-----------------------------------------------------------------------------
(* The calls.  A refused one has still pruned. *)

By(w, about) == lastCall' = [by |-> w, about |-> about]

\* The call leaves ws and answers with answer.
Leaves(ws, answer) == windows' = ws /\ reply' = answer /\ UNCHANGED now

\* snapshot, owner_of.
Snapshot == By(NoWindow, {}) /\ Leaves(Pruned, Ok)

NewInfo == [workspace |-> NoWorkspace, primary |-> FALSE, created |-> now,
            last_seen |-> now, parent |-> NoWindow]

\* Fault: Keep is stored like a name.
KeepIsAName(ws, w, name, parent) ==
    [workspace |-> name, primary |-> FALSE, created |-> now, last_seen |-> now,
     parent |-> parent]

\* Fault: saying hello again drops the claim.
ForgetsTheClaim(ws, w, name, parent) ==
    [NewInfo EXCEPT !.workspace = IF name = Keep THEN @ ELSE name,
                    !.parent = IF parent = w THEN @ ELSE parent]

\* The entry register writes: an omitted workspace keeps the claim, and a parent
\* once set stays.
Registered(ws, w, name, parent) ==
    LET old    == IF w \in DOMAIN ws THEN ws[w] ELSE NewInfo
        asView == parent \notin {NoWindow, w}
    IN  [old EXCEPT !.workspace = IF name = Keep THEN @ ELSE name,
                    !.parent    = IF asView THEN parent ELSE @,
                    !.primary   = IF asView THEN FALSE ELSE @,
                    !.last_seen = now]

AskedPrimary(ws, w, primary) ==
    IF primary /\ ws[w].parent = NoWindow THEN SetPrimary(ws, w) ELSE ws

HasRoom(ws, w) == w \in DOMAIN ws \/ Cardinality(DOMAIN ws) < MaxWindows

Register(w, name, primary, parent) ==
    LET ws  == Pruned
        put == With(ws, w, Registered(ws, w, name, parent))
    IN  /\ By(w, (IF name = Keep THEN {} ELSE {"claim"}) \cup (IF primary THEN {"role"} ELSE {}))
        /\ \/ ~HasRoom(ws, w) /\ Leaves(ws, Full)
           \/ /\ HasRoom(ws, w) /\ Conflicts(ws, name, w) # {}
              /\ Leaves(ws, Refusal(ws, name, w))
           \/ /\ HasRoom(ws, w) /\ Conflicts(ws, name, w) = {}
              /\ Leaves(EnsurePrimary(AskedPrimary(put, w, primary)), Ok)

Heartbeat(w) ==
    LET ws == Pruned
    IN  /\ By(w, {})
        /\ \/ w \notin DOMAIN ws /\ Leaves(ws, Unknown)
           \/ w \in DOMAIN ws /\ Leaves([ws EXCEPT ![w].last_seen = now], Ok)

ClaimWorkspace(w, name) ==
    LET ws == Pruned
    IN  /\ By(w, {"claim"})
        /\ \/ w \notin DOMAIN ws /\ Leaves(ws, Unknown)
           \/ /\ w \in DOMAIN ws /\ Conflicts(ws, name, w) # {}
              /\ Leaves(ws, Refusal(ws, name, w))
           \/ /\ w \in DOMAIN ws /\ Conflicts(ws, name, w) = {}
              /\ Leaves([ws EXCEPT ![w].workspace = name, ![w].last_seen = now], Ok)

\* A window and the views inside it.
Gone(ws, w) == {w} \cup {x \in DOMAIN ws : ws[x].parent = w}

Forget(w) ==
    LET ws == Pruned
    IN  By(w, {"leave"}) /\ Leaves(EnsurePrimary(Only(ws, DOMAIN ws \ Gone(ws, w))), Ok)

Tick ==
    /\ now < MaxTime
    /\ now' = now + 1
    /\ lastCall' = [by |-> NoWindow, about |-> {}]
    /\ reply' = [status |-> "none", owner |-> NoWindow]
    /\ UNCHANGED windows

-----------------------------------------------------------------------------
RegistryInit ==
    /\ windows = [w \in {} |-> NewInfo]
    /\ now = 0
    /\ lastCall = [by |-> NoWindow, about |-> {}]
    /\ reply = [status |-> "none", owner |-> NoWindow]

RegistryNext ==
    \/ Snapshot \/ Tick
    \/ \E w \in Windows :
          \/ Heartbeat(w) \/ Forget(w)
          \/ \E name \in Names : ClaimWorkspace(w, name)
          \/ \E name \in Names \cup {Keep}, primary \in BOOLEAN,
                parent \in Hosts \cup {NoWindow} : Register(w, name, primary, parent)

RegistrySpec == RegistryInit /\ [][RegistryNext]_registryVars

-----------------------------------------------------------------------------
(* What the registry promises. *)

Exclusive(ws) ==
    \A v, w \in DOMAIN ws :
        ws[v].workspace = ws[w].workspace /\ ws[v].workspace # NoWorkspace => v = w

AtMostOnePrimary(ws) ==
    /\ \A w \in DOMAIN ws : ws[w].primary => w \in Shells(ws)
    /\ \A v, w \in DOMAIN ws : ws[v].primary /\ ws[w].primary => v = w

\* A workspace has at most one owner, whatever expires, reloads or registers as
\* a view in between (_refuse_conflict_locked; the module comment of windows.py).
OneOwner == Exclusive(windows)

\* While a shell window is registered exactly one window is primary, and it is a
\* shell: an embedded view runs no launch loop (_ensure_primary_locked).
OnePrimary ==
    /\ AtMostOnePrimary(windows)
    /\ Shells(windows) # {} => \E w \in Shells(windows) : windows[w].primary

\* Only a window that still beats can stand in another's way, and never the
\* caller itself: a crashed window does not lock its workspace out of the app.
BlockedByTheLiving ==
    reply.status = "claimed" =>
        /\ reply.owner \in DOMAIN windows
        /\ Fresh(windows[reply.owner])
        /\ windows[reply.owner].workspace # NoWorkspace

\* A window that beats in time loses its workspace only by a call of its own or
\* with the shell it lives in (register's KEEP, claim, forget, _prune_locked).
BeatingKeepsItsClaim ==
    [][\A w \in DOMAIN windows :
         LET lost == w \notin DOMAIN windows' \/ windows'[w].workspace # windows[w].workspace
         IN  windows[w].workspace # NoWorkspace /\ Fresh(windows[w]) /\ lost =>
               \/ lastCall'.by = w /\ lastCall'.about \cap {"claim", "leave"} # {}
               \/ lastCall'.by = windows[w].parent /\ "leave" \in lastCall'.about]_registryVars

\* The window the Explorer handoff and the summon hotkey aim at changes only when
\* it went or became a view, or when another shell asked for the role.
PrimaryIsStable ==
    [][\A w \in DOMAIN windows \cap DOMAIN windows' :
         windows[w].primary /\ Fresh(windows[w]) /\ ~windows'[w].primary
         => \/ windows'[w].parent # NoWindow
            \/ lastCall'.by # w /\ "role" \in lastCall'.about]_registryVars
=============================================================================
