------------------------------ MODULE Settings -------------------------------
(***************************************************************************)
(* The sheets of panels.js, Settings among them, and the theme switcher over   *)
(* them (theme_switcher.js).  Settings edits a draft of the whole configuration *)
(* and saves what differs from its baseline; the theme switcher saves the theme  *)
(* on its own; other windows save too, and this one follows (config_sync.js,      *)
(* global_settings.js).  A request is answered with the configuration as it was     *)
(* when it was sent or when it arrives.                                            *)
(***************************************************************************)
EXTENDS Focus, FiniteSets

CONSTANTS
    Keys,        \* the keys of the configuration; Theme is one
    Theme, Vals,
    Sheets,      \* the other sheets of panels.js
    None

VARIABLES
    server,      \* the saved configuration
    cfg,         \* what this window last read of it
    shown,       \* the theme on the window
    panel,       \* the open sheet, "settings" or one of Sheets; or None
    view,        \* the Settings view that is drawn, 0 for none
    loads,       \* configurations being read for it
    draft, baseline,
    saving,      \* the save in progress, or None
    sheet,       \* the theme switcher, or None
    persists,    \* its saves in progress or waiting
    sync,        \* the configuration a refresh is reading, or None
    stamps,      \* views and sheets are numbered
    panelClaim, themeClaim

follows == <<cfg, shown, sync>>
settings == <<server, follows, panel, view, loads, draft, baseline, saving, sheet, persists, stamps, panelClaim, themeClaim>>
Configs == [Keys -> Vals]
Switchers == [id : Nat, original : Vals, applied : Vals, selected : Vals, previewed : Vals, settings : BOOLEAN]
Seen(sent) == {sent, server}

-----------------------------------------------------------------------------
(* The sheets. *)

Load == loads' = loads \cup {[id |-> stamps, sent |-> server]} /\ stamps' = stamps + 1

Show(name) ==
    /\ panel' = name
    /\ panelClaim' = IF panel = None THEN Claimed(panelClaim) ELSE panelClaim
    /\ IF name = "settings" THEN Load /\ UNCHANGED view
       ELSE view' = 0 /\ UNCHANGED <<loads, stamps>>
    /\ UNCHANGED <<server, follows, draft, baseline, saving, sheet, persists, themeClaim>>

ClosePanel ==
    /\ panel' = None /\ view' = 0
    /\ panelClaim' = IF panel = None THEN panelClaim ELSE Released(panelClaim)
    /\ UNCHANGED <<server, follows, loads, draft, baseline, saving, sheet, persists, stamps, themeClaim>>

TogglePanel(name) == IF panel = name THEN ClosePanel ELSE Show(name)

\* Any load that arrives while Settings is open draws it, an earlier opening's too.
LoadArrives(j, c) ==
    /\ j \in loads /\ c \in Seen(j.sent)
    /\ loads' = loads \ {j}
    /\ IF panel = "settings"
       THEN draft' = c /\ baseline' = c /\ view' = j.id
       ELSE UNCHANGED <<draft, baseline, view>>
    /\ UNCHANGED <<server, follows, panel, saving, sheet, persists, stamps, panelClaim, themeClaim>>

-----------------------------------------------------------------------------
(* Settings. *)

Edit(k, v) ==
    /\ view # 0 /\ sheet = None /\ draft[k] # v
    /\ draft' = [draft EXCEPT ![k] = v]
    /\ UNCHANGED <<server, follows, panel, view, loads, baseline, saving, sheet, persists, stamps, panelClaim, themeClaim>>

Edited == {k \in Keys : draft[k] # baseline[k]}
Conflict(fresh) == \E k \in Edited : fresh[k] # baseline[k] /\ fresh[k] # draft[k]

SaveSettings ==
    /\ view # 0 /\ saving = None
    /\ saving' = [step |-> "fresh", sent |-> server, patch |-> {}, put |-> server, fresh |-> server]
    /\ UNCHANGED <<server, follows, panel, view, loads, draft, baseline, sheet, persists, stamps, panelClaim, themeClaim>>

\* Settings read what is saved now, and refuses to undo another window's change.
SaveReads(c) ==
    /\ saving # None /\ saving.step = "fresh" /\ c \in Seen(saving.sent)
    /\ saving' = IF Conflict(c) THEN None
                 ELSE [saving EXCEPT !.step = "put", !.patch = Edited, !.put = draft, !.fresh = c]
    /\ UNCHANGED <<server, follows, panel, view, loads, draft, baseline, sheet, persists, stamps, panelClaim, themeClaim>>

Merged(into, from, keys) == [k \in Keys |-> IF k \in keys THEN from[k] ELSE into[k]]
SavePuts(ok) ==
    /\ saving # None /\ saving.step = "put"
    /\ IF ~ ok THEN saving' = None /\ UNCHANGED <<server, draft, baseline>>
       ELSE /\ server' = Merged(server, saving.put, saving.patch)
            /\ draft' = Merged(saving.fresh, draft, saving.patch)
            /\ baseline' = draft'
            /\ saving' = [saving EXCEPT !.step = "follow", !.sent = server']
    /\ UNCHANGED <<follows, panel, view, loads, sheet, persists, stamps, panelClaim, themeClaim>>

\* onConfigSaved: the window takes what it reads, and paints its theme.
Follow(c) == cfg' = c /\ shown' = c[Theme]
SaveFollows(c) ==
    /\ saving # None /\ saving.step = "follow" /\ c \in Seen(saving.sent)
    /\ saving' = None /\ Follow(c)
    /\ UNCHANGED <<server, sync, panel, view, loads, draft, baseline, sheet, persists, stamps, panelClaim, themeClaim>>

-----------------------------------------------------------------------------
(* Other windows. *)

\* A change told while an earlier one is being read is not read again.
OtherSaves(k, v) ==
    /\ server[k] # v
    /\ server' = [server EXCEPT ![k] = v]
    /\ sync' = IF sync = None THEN server' ELSE sync
    /\ UNCHANGED <<cfg, shown, panel, view, loads, draft, baseline, saving, sheet, persists, stamps, panelClaim, themeClaim>>
WindowFocused ==
    /\ sync = None /\ sync' = server
    /\ UNCHANGED <<server, cfg, shown, panel, view, loads, draft, baseline, saving, sheet, persists, stamps, panelClaim, themeClaim>>
SyncArrives(c) ==
    /\ sync # None /\ c \in Seen(sync)
    /\ sync' = None /\ Follow(c)
    /\ UNCHANGED <<server, panel, view, loads, draft, baseline, saving, sheet, persists, stamps, panelClaim, themeClaim>>

-----------------------------------------------------------------------------
(* The theme switcher. *)

Preview(s) == sheet' = s /\ shown' = s.previewed

OpenThemeSwitcher ==
    /\ sheet = None
    /\ sheet' = [id |-> stamps, original |-> cfg[Theme], applied |-> cfg[Theme],
                 selected |-> cfg[Theme], previewed |-> cfg[Theme], settings |-> view # 0]
    /\ stamps' = stamps + 1 /\ themeClaim' = Claimed(themeClaim)
    /\ UNCHANGED <<server, follows, panel, view, loads, draft, baseline, saving, persists, panelClaim>>

SelectTheme(t) ==
    /\ sheet # None /\ Preview([sheet EXCEPT !.selected = t, !.previewed = t])
    /\ UNCHANGED <<server, cfg, sync, panel, view, loads, draft, baseline, saving, persists, stamps, panelClaim, themeClaim>>
HoverTheme(t) ==
    /\ sheet # None /\ Preview([sheet EXCEPT !.previewed = t])
    /\ UNCHANGED <<server, cfg, sync, panel, view, loads, draft, baseline, saving, persists, stamps, panelClaim, themeClaim>>

\* A sheet saves one theme after the other; `kept` is what it last previewed.
Persisting(t, ends) ==
    [sheet |-> sheet.id, n |-> Cardinality({p \in persists : p.sheet = sheet.id}), theme |-> t, ends |-> ends,
     settings |-> sheet.settings, kept |-> sheet.previewed, put |-> FALSE, sent |-> server]
ApplyTheme(t) ==
    /\ sheet # None
    /\ Preview([sheet EXCEPT !.selected = t, !.previewed = t, !.applied = t])
    /\ persists' = persists \cup {Persisting(t, FALSE)}
    /\ UNCHANGED <<server, cfg, sync, panel, view, loads, draft, baseline, saving, stamps, panelClaim, themeClaim>>

\* closePlan: back to where it started, keep the selected one, or keep the applied one.
EndsOn(how) ==
    CASE how = "cancel" -> sheet.original [] how = "done" -> sheet.selected [] how = "outside" -> sheet.applied
CloseThemeSwitcher(how) ==
    /\ sheet # None /\ sheet' = None
    /\ shown' = EndsOn(how)
    /\ themeClaim' = Released(themeClaim)
    /\ persists' = {IF p.sheet = sheet.id THEN [p EXCEPT !.kept = sheet.previewed] ELSE p : p \in persists}
                   \cup (IF EndsOn(how) = sheet.applied THEN {} ELSE {Persisting(EndsOn(how), TRUE)})
    /\ UNCHANGED <<server, cfg, sync, panel, view, loads, draft, baseline, saving, stamps, panelClaim>>

Heads == {p \in persists : \A q \in persists : q.sheet = p.sheet => p.n <= q.n}
\* What the window shows once p is through: the last save of a sheet shows its theme,
\* the others what their sheet previews while a sheet is open.
ShownAfter(p, painted) ==
    CASE p.ends -> p.theme
      [] ~ p.ends /\ sheet = None -> painted
      [] OTHER -> IF sheet.id = p.sheet THEN sheet.previewed ELSE p.kept
PersistPuts(p, ok) ==
    /\ p \in Heads /\ ~ p.put
    /\ IF ok THEN /\ server' = [server EXCEPT ![Theme] = p.theme]
                  /\ persists' = (persists \ {p}) \cup {[p EXCEPT !.put = TRUE, !.sent = server']}
                  /\ UNCHANGED shown
       ELSE /\ persists' = persists \ {p}
            /\ shown' = ShownAfter(p, shown)
            /\ UNCHANGED server
    /\ UNCHANGED <<cfg, sync, panel, view, loads, draft, baseline, saving, sheet, stamps, panelClaim, themeClaim>>
\* The window follows, and Settings below takes the theme.
PersistFollows(p, c) ==
    /\ p \in Heads /\ p.put /\ c \in Seen(p.sent)
    /\ persists' = persists \ {p}
    /\ cfg' = c /\ shown' = ShownAfter(p, c[Theme])
    /\ IF p.settings
       THEN draft' = [draft EXCEPT ![Theme] = p.theme] /\ baseline' = [baseline EXCEPT ![Theme] = p.theme]
       ELSE UNCHANGED <<draft, baseline>>
    /\ UNCHANGED <<server, sync, panel, view, loads, saving, sheet, stamps, panelClaim, themeClaim>>
\* The saved theme was painted over the preview.
CheckDrift ==
    /\ sheet # None /\ shown # sheet.previewed
    /\ shown' = sheet.previewed
    /\ UNCHANGED <<server, cfg, sync, panel, view, loads, draft, baseline, saving, sheet, persists, stamps, panelClaim, themeClaim>>

-----------------------------------------------------------------------------
SettingsInit ==
    /\ server = [k \in Keys |-> CHOOSE v \in Vals : TRUE] /\ cfg = server /\ shown = server[Theme]
    /\ panel = None /\ view = 0 /\ loads = {} /\ draft = server /\ baseline = server
    /\ saving = None /\ sheet = None /\ persists = {} /\ sync = None /\ stamps = 1
    /\ panelClaim = 0 /\ themeClaim = 0

SettingsCommand ==
    \/ \E k \in Keys, v \in Vals : (k # Theme /\ Edit(k, v)) \/ OtherSaves(k, v)
    \/ SaveSettings \/ WindowFocused
    \/ OpenThemeSwitcher
    \/ \E t \in Vals : SelectTheme(t) \/ HoverTheme(t) \/ ApplyTheme(t)
    \/ \E how \in {"cancel", "done", "outside"} : CloseThemeSwitcher(how)

SettingsAnswer ==
    \/ \E c \in Configs :
         \/ \E j \in loads : LoadArrives(j, c)
         \/ SaveReads(c) \/ SaveFollows(c) \/ SyncArrives(c)
         \/ \E p \in persists : PersistFollows(p, c)
    \/ \E ok \in BOOLEAN : SavePuts(ok) \/ \E p \in persists : PersistPuts(p, ok)
    \/ CheckDrift

SettingsTypeOK ==
    /\ server \in Configs /\ cfg \in Configs /\ draft \in Configs /\ baseline \in Configs
    /\ shown \in Vals /\ panel \in Sheets \cup {"settings", None}
    /\ sheet \in Switchers \cup {None}
    /\ view # 0 => panel = "settings"
    /\ \A p \in persists : p.theme \in Vals

(* What "unsaved" is measured against after a save is what was saved, the server's  *)
(* other keys included (panels.js:396): an edit made during the save still counts.   *)
BaselineIsSaved ==
    [][ (saving # None /\ saving' # None /\ saving.step = "put" /\ saving'.step = "follow")
        => baseline' = Merged(saving.fresh, saving.put, saving.patch) ]_settings
=============================================================================
