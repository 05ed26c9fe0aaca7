------------------------------ MODULE Surfaces -------------------------------
(***************************************************************************)
(* Everything that is drawn over the terminals of a window, composed: the       *)
(* palette, the sheets and the theme switcher, the dialogs, the popovers of the  *)
(* usage line and the update card.  shell.js opens one by closing others first;    *)
(* each keeps its own claim on the keyboard (focus), and a terminal takes the       *)
(* keyboard only while there is none.                                               *)
(***************************************************************************)
EXTENDS Palette, Integers

CONSTANTS
    Triggers, Folders, Home, Recent,    \* see Dialogs
    Keys, Theme, Vals, Sheets,          \* see Settings
    MaxReads,                           \* see Usage
    Versions, MaxQueries,               \* see Updates
    MaxCommands                         \* bound: what the user does

VARIABLES
    menu, box, acting, folder, listing, made, creating, known, picked, capturing, find, stamp, held,
    server, cfg, shown, panel, view, loads, draft, baseline, saving, sheet, persists, sync, stamps,
    panelClaim, themeClaim,
    told, parts, popover, pressed, ticking, timer, reads, popovers, popClaim,
    update, current, armed, queries, orders, dismissed, row, busy, caret, cardClaim,
    commands

\* What is closed is told from what is open: None is no folder, sheet or record.
ASSUME SurfacesAssumption ==
    /\ None \notin Triggers \cup Sheets \cup {"settings", "location"}
    /\ Home \in Folders /\ Theme \in Keys /\ Vals # {} /\ Recent \in Nat \ {0} /\ 1 \in Versions

D == INSTANCE Dialogs
S == INSTANCE Settings
U == INSTANCE Usage
W == INSTANCE Updates

ASSUME NoneIsNothing == None \notin D!Boxes \cup D!Browsers \cup D!NewWorkspaces \cup S!Switchers \cup U!Popovers

dialogs == <<menu, box, acting, folder, listing, made, creating, known, picked, capturing, find, stamp, held>>
settings == <<server, cfg, shown, sync, panel, view, loads, draft, baseline, saving, sheet, persists, stamps,
              panelClaim, themeClaim>>
usage == <<told, parts, popover, pressed, ticking, timer, reads, popovers, popClaim>>
updates == <<update, current, armed, queries, orders, dismissed, row, busy, caret, cardClaim>>
sidebar == <<usage, updates>>
vars == <<palette, dialogs, settings, sidebar, commands>>

Free == claim + panelClaim + themeClaim + popClaim + cardClaim = 0
PaletteCloses == IF open THEN Close ELSE UNCHANGED palette
\* A box whose action runs stays, unless the sheet below it goes away.
Idle == IF D!BoxAnswers THEN {"menu"} ELSE {"menu", "confirm"}

TogglePalette ==
    /\ D!Drop({"menu", "confirm"})
    /\ S!ClosePanel
    /\ IF open THEN Close ELSE OpenPalette

\* The board, Settings, help; Alt+G, Alt+S, Alt+I.
ToggleSheet(name) ==
    /\ D!Drop(IF panel = name THEN {"menu", "confirm"} ELSE Idle)
    /\ PaletteCloses
    /\ S!TogglePanel(name)

CloseSheet ==
    /\ panel # None
    /\ D!Drop({"confirm"}) /\ S!ClosePanel /\ UNCHANGED palette
\* Escape in a sheet: a recording field, a menu and a box come first.
SheetEscape ==
    /\ panel # None /\ ~ capturing /\ sheet = None
    /\ IF D!MenuOpen THEN D!DropMenu /\ UNCHANGED <<settings, palette>>
       ELSE IF box # None THEN D!CloseConfirm(FALSE) /\ UNCHANGED <<settings, palette>>
       ELSE CloseSheet

\* Gestures of the sidebar, which no dialog covers.
NewWindow == ~ D!Modal /\ D!Drop({"confirm"}) /\ S!ClosePanel /\ NewWindowMode
Search == ~ D!Modal /\ D!Drop({"menu", "confirm"}) /\ S!ClosePanel /\ OpenPalette
NewWorkspace ==
    \E path \in Folders \cup {None} :
        ~ D!Modal /\ box = None /\ D!OpenNewWorkspace(path) /\ S!ClosePanel /\ PaletteCloses
RecordShortcut == panel = "settings" /\ D!StartCapture /\ UNCHANGED <<palette, settings>>

(* The sidebar's foot and the update card. *)

\* Parts of the usage line are triggers of their popovers like others of their menus.
Press(t, part) ==
    /\ D!Press(t) /\ U!PressOutside(part)
    /\ UNCHANGED <<palette, settings, updates>>
WindowBlur ==
    /\ D!WindowBlur /\ U!PressOutside(None)
    /\ UNCHANGED <<palette, settings, updates>>
ClickPart(part) ==
    /\ ~ D!Modal /\ U!ClickPart(part)
    /\ D!Drop(IF U!OpensPopover(part) THEN {"menu"} ELSE {})
    /\ UNCHANGED <<palette, settings, updates>>

\* About, in Settings: it looks when it is drawn, and has the card's button.
About ==
    /\ panel = "settings"
    /\ W!LooksAgain(TRUE) \/ W!Act("about")
    /\ UNCHANGED <<palette, dialogs, settings, usage>>

-----------------------------------------------------------------------------
OverlayCommand ==
    \/ TogglePalette \/ NewWindow \/ Search \/ NewWorkspace \/ RecordShortcut
    \/ CloseSheet \/ SheetEscape
    \/ \E name \in Sheets \cup {"settings"} : ToggleSheet(name)
    \/ PaletteCommand /\ UNCHANGED <<dialogs, settings>>
    \/ D!DialogCommand(Free) /\ UNCHANGED <<palette, settings>>
    \/ S!SettingsCommand /\ UNCHANGED <<palette, dialogs>>

Command ==
    \/ OverlayCommand /\ UNCHANGED sidebar
    \/ \E t \in Triggers : (t = "location" <=> made # None) /\ folder = None /\ Press(t, None)
    \/ ~ D!Modal /\ Press(None, None)
    \/ \E part \in U!Parts : (~ D!Modal /\ Press(None, part)) \/ ClickPart(part)
    \/ WindowBlur \/ About
    \/ U!UsageCommand /\ UNCHANGED <<palette, dialogs, settings, updates>>
    \/ W!UpdatesCommand /\ UNCHANGED <<palette, dialogs, settings, usage>>

Answer ==
    \/ PaletteAnswer /\ UNCHANGED <<dialogs, settings, sidebar>>
    \/ D!DialogAnswer /\ UNCHANGED <<palette, settings, sidebar>>
    \/ S!SettingsAnswer /\ UNCHANGED <<palette, dialogs, sidebar>>
    \/ U!UsageAnswer /\ UNCHANGED <<palette, dialogs, settings, updates>>
    \/ W!UpdatesAnswer /\ UNCHANGED <<palette, dialogs, settings, usage>>

Init == PaletteInit /\ D!DialogsInit /\ S!SettingsInit /\ U!UsageInit /\ W!UpdatesInit /\ commands = 0
Next ==
    \/ commands < MaxCommands /\ Command /\ commands' = commands + 1
    \/ Answer /\ UNCHANGED commands
Spec == Init /\ [][Next]_vars

TypeOK == PaletteTypeOK /\ D!DialogsTypeOK /\ S!SettingsTypeOK /\ U!UsageTypeOK /\ W!UpdatesTypeOK

(* Each surface that is open holds the keyboard once, and one that is closed does   *)
(* not hold it, whichever gesture, blur or late answer opened and closed them: the   *)
(* terminal gets the keyboard back exactly when nothing covers it.  The update card  *)
(* holds it at least while the caret is in it, and never when it is folded away.      *)
KeyboardIsClaimed ==
    /\ claim = IF open THEN 1 ELSE 0
    /\ panelClaim = IF panel # None THEN 1 ELSE 0
    /\ themeClaim = IF sheet # None THEN 1 ELSE 0
    /\ popClaim = IF popover # None THEN 1 ELSE 0
    /\ \A o \in D!Owners : held[o] = IF D!DialogsOpen(o) THEN 1 ELSE 0
    /\ W!CardClaims

(* What is asked for again and again is what is shown: the popover that is open and  *)
(* no closed one; a download that is shown as running, whichever request for its      *)
(* state failed or was answered late.                                                 *)
WhatIsShownIsPolled == U!TimerFollows /\ W!ProgressIsPolled

(* The surfaces are of their types, and the palette's list is of its mode (Palette). *)
RowsBelong == TypeOK /\ ListIsOfTheMode

(* Properties of the parts (Dialogs, Settings), of the whole. *)
ListingNeverGoesBack == D!ListingNeverGoesBack
BaselineIsSaved == S!BaselineIsSaved
=============================================================================
