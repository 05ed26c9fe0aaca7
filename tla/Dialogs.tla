------------------------------- MODULE Dialogs -------------------------------
(***************************************************************************)
(* The small surfaces over the terminals: the menu (menu.js), the confirmation *)
(* box (confirm_popover.js), the folder browser (folder_browser.js), the new    *)
(* workspace dialog (new_workspace_dialog.js), the Ctrl+Tab list (switcher.js), *)
(* a recording shortcut field (shortcut_input.js) and the find bar of a pane     *)
(* (pane_find.js).  Each claims the keyboard while it is open; the pointer, the  *)
(* keys, a window that loses the focus and answers that arrive late close them.   *)
(***************************************************************************)
EXTENDS Focus, Integers, FiniteSets

CONSTANTS
    Triggers,    \* the buttons that open a menu; "location" is the dialog's
    Folders,     \* folders that can be listed
    Home,        \* the one listed when no path is given
    Recent,      \* how many terminals the Ctrl+Tab list holds
    None

VARIABLES
    menu,        \* [at, toggled]: the trigger of the open menu; the one whose press closed it
    box,         \* the confirmation box: [id, busy, altW], or None
    acting,      \* the boxes whose action has not answered
    folder,      \* the folder browser, or None: whom it answers, its first and its latest
                 \* request, the request listed and its folder, the path bar
    listing,     \* its requests in flight
    made,        \* the new workspace dialog: [id, loc, path, unchecked, busy], or None
    creating,    \* its requests in flight
    known,       \* the workspaces that exist, by location and folder
    picked,      \* the row of the Ctrl+Tab list, 0 while it is closed
    capturing,   \* a shortcut field records
    find,        \* "none", "hidden", "shown"; and "caret" with the caret in it
    stamp,       \* requests and boxes are numbered
    held         \* claims on the keyboard, per surface

dialogs == <<menu, box, acting, folder, listing, made, creating, known, picked, capturing, find, stamp, held>>
Owners == {"menu", "confirm", "folder-browser", "new-workspace", "switcher", "shortcut", "pane-find"}

\* What the box, the browser and the dialog keep while they are open.
Boxes == [id : Nat, busy : BOOLEAN, altW : BOOLEAN]
Browsers == [for : Nat, first : Nat, asked : Nat, of : Nat, here : Folders \cup {None}, bar : Folders \cup {None}]
NewWorkspaces ==
    [id : Nat, loc : {"local", "remote"}, path : Folders \cup {None},
     unchecked : ({"local", "remote"} \X (Folders \cup {None})) \cup {None}, busy : BOOLEAN]

Take(o) == held' = [held EXCEPT ![o] = Claimed(@)]
Lets(S) == held' = [o \in Owners |-> IF o \in S THEN Released(held[o]) ELSE held[o]]
If(cond, S) == IF cond THEN S ELSE {}

MenuOpen == menu.at # None
BoxAnswers == box # None /\ box.busy

-----------------------------------------------------------------------------
(* The menu. *)

ToggleMenu(t) ==
    /\ menu' = [at |-> IF menu.toggled = t THEN menu.at ELSE t, toggled |-> None]
    /\ held' = IF menu.toggled = t THEN held
               ELSE [held EXCEPT !["menu"] = Claimed(IF MenuOpen THEN Released(@) ELSE @)]
    /\ UNCHANGED <<box, acting, folder, listing, made, creating, known, picked, capturing, find, stamp>>

\* The open menu goes away without a press on its trigger.
MenuGone == menu' = [menu EXCEPT !.at = None]
DropMenu ==
    /\ MenuOpen /\ MenuGone /\ Lets({"menu"})
    /\ UNCHANGED <<box, acting, folder, listing, made, creating, known, picked, capturing, find, stamp>>

\* Others close the menu and the box for what they open.
Drop(S) ==
    /\ menu' = IF "menu" \in S THEN [menu EXCEPT !.at = None] ELSE menu
    /\ box' = IF "confirm" \in S THEN None ELSE box
    /\ Lets(If(MenuOpen, {"menu"} \cap S) \cup If(box # None, {"confirm"} \cap S))
    /\ UNCHANGED <<acting, folder, listing, made, creating, known, picked, capturing, find, stamp>>

\* 600 ms after the press that closed a menu its click opens it again.
ToggleExpires ==
    /\ menu.toggled # None
    /\ menu' = [menu EXCEPT !.toggled = None]
    /\ UNCHANGED <<box, acting, folder, listing, made, creating, known, picked, capturing, find, stamp, held>>

-----------------------------------------------------------------------------
(* The confirmation box. *)

\* Also over a box that is running its action.
ConfirmNear(altW) ==
    /\ box' = [id |-> stamp, busy |-> FALSE, altW |-> altW]
    /\ stamp' = stamp + 1
    /\ held' = [held EXCEPT !["confirm"] = Claimed(IF box # None THEN Released(@) ELSE @)]
    /\ UNCHANGED <<menu, acting, folder, listing, made, creating, known, picked, capturing, find>>

\* The button, Enter, and Alt+W where the box takes it.
RunAction ==
    /\ box # None /\ ~ box.busy
    /\ box' = [box EXCEPT !.busy = TRUE]
    /\ acting' = acting \cup {box.id}
    /\ UNCHANGED <<menu, folder, listing, made, creating, known, picked, capturing, find, stamp, held>>
AcceptConfirm == box # None /\ box.altW /\ RunAction

\* Cancel, Escape, a press elsewhere: not while the action runs.  A caller whose
\* whole surface goes away forces it.
CloseConfirm(force) ==
    /\ box # None /\ (force \/ ~ box.busy)
    /\ box' = None /\ Lets({"confirm"})
    /\ UNCHANGED <<menu, acting, folder, listing, made, creating, known, picked, capturing, find, stamp>>
\* Its trigger scrolled away or left the page.
TriggerGone == CloseConfirm(TRUE)

ActionAnswers(b, ok) ==
    /\ b \in acting
    /\ acting' = acting \ {b}
    /\ IF box = None \/ box.id # b THEN UNCHANGED <<box, held>>
       ELSE IF ok THEN box' = None /\ Lets({"confirm"})
       ELSE box' = [box EXCEPT !.busy = FALSE] /\ UNCHANGED held
    /\ UNCHANGED <<menu, folder, listing, made, creating, known, picked, capturing, find, stamp>>

-----------------------------------------------------------------------------
(* The folder browser.  A request is answered only to the browser that sent it   *)
(* and only while it is the latest; requests are numbered across browsers.       *)

Request(kind, path) == [kind |-> kind, path |-> path, id |-> stamp]
Listed(j) == IF j.path = None THEN Home ELSE j.path
\* Fault: the token is taken when the answer arrives.
AnyAnswer(j) == folder # None
Latest(j) == folder # None /\ j.id = folder.asked
Go(kind, path) ==
    /\ listing' = listing \cup {Request(kind, path)}
    /\ stamp' = stamp + 1

OpenFolderBrowser(for, path) ==
    /\ folder = None
    /\ folder' = [for |-> for, first |-> stamp, asked |-> stamp, of |-> 0, here |-> None, bar |-> path]
    /\ Go(IF path = None THEN "go" ELSE "start", path)
    /\ Take("folder-browser")
    /\ UNCHANGED <<menu, box, acting, made, creating, known, picked, capturing, find>>

\* A row, the parent, a root, or the path bar with Enter.
FolderGo(path) ==
    /\ folder # None
    /\ folder' = [folder EXCEPT !.asked = stamp]
    /\ Go("go", path)
    /\ UNCHANGED <<menu, box, acting, made, creating, known, picked, capturing, find, held>>

FolderTypes(path) ==
    /\ folder # None /\ folder.bar # path
    /\ folder' = [folder EXCEPT !.bar = path]
    /\ UNCHANGED <<menu, box, acting, listing, made, creating, known, picked, capturing, find, stamp, held>>

\* What was chosen reaches the dialog below, if that is still open.
FolderFinish(path) ==
    /\ folder' = None /\ Lets({"folder-browser"})
    /\ made' = IF made # None /\ folder.for = made.id /\ path # None
               THEN [made EXCEPT !.path = path, !.unchecked = None] ELSE made

UseHere ==
    /\ folder # None /\ (folder.bar # None \/ folder.here # None)
    /\ IF folder.bar \in {None, folder.here}
       THEN folder.here # None /\ FolderFinish(folder.here) /\ UNCHANGED <<listing, stamp>>
       ELSE /\ folder' = [folder EXCEPT !.asked = stamp] /\ Go("use", folder.bar)
            /\ UNCHANGED <<made, held>>
    /\ UNCHANGED <<menu, box, acting, creating, known, picked, capturing, find>>

CancelFolder ==
    /\ folder # None /\ FolderFinish(None)
    /\ UNCHANGED <<menu, box, acting, listing, creating, known, picked, capturing, find, stamp>>

\* The system's own folder dialog answered.
NativePicked(path) ==
    /\ folder # None /\ FolderFinish(path)
    /\ UNCHANGED <<menu, box, acting, listing, creating, known, picked, capturing, find, stamp>>

\* The first listing that brought nothing is followed by the home folder's.
FolderAnswer(j, ok) ==
    /\ j \in listing
    /\ IF Latest(j) /\ ok
       THEN /\ listing' = listing \ {j} /\ UNCHANGED stamp
            /\ IF j.kind = "use" THEN FolderFinish(Listed(j))
               ELSE /\ folder' = [folder EXCEPT !.here = Listed(j), !.bar = Listed(j), !.of = j.id]
                    /\ UNCHANGED <<made, held>>
       ELSE /\ UNCHANGED <<made, held>>
            /\ IF j.kind = "start" /\ folder # None /\ j.id = folder.first
               THEN /\ folder' = [folder EXCEPT !.asked = stamp]
                    /\ listing' = (listing \ {j}) \cup {Request("go", None)}
                    /\ stamp' = stamp + 1
               ELSE listing' = listing \ {j} /\ UNCHANGED <<folder, stamp>>
    /\ UNCHANGED <<menu, box, acting, creating, known, picked, capturing, find>>

-----------------------------------------------------------------------------
(* The new workspace dialog.  A local folder is listed before it is saved, a      *)
(* remote one is checked, and a remote one that failed the check is saved when    *)
(* it is asked for again unchanged.                                               *)

Key == <<made.loc, made.path>>
Call(step, key) == [step |-> step, key |-> key, of |-> made.id]

OpenNewWorkspace(suggested) ==
    /\ made = None
    /\ made' = [id |-> stamp, loc |-> "local", path |-> suggested, unchecked |-> None, busy |-> FALSE]
    /\ stamp' = stamp + 1
    /\ Take("new-workspace")
    /\ UNCHANGED <<menu, box, acting, folder, listing, creating, known, picked, capturing, find>>

FinishNewWorkspace == made' = None /\ Lets({"new-workspace"})
CancelNewWorkspace ==
    /\ made # None /\ folder = None /\ FinishNewWorkspace
    /\ UNCHANGED <<menu, box, acting, folder, listing, creating, known, picked, capturing, find, stamp>>

TypeFolder(path) ==
    /\ made # None /\ made.path # path
    /\ made' = [made EXCEPT !.path = path, !.unchecked = None]
    /\ UNCHANGED <<menu, box, acting, folder, listing, creating, known, picked, capturing, find, stamp, held>>

\* A row of the location menu.
ChooseLocation(loc) ==
    /\ menu.at = "location" /\ MenuGone /\ Lets({"menu"})
    /\ made' = IF made = None THEN made
               ELSE [made EXCEPT !.loc = loc, !.unchecked = None,
                                 !.path = IF loc = made.loc THEN @ ELSE None]
    /\ UNCHANGED <<box, acting, folder, listing, creating, known, picked, capturing, find, stamp>>

Browse ==
    /\ made # None /\ OpenFolderBrowser(made.id, made.path)

NeedsNoCheck == made.unchecked = Key \/ Key \in known
Create ==
    /\ made # None /\ ~ made.busy /\ made.path # None
    /\ made' = [made EXCEPT !.busy = TRUE]
    /\ creating' = creating \cup
         { Call(IF made.loc = "local" THEN "list" ELSE IF NeedsNoCheck THEN "save" ELSE "check", Key) }
    /\ UNCHANGED <<menu, box, acting, folder, listing, known, picked, capturing, find, stamp, held>>

\* The listing or the check answered; a dialog closed meanwhile saves nothing.
ChecksOut(c, ok) ==
    /\ c \in creating /\ c.step \in {"list", "check"}
    /\ IF made = None \/ made.id # c.of THEN creating' = creating \ {c} /\ UNCHANGED made
       ELSE IF ok
       THEN creating' = (creating \ {c}) \cup {[c EXCEPT !.step = "save"]} /\ UNCHANGED made
       ELSE /\ creating' = creating \ {c}
            /\ made' = IF c.step = "list" THEN [made EXCEPT !.busy = FALSE]
                       ELSE [made EXCEPT !.busy = FALSE, !.unchecked = c.key]
    /\ UNCHANGED <<menu, box, acting, folder, listing, known, picked, capturing, find, stamp, held>>

\* A save once sent is carried out, whether or not the dialog still shows.
Saved(c, ok) ==
    /\ c \in creating /\ c.step = "save"
    /\ creating' = creating \ {c}
    /\ known' = IF ok THEN known \cup {c.key} ELSE known
    /\ IF made = None \/ made.id # c.of THEN UNCHANGED <<made, held>>
       ELSE IF ok THEN FinishNewWorkspace
       ELSE made' = [made EXCEPT !.busy = FALSE] /\ UNCHANGED held
    /\ UNCHANGED <<menu, box, acting, folder, listing, picked, capturing, find, stamp>>

-----------------------------------------------------------------------------
(* The Ctrl+Tab list, a shortcut field and the find bar. *)

Around(i) == ((i - 1) % Recent) + 1
\* Ctrl+Tab: steps in the open list; opens it only while no surface has the keyboard.
Step(delta, free) ==
    /\ ~ capturing
    /\ IF picked # 0
       THEN picked' = Around(picked + delta + Recent) /\ UNCHANGED held
       ELSE /\ free /\ \A o \in Owners : held[o] = 0
            /\ picked' = IF delta < 0 THEN Recent ELSE Around(2)
            /\ Take("switcher")
    /\ UNCHANGED <<menu, box, acting, folder, listing, made, creating, known, capturing, find, stamp>>
\* Ctrl released, Enter or a row; or Escape.
EndSwitch ==
    /\ picked # 0 /\ picked' = 0 /\ Lets({"switcher"})
    /\ UNCHANGED <<menu, box, acting, folder, listing, made, creating, known, capturing, find, stamp>>

StartCapture ==
    /\ ~ capturing /\ capturing' = TRUE /\ Take("shortcut")
    /\ UNCHANGED <<menu, box, acting, folder, listing, made, creating, known, picked, find, stamp>>
\* The keys are recorded, cleared or given up.
FinishCapture ==
    /\ capturing /\ capturing' = FALSE /\ Lets({"shortcut"})
    /\ UNCHANGED <<menu, box, acting, folder, listing, made, creating, known, picked, find, stamp>>

OpenFind ==
    /\ find' = "caret"
    /\ IF find = "caret" THEN UNCHANGED held ELSE Take("pane-find")
    /\ UNCHANGED <<menu, box, acting, folder, listing, made, creating, known, picked, capturing, stamp>>
\* Escape and its button hide the bar; the pane's end removes it.
CloseFind(how) ==
    /\ find \in {"shown", "caret"} /\ find' = how
    /\ IF find = "caret" THEN Lets({"pane-find"}) ELSE UNCHANGED held
    /\ UNCHANGED <<menu, box, acting, folder, listing, made, creating, known, picked, capturing, stamp>>
CaretReturns ==
    /\ find = "shown" /\ OpenFind

-----------------------------------------------------------------------------
(* The pointer and the window. *)

\* What leaves with the element that had the caret.
Blurred ==
    /\ picked' = 0 /\ capturing' = FALSE
    /\ find' = IF find = "caret" THEN "shown" ELSE find
CaretOwners == If(picked # 0, {"switcher"}) \cup If(capturing, {"shortcut"}) \cup If(find = "caret", {"pane-find"})

\* A press outside the open menu and box, on a trigger or elsewhere (None).
Press(t) ==
    /\ menu' = [at |-> None, toggled |-> IF MenuOpen /\ menu.at = t THEN t ELSE menu.toggled]
    /\ box' = IF BoxAnswers THEN box ELSE None
    /\ Blurred
    /\ Lets(CaretOwners \cup If(MenuOpen, {"menu"}) \cup If(box # None /\ ~ box.busy, {"confirm"}))
    /\ UNCHANGED <<acting, folder, listing, made, creating, known, stamp>>

\* The window loses the focus: also a press into a workspace view.
WindowBlur ==
    /\ MenuGone
    /\ box' = IF BoxAnswers THEN box ELSE None
    /\ Blurred
    /\ Lets(CaretOwners \cup If(MenuOpen, {"menu"}) \cup If(box # None /\ ~ box.busy, {"confirm"}))
    /\ UNCHANGED <<acting, folder, listing, made, creating, known, stamp>>

-----------------------------------------------------------------------------
DialogsInit ==
    /\ menu = [at |-> None, toggled |-> None]
    /\ box = None /\ acting = {} /\ folder = None /\ listing = {}
    /\ made = None /\ creating = {} /\ known = {}
    /\ picked = 0 /\ capturing = FALSE /\ find = "none" /\ stamp = 1
    /\ held = [o \in Owners |-> 0]

Modal == folder # None \/ made # None
DialogCommand(free) ==
    \/ \E t \in Triggers :
         /\ t = "location" <=> made # None
         /\ folder = None
         /\ ToggleMenu(t)
    \/ ~ Modal /\ \E altW \in BOOLEAN : ConfirmNear(altW)
    \/ DropMenu
    \/ \E loc \in {"local", "remote"} : ChooseLocation(loc)
    \/ RunAction \/ AcceptConfirm \/ CloseConfirm(FALSE) \/ TriggerGone
    \/ \E path \in Folders : FolderGo(path) \/ FolderTypes(path) \/ NativePicked(path) \/ (folder = None /\ TypeFolder(path))
    \/ UseHere \/ CancelFolder \/ CancelNewWorkspace
    \/ folder = None /\ (Browse \/ Create)
    \/ ~ Modal /\ (\E path \in Folders \cup {None} : OpenNewWorkspace(path))
    \/ ~ Modal /\ (\E path \in Folders : OpenFolderBrowser(0, path))
    \/ \E delta \in {1, -1} : Step(delta, free)
    \/ EndSwitch \/ FinishCapture
    \/ ~ Modal /\ (OpenFind \/ CaretReturns)
    \/ CloseFind("hidden") \/ CloseFind("none")

DialogAnswer ==
    \/ \E b \in acting, ok \in BOOLEAN : ActionAnswers(b, ok)
    \/ \E j \in listing, ok \in BOOLEAN : FolderAnswer(j, ok)
    \/ \E c \in creating, ok \in BOOLEAN : ChecksOut(c, ok) \/ Saved(c, ok)
    \/ ToggleExpires

DialogsTypeOK ==
    /\ menu.at \in Triggers \cup {None} /\ menu.toggled \in Triggers \cup {None}
    /\ picked \in 0 .. Recent /\ find \in {"none", "hidden", "shown", "caret"}
    /\ box \in Boxes \cup {None} /\ folder \in Browsers \cup {None} /\ made \in NewWorkspaces \cup {None}
    /\ \A j \in listing : j.id < stamp /\ j.path \in Folders \cup {None}
    /\ \A c \in creating : c.step \in {"list", "check", "save"}
    /\ known \subseteq {"local", "remote"} \X Folders

DialogsOpen(o) ==
    CASE o = "menu" -> MenuOpen
      [] o = "confirm" -> box # None
      [] o = "folder-browser" -> folder # None
      [] o = "new-workspace" -> made # None
      [] o = "switcher" -> picked # 0
      [] o = "shortcut" -> capturing
      [] o = "pane-find" -> find = "caret"

(* The folder browser never goes back to the listing of an earlier request, in      *)
(* whatever order slow folders (WSL, a network share) answer.                        *)
ListingNeverGoesBack ==
    [][ (folder # None /\ folder' # None /\ folder'.first = folder.first) => folder'.of >= folder.of ]_dialogs

=============================================================================
