---------------------------- MODULE SurfacesProofs ----------------------------
(***************************************************************************)
(* For any number of commands and of answers in flight, in any order: every       *)
(* surface over the terminals has exactly the claims on the keyboard that it       *)
(* needs, and what is polled is what is shown.  The parts do not refer to one       *)
(* another, so their invariants are kept one by one and put together at the end.    *)
(***************************************************************************)
EXTENDS Surfaces, FiniteSetTheorems, WellFoundedInduction, TLAPS

-----------------------------------------------------------------------------
(* The usage line. *)

\* A popover that is drawn is told from none; it is asked for, and claims the keyboard.
UsageInv ==
    /\ popovers \in Nat
    /\ U!TimerFollows
    /\ popClaim = IF popover # None THEN 1 ELSE 0

\* A popover that goes takes its timer and its claim with it.
LEMMA PopoverGoes ==
    ASSUME UsageInv, U!Gone, popovers' = popovers
    PROVE  UsageInv'
BY DEF UsageInv, U!Gone, U!TimerFollows, U!Released

\* One that comes replaces the timer and the claim of the one before.
LEMMA PopoverComes ==
    ASSUME UsageInv, NEW part \in U!Parts, U!ShowPopover(part)
    PROVE  UsageInv'
<1>. DEFINE new == [part |-> part, id |-> popovers]
<1>1. new # None
  BY NoneIsNothing DEF UsageInv, U!Popovers
<1>2. popover' = new /\ timer' = new /\ popovers' = popovers + 1 /\ ticking' = (ticking \ {timer}) \cup {new}
  BY DEF U!ShowPopover
<1>3. popClaim' = 1
  BY DEF UsageInv, U!ShowPopover, U!Claimed, U!Released
<1>. HIDE DEF new
<1>. QED  BY <1>1, <1>2, <1>3 DEF UsageInv, U!TimerFollows

\* A step that touches none of them.
LEMMA PopoverStays ==
    ASSUME UsageInv, UNCHANGED <<popover, timer, ticking, popClaim, popovers>>
    PROVE  UsageInv'
BY DEF UsageInv, U!TimerFollows

\* Whatever happens at the foot of the sidebar (usage_footer.js).
LEMMA UsageStep ==
    ASSUME UsageInv,
           \/ UNCHANGED usage
           \/ \E part \in U!Parts : U!ClickPart(part)
           \/ \E part \in U!Parts \cup {None} : U!PressOutside(part)
           \/ U!UsageCommand
           \/ U!UsageAnswer
    PROVE  UsageInv'
<1>1. CASE UNCHANGED usage
  BY <1>1, PopoverStays DEF usage
<1>2. ASSUME NEW part \in U!Parts, U!ClickPart(part) PROVE UsageInv'
  BY <1>2, PopoverComes, PopoverGoes, PopoverStays DEF U!ClickPart
<1>3. ASSUME NEW part \in U!Parts \cup {None}, U!PressOutside(part) PROVE UsageInv'
  BY <1>3, PopoverGoes, PopoverStays DEF U!PressOutside
<1>4. CASE U!UsageCommand
  <2>1. CASE U!ClosePopover
    BY <2>1, PopoverGoes DEF U!ClosePopover
  <2>2. ASSUME NEW p \in ticking, U!Tick(p) PROVE UsageInv'
    BY <2>2, PopoverStays DEF U!Tick
  <2>3. ASSUME NEW full \in BOOLEAN, U!RefreshLine(full) PROVE UsageInv'
    BY <2>3, PopoverGoes, PopoverStays DEF U!RefreshLine
  <2>. QED  BY <1>4, <2>1, <2>2, <2>3 DEF U!UsageCommand
<1>5. CASE U!UsageAnswer
  BY <1>5, PopoverStays DEF U!UsageAnswer, U!ReadFails, U!ReadAnswer, U!PressExpires
<1>. QED  BY <1>1, <1>2, <1>3, <1>4, <1>5

-----------------------------------------------------------------------------
(* The update card. *)

\* A running download is polled, and the card's claim goes with its caret.
UpdatesInv ==
    /\ armed \in BOOLEAN
    /\ W!ProgressIsPolled
    /\ W!CardClaims

\* What the caret and the claim may become when the card is drawn anew.
LEMMA CardIsDrawn ==
    ASSUME W!CardClaims, NEW c, NEW version, NEW enabled \in BOOLEAN, W!Draw(c, version, enabled),
           current' = c, dismissed' = version
    PROVE  W!CardClaims'
BY DEF W!CardClaims, W!Draw, W!LeaveCard, W!LosesCaret, W!Release, W!Released, W!Visible, W!CardVisible

\* A card that stays where it is keeps its claim, or loses the caret first.
LEMMA CardStays ==
    ASSUME W!CardClaims, UNCHANGED <<current, dismissed>>,
           UNCHANGED <<caret, cardClaim>> \/ W!LosesCaret \/ W!LeaveCard
    PROVE  W!CardClaims'
BY DEF W!CardClaims, W!LosesCaret, W!LeaveCard, W!Release, W!Released, W!Visible

\* No request of the poll is lost, and the timer stays armed.
LEMMA PollStays ==
    ASSUME W!ProgressIsPolled, current' = current, armed' = armed, queries \subseteq queries'
    PROVE  W!ProgressIsPolled'
BY DEF W!ProgressIsPolled, W!ShouldPoll

\* The card's gestures, About's button, the probe and the backend's own steps (updates.js, update_card.js).
LEMMA UpdatesCommandKeeps ==
    ASSUME UpdatesInv, W!UpdatesCommand \/ W!LooksAgain(TRUE) \/ W!Act("about")
    PROVE  UpdatesInv'
<1>1. ASSUME NEW control \in {"button", "minimize", "notes"}, W!CaretEnters(control) PROVE UpdatesInv'
  <2>1. W!CardClaims'
    BY <1>1 DEF UpdatesInv, W!CardClaims, W!CaretEnters, W!Claimed, W!Visible
  <2>. QED  BY <1>1, <2>1, PollStays DEF UpdatesInv, W!CaretEnters
<1>2. CASE W!CaretLeaves
  BY <1>2, PollStays, CardStays DEF UpdatesInv, W!CaretLeaves
<1>3. CASE W!Collapse
  <2>1. W!CardClaims'
    BY <1>3, CardIsDrawn DEF UpdatesInv, W!Collapse
  <2>. QED  BY <1>3, <2>1, PollStays DEF UpdatesInv, W!Collapse
<1>4. CASE W!Reopen
  <2>1. W!CardClaims'
    BY <1>4, CardIsDrawn DEF UpdatesInv, W!Reopen
  <2>. QED  BY <1>4, <2>1, PollStays DEF UpdatesInv, W!Reopen
<1>5. ASSUME NEW who, W!Act(who) PROVE UpdatesInv'
  BY <1>5, PollStays, CardStays DEF UpdatesInv, W!Act
<1>6. ASSUME NEW about, W!LooksAgain(about) PROVE UpdatesInv'
  BY <1>6, PollStays, CardStays DEF UpdatesInv, W!LooksAgain, W!Looks, W!Query, W!card
<1>7. ASSUME NEW v, W!Probe(v) PROVE UpdatesInv'
  BY <1>7, PollStays, CardStays DEF UpdatesInv, W!Probe, W!card
<1>8. ASSUME NEW state, W!BackendSteps(state) PROVE UpdatesInv'
  BY <1>8, PollStays, CardStays DEF UpdatesInv, W!BackendSteps, W!card
<1>. QED  BY <1>1, <1>2, <1>3, <1>4, <1>5, <1>6, <1>7, <1>8 DEF W!UpdatesCommand

\* Answers of the backend, and the poll.
LEMMA UpdatesAnswerKeeps ==
    ASSUME UpdatesInv, W!UpdatesAnswer
    PROVE  UpdatesInv'
<1>1. ASSUME NEW a \in orders, W!ActAnswers(a) PROVE UpdatesInv'
  BY <1>1, PollStays, CardStays DEF UpdatesInv, W!ActAnswers, W!card
\* Its timer is armed again as long as a download is shown.
<1>2. ASSUME NEW q \in queries, W!QueryFails(q) PROVE UpdatesInv'
  <2>1. W!ProgressIsPolled'
    BY <1>2 DEF UpdatesInv, W!ProgressIsPolled, W!ShouldPoll, W!QueryFails
  <2>. QED  BY <1>2, <2>1, CardStays DEF UpdatesInv, W!QueryFails
\* An answer arms it for what it says.
<1>3. ASSUME NEW q \in queries, NEW c, W!QueryAnswers(q, c) PROVE UpdatesInv'
  <2>1. W!ProgressIsPolled' /\ armed' \in BOOLEAN
    BY <1>3 DEF UpdatesInv, W!ProgressIsPolled, W!ShouldPoll, W!QueryAnswers
  <2>2. W!CardClaims'
    <3>1. (q.for = "card") \in BOOLEAN
      OBVIOUS
    <3>. QED  BY <1>3, <3>1, CardIsDrawn DEF UpdatesInv, W!QueryAnswers
  <2>. QED  BY <2>1, <2>2 DEF UpdatesInv
\* The request takes the place of the timer.
<1>4. CASE W!Poll
  <2>1. W!ProgressIsPolled'
    <3>. DEFINE poll == [for |-> "poll", saw |-> update]
    <3>1. poll \in queries' /\ poll.for = "poll"
      BY <1>4 DEF W!Poll, W!Query
    <3>. QED  BY <3>1 DEF W!ProgressIsPolled
  <2>. QED  BY <1>4, <2>1, CardStays DEF UpdatesInv, W!Poll, W!card
<1>. QED  BY <1>1, <1>2, <1>3, <1>4 DEF W!UpdatesAnswer
-----------------------------------------------------------------------------
(* The dialogs. *)

\* What the parts of the dialogs hold.
Menus == [at : Triggers \cup {None}, toggled : Triggers \cup {None}]
Listings == [kind : {"go", "start", "use"}, path : Folders \cup {None}, id : Nat]
Places == {"local", "remote"} \X (Folders \cup {None})
Calls == [step : {"list", "check", "save"}, key : Places, of : Nat]
Finds == {"none", "hidden", "shown", "caret"}

DialogsTyped ==
    /\ menu \in Menus /\ box \in D!Boxes \cup {None}
    /\ folder \in D!Browsers \cup {None} /\ listing \subseteq Listings
    /\ made \in D!NewWorkspaces \cup {None} /\ creating \subseteq Calls
    /\ picked \in 0 .. Recent /\ capturing \in BOOLEAN /\ find \in Finds /\ stamp \in Nat

\* A surface that shows holds one claim, and one that does not holds none.
Holds(o, shows) == held[o] = IF shows THEN 1 ELSE 0
OpenHold ==
    /\ held \in [D!Owners -> Nat]
    /\ Holds("menu", menu.at # None)
    /\ Holds("confirm", box # None)
    /\ Holds("folder-browser", folder # None)
    /\ Holds("new-workspace", made # None)
    /\ Holds("switcher", picked # 0)
    /\ Holds("shortcut", capturing)
    /\ Holds("pane-find", find = "caret")
DialogsInv == DialogsTyped /\ OpenHold

\* Letting go of claims that are held takes them away and no others.
LEMMA LetsGo ==
    ASSUME held \in [D!Owners -> Nat], NEW those, D!Lets(those)
    PROVE  /\ held' \in [D!Owners -> Nat]
           /\ \A o \in D!Owners : held'[o] = IF o \in those THEN D!Released(held[o]) ELSE held[o]
BY DEF D!Lets, D!Released

\* Taking one more claim leaves the others.
LEMMA TakesOne ==
    ASSUME held \in [D!Owners -> Nat], NEW o \in D!Owners, D!Take(o)
    PROVE  /\ held' \in [D!Owners -> Nat]
           /\ \A p \in D!Owners : held'[p] = IF p = o THEN held[p] + 1 ELSE held[p]
BY DEF D!Take, D!Claimed

\* What is open is not None.
LEMMA OpenIsSome ==
    /\ \A b \in D!Boxes : b # None
    /\ \A f \in D!Browsers : f # None
    /\ \A m \in D!NewWorkspaces : m # None
    /\ \A s \in S!Switchers : s # None
BY NoneIsNothing

\* The menu's trigger opens and closes it (menu.js); its rows are in DialogKeeps.
LEMMA MenuKeeps ==
    ASSUME DialogsInv,
           \/ \E t \in Triggers : D!ToggleMenu(t)
           \/ D!DropMenu \/ D!ToggleExpires
    PROVE  DialogsInv'
<1>0. \A t \in Triggers : t # None
  BY SurfacesAssumption
<1>1. ASSUME NEW t \in Triggers, D!ToggleMenu(t) PROVE DialogsInv'
  BY <1>0, <1>1 DEF DialogsInv, DialogsTyped, OpenHold, Holds, Menus, D!ToggleMenu, D!MenuOpen, D!Owners, D!Claimed, D!Released
<1>2. CASE D!DropMenu
  <2>1. OpenHold'
    BY <1>2, LetsGo DEF DialogsInv, DialogsTyped, OpenHold, Holds, Menus, D!DropMenu, D!MenuGone, D!MenuOpen, D!Owners, D!Released
  <2>. QED  BY <1>2, <2>1 DEF DialogsInv, DialogsTyped, Menus, D!DropMenu, D!MenuGone
<1>3. CASE D!ToggleExpires
  BY <1>3 DEF DialogsInv, DialogsTyped, OpenHold, Holds, Menus, D!ToggleExpires
<1>. QED  BY <1>1, <1>2, <1>3

\* What another surface closes for itself: claims go with what they are of.
LEMMA DropKeeps ==
    ASSUME DialogsInv, NEW those, D!Drop(those)
    PROVE  DialogsInv'
<1>1. OpenHold'
  BY LetsGo DEF DialogsInv, DialogsTyped, OpenHold, Holds, Menus, D!Drop, D!If, D!MenuOpen, D!Owners, D!Released
<1>. QED  BY <1>1 DEF DialogsInv, DialogsTyped, Menus, D!Drop

\* The confirmation box: also one that replaces another, and an action that answers late.
LEMMA BoxKeeps ==
    ASSUME DialogsInv,
           \/ \E altW \in BOOLEAN : D!ConfirmNear(altW)
           \/ D!RunAction \/ D!AcceptConfirm
           \/ \E force \in BOOLEAN : D!CloseConfirm(force)
           \/ \E b \in acting, ok \in BOOLEAN : D!ActionAnswers(b, ok)
    PROVE  DialogsInv'
<1>1. ASSUME NEW altW \in BOOLEAN, D!ConfirmNear(altW) PROVE DialogsInv'
  <2>1. box' \in D!Boxes
    BY <1>1 DEF DialogsInv, DialogsTyped, D!ConfirmNear, D!Boxes
  <2>2. OpenHold'
    <3>1. held["confirm"] = IF box # None THEN 1 ELSE 0
      BY DEF DialogsInv, OpenHold, Holds
    <3>2. D!Claimed(IF box # None THEN D!Released(held["confirm"]) ELSE held["confirm"]) = 1
      BY <3>1 DEF D!Claimed, D!Released
    <3>3. held' = [held EXCEPT !["confirm"] = 1]
      BY <1>1, <3>2 DEF D!ConfirmNear
    <3>4. /\ held' \in [D!Owners -> Nat] /\ held'["confirm"] = 1
          /\ \A o \in D!Owners \ {"confirm"} : held'[o] = held[o]
      BY <3>3 DEF DialogsInv, OpenHold, D!Owners
    <3>5. UNCHANGED <<menu, folder, made, picked, capturing, find>>
      BY <1>1 DEF D!ConfirmNear
    <3>. QED  BY <2>1, <3>4, <3>5, OpenIsSome DEF DialogsInv, OpenHold, Holds, D!Owners
  <2>. QED  BY <1>1, <2>1, <2>2 DEF DialogsInv, DialogsTyped, D!ConfirmNear
<1>2. CASE D!RunAction
  <2>1. box' \in D!Boxes
    BY <1>2 DEF DialogsInv, DialogsTyped, D!RunAction, D!Boxes
  <2>. QED  BY <1>2, <2>1, OpenIsSome DEF DialogsInv, DialogsTyped, OpenHold, Holds, D!RunAction
<1>3. ASSUME NEW force \in BOOLEAN, D!CloseConfirm(force) PROVE DialogsInv'
  <2>1. OpenHold'
    BY <1>3, LetsGo DEF DialogsInv, OpenHold, Holds, D!CloseConfirm, D!Owners, D!Released
  <2>. QED  BY <1>3, <2>1 DEF DialogsInv, DialogsTyped, D!CloseConfirm
<1>4. ASSUME NEW b \in acting, NEW ok \in BOOLEAN, D!ActionAnswers(b, ok) PROVE DialogsInv'
  <2>1. CASE box # None /\ box.id = b /\ ok
    <3>1. OpenHold'
      BY <1>4, <2>1, LetsGo DEF DialogsInv, OpenHold, Holds, D!ActionAnswers, D!Owners, D!Released
    <3>. QED  BY <1>4, <2>1, <3>1 DEF DialogsInv, DialogsTyped, D!ActionAnswers
  <2>2. CASE box # None /\ box.id = b /\ ~ ok
    <3>1. box' \in D!Boxes
      BY <1>4, <2>2 DEF DialogsInv, DialogsTyped, D!ActionAnswers, D!Boxes
    <3>. QED  BY <1>4, <2>2, <3>1, OpenIsSome DEF DialogsInv, DialogsTyped, OpenHold, Holds, D!ActionAnswers
  <2>3. CASE box = None \/ box.id # b
    BY <1>4, <2>3 DEF DialogsInv, DialogsTyped, OpenHold, Holds, D!ActionAnswers
  <2>. QED  BY <2>1, <2>2, <2>3
<1>. QED  BY <1>1, <1>2, <1>3, <1>4 DEF D!AcceptConfirm

\* The folder browser hands over what was chosen, and lets go.
LEMMA FolderFinishKeeps ==
    ASSUME DialogsInv, folder # None, NEW path \in Folders \cup {None}, D!FolderFinish(path),
           UNCHANGED <<menu, box, picked, capturing, find>>
    PROVE  OpenHold' /\ folder' = None /\ made' \in D!NewWorkspaces \cup {None}
<1>1. made' \in D!NewWorkspaces \cup {None} /\ (made' = None <=> made = None)
  <2>1. CASE made' = made
    BY <2>1 DEF DialogsInv, DialogsTyped
  <2>2. CASE made # None /\ path # None /\ made' = [made EXCEPT !.path = path, !.unchecked = None]
    <3>1. made' \in D!NewWorkspaces
      BY <2>2 DEF DialogsInv, DialogsTyped, D!NewWorkspaces
    <3>. QED  BY <2>2, <3>1, OpenIsSome
  <2>. QED  BY <2>1, <2>2 DEF D!FolderFinish
<1>. QED  BY <1>1, LetsGo DEF DialogsInv, OpenHold, Holds, D!FolderFinish, D!Owners, D!Released

\* The folder browser: opened, led on, answered in any order (folder_browser.js).
LEMMA BrowserKeeps ==
    ASSUME DialogsInv,
           \/ \E path \in Folders : D!OpenFolderBrowser(0, path)
           \/ D!Browse
           \/ \E path \in Folders : D!FolderGo(path) \/ D!FolderTypes(path) \/ D!NativePicked(path)
           \/ D!UseHere \/ D!CancelFolder
           \/ \E j \in listing, ok \in BOOLEAN : D!FolderAnswer(j, ok)
    PROVE  DialogsInv'
<1>1. ASSUME NEW for \in Nat, NEW path \in Folders \cup {None}, D!OpenFolderBrowser(for, path) PROVE DialogsInv'
  <2>1. folder' \in D!Browsers
    BY <1>1 DEF DialogsInv, DialogsTyped, D!OpenFolderBrowser, D!Browsers
  <2>2. listing' \subseteq Listings /\ stamp' \in Nat
    BY <1>1 DEF DialogsInv, DialogsTyped, D!OpenFolderBrowser, D!Go, D!Request, Listings
  <2>3. OpenHold'
    <3>1. UNCHANGED <<menu, box, made, picked, capturing, find>> /\ folder = None /\ D!Take("folder-browser")
      BY <1>1 DEF D!OpenFolderBrowser
    <3>. QED  BY <2>1, <3>1, OpenIsSome, TakesOne DEF DialogsInv, OpenHold, Holds, D!Owners
  <2>. QED  BY <1>1, <2>1, <2>2, <2>3 DEF DialogsInv, DialogsTyped, D!OpenFolderBrowser
<1>2. CASE D!Browse
  <2>1. made.id \in Nat /\ made.path \in Folders \cup {None}
    BY <1>2 DEF DialogsInv, DialogsTyped, D!Browse, D!NewWorkspaces
  <2>. QED  BY <1>1, <1>2, <2>1 DEF D!Browse
\* Another request, or another path in the bar: the browser stays open.
<1>3. ASSUME folder # None, folder' \in D!Browsers, listing' \subseteq Listings, stamp' \in Nat,
             UNCHANGED <<menu, box, made, creating, picked, capturing, find, held>>
      PROVE  DialogsInv'
  BY <1>3, OpenIsSome DEF DialogsInv, DialogsTyped, OpenHold, Holds
<1>4. ASSUME NEW path \in Folders, D!FolderGo(path) PROVE DialogsInv'
  <2>1. folder' \in D!Browsers
    BY <1>4 DEF DialogsInv, DialogsTyped, D!FolderGo, D!Browsers
  <2>2. listing' \subseteq Listings /\ stamp' \in Nat
    BY <1>4 DEF DialogsInv, DialogsTyped, D!FolderGo, D!Go, D!Request, Listings
  <2>. QED  BY <1>3, <1>4, <2>1, <2>2 DEF D!FolderGo
<1>5. ASSUME NEW path \in Folders, D!FolderTypes(path) PROVE DialogsInv'
  <2>1. folder' \in D!Browsers
    BY <1>5 DEF DialogsInv, DialogsTyped, D!FolderTypes, D!Browsers
  <2>2. listing' \subseteq Listings /\ stamp' \in Nat
    BY <1>5 DEF DialogsInv, DialogsTyped, D!FolderTypes
  <2>. QED  BY <1>3, <1>5, <2>1, <2>2 DEF D!FolderTypes
\* The browser is done.
<1>6. ASSUME folder # None, NEW path \in Folders \cup {None}, D!FolderFinish(path),
             listing' \subseteq Listings, UNCHANGED <<menu, box, creating, picked, capturing, find, stamp>>
      PROVE  DialogsInv'
  BY <1>6, FolderFinishKeeps DEF DialogsInv, DialogsTyped
<1>7. ASSUME NEW path \in Folders, D!NativePicked(path) PROVE DialogsInv'
  BY <1>6, <1>7 DEF D!NativePicked, DialogsInv, DialogsTyped
<1>8. CASE D!CancelFolder
  BY <1>6, <1>8 DEF D!CancelFolder, DialogsInv, DialogsTyped
<1>9. CASE D!UseHere
  <2>1. folder \in D!Browsers /\ folder.here \in Folders \cup {None} /\ folder.bar \in Folders \cup {None}
    BY <1>9 DEF D!UseHere, DialogsInv, DialogsTyped, D!Browsers
  <2>2. CASE folder.bar \in {None, folder.here}
    BY <1>6, <1>9, <2>1, <2>2 DEF D!UseHere, DialogsInv, DialogsTyped
  <2>3. CASE folder.bar \notin {None, folder.here}
    <3>1. folder' \in D!Browsers
      BY <1>9, <2>1, <2>3 DEF DialogsInv, DialogsTyped, D!UseHere, D!Browsers
    <3>2. listing' \subseteq Listings /\ stamp' \in Nat
      BY <1>9, <2>1, <2>3 DEF DialogsInv, DialogsTyped, D!UseHere, D!Go, D!Request, Listings
    <3>. QED  BY <1>3, <1>9, <2>3, <3>1, <3>2 DEF D!UseHere
  <2>. QED  BY <2>2, <2>3
<1>10. ASSUME NEW j \in listing, NEW ok \in BOOLEAN, D!FolderAnswer(j, ok) PROVE DialogsInv'
  <2>1. j \in Listings /\ D!Listed(j) \in Folders /\ j.id \in Nat
    BY SurfacesAssumption DEF DialogsInv, DialogsTyped, Listings, D!Listed
  <2>2. CASE D!Latest(j) /\ ok /\ j.kind = "use"
    <3>1. listing' \subseteq Listings
      BY <1>10, <2>2 DEF DialogsInv, DialogsTyped, D!FolderAnswer
    <3>. QED  BY <1>6, <1>10, <2>1, <2>2, <3>1 DEF D!FolderAnswer, D!Latest
  <2>3. CASE D!Latest(j) /\ ok /\ j.kind # "use"
    <3>0. folder \in D!Browsers /\ folder' = [folder EXCEPT !.here = D!Listed(j), !.bar = D!Listed(j), !.of = j.id]
      BY <1>10, <2>3 DEF DialogsInv, DialogsTyped, D!FolderAnswer, D!Latest
    <3>1. folder # None /\ folder' \in D!Browsers
      BY <2>1, <3>0, OpenIsSome DEF D!Browsers
    <3>2. listing' \subseteq Listings /\ stamp' \in Nat
      BY <1>10, <2>3 DEF DialogsInv, DialogsTyped, D!FolderAnswer
    <3>. QED  BY <1>3, <1>10, <2>3, <3>1, <3>2 DEF D!FolderAnswer
  <2>4. CASE ~ (D!Latest(j) /\ ok) /\ j.kind = "start" /\ folder # None /\ j.id = folder.first
    <3>0. folder \in D!Browsers /\ stamp \in Nat /\ folder' = [folder EXCEPT !.asked = stamp]
      BY <1>10, <2>4 DEF DialogsInv, DialogsTyped, D!FolderAnswer
    <3>1. folder' \in D!Browsers
      BY <3>0 DEF D!Browsers
    <3>2. listing' \subseteq Listings /\ stamp' \in Nat
      <4>1. D!Request("go", None) \in Listings
        BY <3>0 DEF D!Request, Listings
      <4>2. listing' = (listing \ {j}) \cup {D!Request("go", None)} /\ stamp' = stamp + 1
        BY <1>10, <2>4 DEF D!FolderAnswer
      <4>. QED  BY <3>0, <4>1, <4>2 DEF DialogsInv, DialogsTyped
    <3>. QED  BY <1>3, <1>10, <2>4, <3>1, <3>2 DEF D!FolderAnswer
  <2>5. CASE ~ (D!Latest(j) /\ ok) /\ ~ (j.kind = "start" /\ folder # None /\ j.id = folder.first)
    BY <1>10, <2>5 DEF DialogsInv, DialogsTyped, OpenHold, Holds, D!FolderAnswer
  <2>. QED  BY <2>2, <2>3, <2>4, <2>5
<1>. QED
  <2>1. 0 \in Nat
    OBVIOUS
  <2>. QED  BY <2>1, <1>1, <1>2, <1>4, <1>5, <1>7, <1>8, <1>9, <1>10

\* The new workspace dialog, and the saves that outlive it (new_workspace_dialog.js).
LEMMA DialogKeeps ==
    ASSUME DialogsInv,
           \/ \E path \in Folders \cup {None} : D!OpenNewWorkspace(path)
           \/ D!CancelNewWorkspace
           \/ \E path \in Folders : D!TypeFolder(path)
           \/ \E loc \in {"local", "remote"} : D!ChooseLocation(loc)
           \/ D!Create
           \/ \E c \in creating, ok \in BOOLEAN : D!ChecksOut(c, ok) \/ D!Saved(c, ok)
    PROVE  DialogsInv'
<1>1. ASSUME NEW path \in Folders \cup {None}, D!OpenNewWorkspace(path) PROVE DialogsInv'
  <2>1. made' \in D!NewWorkspaces /\ stamp' \in Nat
    BY <1>1 DEF DialogsInv, DialogsTyped, D!OpenNewWorkspace, D!NewWorkspaces
  <2>2. OpenHold'
    <3>1. UNCHANGED <<menu, box, folder, picked, capturing, find>> /\ made = None /\ D!Take("new-workspace")
      BY <1>1 DEF D!OpenNewWorkspace
    <3>. QED  BY <2>1, <3>1, OpenIsSome, TakesOne DEF DialogsInv, OpenHold, Holds, D!Owners
  <2>. QED  BY <1>1, <2>1, <2>2 DEF DialogsInv, DialogsTyped, D!OpenNewWorkspace
\* The dialog is done.
<1>2. ASSUME made # None, D!FinishNewWorkspace, creating' \subseteq Calls,
             UNCHANGED <<menu, box, folder, listing, picked, capturing, find, stamp>>
      PROVE  DialogsInv'
  <2>1. OpenHold'
    BY <1>2, LetsGo DEF DialogsInv, OpenHold, Holds, D!FinishNewWorkspace, D!Owners, D!Released
  <2>. QED  BY <1>2, <2>1 DEF DialogsInv, DialogsTyped, D!FinishNewWorkspace
\* It is filled in, or waits for an answer.
<1>3. ASSUME made # None, made' \in D!NewWorkspaces, creating' \subseteq Calls,
             UNCHANGED <<menu, box, folder, listing, picked, capturing, find, stamp, held>>
      PROVE  DialogsInv'
  BY <1>3, OpenIsSome DEF DialogsInv, DialogsTyped, OpenHold, Holds
<1>4. CASE D!CancelNewWorkspace
  BY <1>2, <1>4 DEF D!CancelNewWorkspace, DialogsInv, DialogsTyped
<1>5. ASSUME NEW path \in Folders, D!TypeFolder(path) PROVE DialogsInv'
  <2>1. made' \in D!NewWorkspaces
    BY <1>5 DEF DialogsInv, DialogsTyped, D!TypeFolder, D!NewWorkspaces
  <2>. QED  BY <1>3, <1>5, <2>1 DEF D!TypeFolder, DialogsInv, DialogsTyped
<1>6. ASSUME NEW loc \in {"local", "remote"}, D!ChooseLocation(loc) PROVE DialogsInv'
  <2>1. menu' \in Menus /\ menu.at # None /\ menu'.at = None
    BY <1>6, SurfacesAssumption DEF DialogsInv, DialogsTyped, Menus, D!ChooseLocation, D!MenuGone
  <2>2. made' \in D!NewWorkspaces \cup {None} /\ (made' = None <=> made = None)
    <3>1. CASE made = None
      BY <1>6, <3>1 DEF D!ChooseLocation
    <3>2. CASE made # None
      <4>1. made' \in D!NewWorkspaces
        BY <1>6, <3>2 DEF DialogsInv, DialogsTyped, D!ChooseLocation, D!NewWorkspaces
      <4>. QED  BY <3>2, <4>1, OpenIsSome
    <3>. QED  BY <3>1, <3>2
  <2>3. OpenHold'
    BY <1>6, <2>1, <2>2, LetsGo DEF DialogsInv, OpenHold, Holds, D!ChooseLocation, D!Owners, D!Released
  <2>. QED  BY <1>6, <2>1, <2>2, <2>3 DEF DialogsInv, DialogsTyped, D!ChooseLocation
<1>7. CASE D!Create
  <2>1. made' \in D!NewWorkspaces
    BY <1>7 DEF DialogsInv, DialogsTyped, D!Create, D!NewWorkspaces
  <2>2. creating' \subseteq Calls
    BY <1>7 DEF DialogsInv, DialogsTyped, D!Create, D!Call, D!Key, D!NewWorkspaces, Places, Calls
  <2>. QED  BY <1>3, <1>7, <2>1, <2>2 DEF D!Create
<1>8. ASSUME NEW c \in creating, NEW ok \in BOOLEAN, D!ChecksOut(c, ok) PROVE DialogsInv'
  <2>1. creating' \subseteq Calls
    <3>1. [c EXCEPT !.step = "save"] \in Calls
      BY DEF DialogsInv, DialogsTyped, Calls
    <3>. QED  BY <1>8, <3>1 DEF DialogsInv, DialogsTyped, D!ChecksOut
  <2>2. CASE made' = made
    BY <1>8, <2>1, <2>2 DEF DialogsInv, DialogsTyped, OpenHold, Holds, D!ChecksOut
  <2>3. CASE made # None /\ made' # made
    <3>1. made' \in D!NewWorkspaces
      <4>1. made \in D!NewWorkspaces /\ c.key \in {"local", "remote"} \X (Folders \cup {None})
        BY <2>3 DEF DialogsInv, DialogsTyped, Calls, Places
      <4>2. \/ made' = [made EXCEPT !.busy = FALSE]
            \/ made' = [made EXCEPT !.busy = FALSE, !.unchecked = c.key]
        BY <1>8, <2>3 DEF D!ChecksOut
      <4>. QED  BY <4>1, <4>2 DEF D!NewWorkspaces
    <3>. QED  BY <1>3, <1>8, <2>1, <2>3, <3>1 DEF D!ChecksOut
  <2>. QED  BY <1>8, <2>2, <2>3 DEF D!ChecksOut
<1>9. ASSUME NEW c \in creating, NEW ok \in BOOLEAN, D!Saved(c, ok) PROVE DialogsInv'
  <2>1. creating' \subseteq Calls
    BY <1>9 DEF DialogsInv, DialogsTyped, D!Saved
  <2>2. CASE made = None \/ made.id # c.of
    BY <1>9, <2>1, <2>2 DEF DialogsInv, DialogsTyped, OpenHold, Holds, D!Saved
  <2>3. CASE made # None /\ made.id = c.of /\ ok
    BY <1>2, <1>9, <2>1, <2>3 DEF D!Saved
  <2>4. CASE made # None /\ made.id = c.of /\ ~ ok
    <3>1. made' \in D!NewWorkspaces
      BY <1>9, <2>4 DEF DialogsInv, DialogsTyped, D!Saved, D!NewWorkspaces
    <3>. QED  BY <1>3, <1>9, <2>1, <2>4, <3>1 DEF D!Saved
  <2>. QED  BY <2>2, <2>3, <2>4
<1>. QED  BY <1>1, <1>4, <1>5, <1>6, <1>7, <1>8, <1>9

\* The Ctrl+Tab list, a recording field, the find bar.
LEMMA SmallSurfacesKeep ==
    ASSUME DialogsInv,
           \/ \E delta \in {1, -1} : D!Step(delta, Free)
           \/ D!EndSwitch \/ D!StartCapture \/ D!FinishCapture
           \/ D!OpenFind \/ D!CaretReturns
           \/ D!CloseFind("hidden") \/ D!CloseFind("none")
    PROVE  DialogsInv'
<1>1. ASSUME NEW delta \in {1, -1}, D!Step(delta, Free) PROVE DialogsInv'
  <2>1. \A i \in Int : D!Around(i) \in 1 .. Recent
    BY SurfacesAssumption DEF D!Around
  <2>2. picked' \in 1 .. Recent
    <3>1. picked \in Int /\ Recent \in Int /\ Recent >= 1 /\ delta \in Int
      BY SurfacesAssumption DEF DialogsInv, DialogsTyped
    <3>2. picked + delta + Recent \in Int /\ 2 \in Int
      BY <3>1
    <3>3. picked' \in {D!Around(picked + delta + Recent), Recent, D!Around(2)}
      BY <1>1 DEF D!Step
    <3>. QED  BY <2>1, <3>1, <3>2, <3>3
  <2>3. picked' # 0 /\ picked' \in 0 .. Recent
    BY <2>2, SurfacesAssumption
  <2>4. CASE picked # 0
    BY <1>1, <2>3, <2>4 DEF DialogsInv, DialogsTyped, OpenHold, Holds, D!Step
  <2>5. CASE picked = 0
    <3>1. D!Take("switcher") /\ UNCHANGED <<menu, box, folder, made, capturing, find>>
      BY <1>1, <2>5 DEF D!Step
    <3>2. OpenHold'
      BY <2>3, <2>5, <3>1, TakesOne DEF DialogsInv, OpenHold, Holds, D!Owners
    <3>. QED  BY <1>1, <2>3, <3>2 DEF DialogsInv, DialogsTyped, D!Step
  <2>. QED  BY <2>4, <2>5
<1>2. CASE D!EndSwitch
  <2>1. OpenHold'
    BY <1>2, LetsGo DEF DialogsInv, OpenHold, Holds, D!EndSwitch, D!Owners, D!Released
  <2>2. 0 \in 0 .. Recent
    BY SurfacesAssumption
  <2>. QED  BY <1>2, <2>1, <2>2 DEF DialogsInv, DialogsTyped, D!EndSwitch
<1>3. CASE D!StartCapture
  <2>1. OpenHold'
    BY <1>3, TakesOne DEF DialogsInv, OpenHold, Holds, D!StartCapture, D!Owners
  <2>. QED  BY <1>3, <2>1 DEF DialogsInv, DialogsTyped, D!StartCapture
<1>4. CASE D!FinishCapture
  <2>1. OpenHold'
    BY <1>4, LetsGo DEF DialogsInv, OpenHold, Holds, D!FinishCapture, D!Owners, D!Released
  <2>. QED  BY <1>4, <2>1 DEF DialogsInv, DialogsTyped, D!FinishCapture
<1>5. CASE D!OpenFind
  <2>1. OpenHold'
    BY <1>5, TakesOne DEF DialogsInv, OpenHold, Holds, D!OpenFind, D!Owners
  <2>. QED  BY <1>5, <2>1 DEF DialogsInv, DialogsTyped, Finds, D!OpenFind
<1>6. ASSUME NEW how \in {"hidden", "none"}, D!CloseFind(how) PROVE DialogsInv'
  <2>1. OpenHold'
    BY <1>6, LetsGo DEF DialogsInv, OpenHold, Holds, D!CloseFind, D!Owners, D!Released
  <2>. QED  BY <1>6, <2>1 DEF DialogsInv, DialogsTyped, Finds, D!CloseFind
<1>. QED  BY <1>1, <1>2, <1>3, <1>4, <1>5, <1>6 DEF D!CaretReturns

\* The pointer and the window's blur let go of exactly what they close.
LEMMA PointerKeeps ==
    ASSUME DialogsInv,
           \/ \E t \in Triggers \cup {None} : D!Press(t)
           \/ D!WindowBlur
    PROVE  DialogsInv'
<1>1. ASSUME menu' \in Menus, menu'.at = None, D!Blurred, box' = IF D!BoxAnswers THEN box ELSE None,
             D!Lets(D!CaretOwners \cup D!If(D!MenuOpen, {"menu"}) \cup D!If(box # None /\ ~ box.busy, {"confirm"})),
             UNCHANGED <<acting, folder, listing, made, creating, known, stamp>>
      PROVE  DialogsInv'
  <2>. DEFINE gone == D!CaretOwners \cup D!If(D!MenuOpen, {"menu"}) \cup D!If(box # None /\ ~ box.busy, {"confirm"})
  <2>1. /\ "menu" \in gone <=> menu.at # None
        /\ "confirm" \in gone <=> (box # None /\ ~ box.busy)
        /\ "switcher" \in gone <=> picked # 0
        /\ "shortcut" \in gone <=> capturing
        /\ "pane-find" \in gone <=> find = "caret"
        /\ "folder-browser" \notin gone /\ "new-workspace" \notin gone
    BY DEF D!CaretOwners, D!If, D!MenuOpen
  <2>. HIDE DEF gone
  <2>2. /\ held' \in [D!Owners -> Nat]
        /\ \A o \in D!Owners : held'[o] = IF o \in gone THEN D!Released(held[o]) ELSE held[o]
    BY <1>1, LetsGo DEF gone, DialogsInv, OpenHold
  <2>3. /\ picked' = 0 /\ capturing' = FALSE /\ find' # "caret" /\ find' \in Finds
        /\ folder' = folder /\ made' = made
        /\ box' # None <=> (box # None /\ ~ (box # None /\ ~ box.busy))
    BY <1>1 DEF D!Blurred, D!BoxAnswers, DialogsInv, DialogsTyped, Finds
  <2>4. OpenHold'
    BY <1>1, <2>1, <2>2, <2>3 DEF DialogsInv, OpenHold, Holds, D!Owners, D!Released
  <2>5. 0 \in 0 .. Recent
    BY SurfacesAssumption
  <2>. QED  BY <1>1, <2>3, <2>4, <2>5 DEF DialogsInv, DialogsTyped
<1>2. ASSUME NEW t \in Triggers \cup {None}, D!Press(t) PROVE DialogsInv'
  <2>1. menu' \in Menus /\ menu'.at = None
    BY <1>2 DEF D!Press, DialogsInv, DialogsTyped, Menus
  <2>. QED  BY <1>1, <1>2, <2>1 DEF D!Press
<1>3. CASE D!WindowBlur
  <2>1. menu' \in Menus /\ menu'.at = None
    BY <1>3 DEF D!WindowBlur, D!MenuGone, DialogsInv, DialogsTyped, Menus
  <2>. QED  BY <1>1, <1>3, <2>1 DEF D!WindowBlur
<1>. QED  BY <1>2, <1>3

\* Each step of a dialog that is not composed with another surface's.
LEMMA DialogsStep ==
    ASSUME DialogsInv, UNCHANGED dialogs \/ D!DialogCommand(Free) \/ D!DialogAnswer
    PROVE  DialogsInv'
<1>1. CASE UNCHANGED dialogs
  BY <1>1 DEF dialogs, DialogsInv, DialogsTyped, OpenHold, Holds
<1>2. CASE D!DialogCommand(Free)
  <2>1. TRUE \in BOOLEAN /\ FALSE \in BOOLEAN
    OBVIOUS
  <2>. QED  BY <1>2, <2>1, MenuKeeps, BoxKeeps, BrowserKeeps, DialogKeeps, SmallSurfacesKeep DEF D!DialogCommand, D!TriggerGone
<1>3. CASE D!DialogAnswer
  BY <1>3, MenuKeeps, BoxKeeps, BrowserKeeps, DialogKeeps DEF D!DialogAnswer
<1>. QED  BY <1>1, <1>2, <1>3

-----------------------------------------------------------------------------
(* The sheets. *)

\* A sheet and the switcher over it claim the keyboard; the switcher is a record of themes.
SettingsInv ==
    /\ panelClaim = IF panel # None THEN 1 ELSE 0
    /\ themeClaim = IF sheet # None THEN 1 ELSE 0
    /\ sheet \in S!Switchers \cup {None} /\ stamps \in Nat /\ cfg \in S!Configs

\* A sheet closes, and no sheet closes (panels.js).
LEMMA ClosePanelKeeps ==
    ASSUME SettingsInv, S!ClosePanel
    PROVE  SettingsInv'
BY DEF SettingsInv, S!ClosePanel, S!follows, S!Released

\* A sheet opens over nothing or over another one, which it replaces.
LEMMA TogglePanelKeeps ==
    ASSUME SettingsInv, NEW name \in Sheets \cup {"settings"}, S!TogglePanel(name)
    PROVE  SettingsInv'
<1>1. CASE S!ClosePanel
  BY <1>1, ClosePanelKeeps
<1>2. CASE S!Show(name)
  <2>1. name # None
    BY SurfacesAssumption
  <2>2. panelClaim' = 1 /\ panel' = name
    BY <1>2 DEF SettingsInv, S!Show, S!Claimed
  <2>3. stamps' \in Nat
    BY <1>2 DEF SettingsInv, S!Show, S!Load
  <2>. QED  BY <1>2, <2>1, <2>2, <2>3 DEF SettingsInv, S!Show, S!follows
<1>. QED  BY <1>1, <1>2 DEF S!TogglePanel

\* The switcher previews another theme, or saves one.
LEMMA SwitcherStays ==
    ASSUME SettingsInv, sheet # None, sheet' \in S!Switchers, cfg' \in S!Configs,
           UNCHANGED <<panel, panelClaim, themeClaim, stamps>>
    PROVE  SettingsInv'
BY OpenIsSome DEF SettingsInv

\* A step that leaves sheet and switcher.
LEMMA SettingsStays ==
    ASSUME SettingsInv, cfg' \in S!Configs, UNCHANGED <<panel, panelClaim, themeClaim, stamps, sheet>>
    PROVE  SettingsInv'
BY DEF SettingsInv

\* Gestures of Settings and of the theme switcher (theme_switcher.js).
LEMMA SettingsCommandKeeps ==
    ASSUME SettingsInv, S!SettingsCommand
    PROVE  SettingsInv'
<1>0. cfg \in S!Configs
  BY DEF SettingsInv
<1>1. ASSUME NEW k \in Keys, NEW v \in Vals, S!Edit(k, v) \/ S!OtherSaves(k, v) PROVE SettingsInv'
  BY <1>0, <1>1, SettingsStays DEF S!Edit, S!OtherSaves, S!follows
<1>2. CASE S!SaveSettings \/ S!WindowFocused
  BY <1>0, <1>2, SettingsStays DEF S!SaveSettings, S!WindowFocused, S!follows
<1>3. CASE S!OpenThemeSwitcher
  <2>1. cfg[Theme] \in Vals
    BY SurfacesAssumption DEF SettingsInv, S!Configs
  <2>2. (view # 0) \in BOOLEAN
    OBVIOUS
  <2>3. sheet' \in S!Switchers /\ sheet = None /\ sheet' # None
    <3>1. sheet' \in S!Switchers
      BY <1>3, <2>1, <2>2 DEF SettingsInv, S!OpenThemeSwitcher, S!Switchers
    <3>. QED  BY <1>3, <3>1, OpenIsSome DEF S!OpenThemeSwitcher
  <2>4. themeClaim' = 1 /\ stamps' \in Nat
    BY <1>3, <2>3 DEF SettingsInv, S!OpenThemeSwitcher, S!Claimed
  <2>. QED  BY <1>3, <2>3, <2>4 DEF SettingsInv, S!OpenThemeSwitcher, S!follows
<1>4. ASSUME NEW t \in Vals, S!SelectTheme(t) \/ S!HoverTheme(t) \/ S!ApplyTheme(t) PROVE SettingsInv'
  <2>1. sheet \in S!Switchers /\ sheet # None
    BY <1>4 DEF SettingsInv, S!SelectTheme, S!HoverTheme, S!ApplyTheme
  <2>2. \/ sheet' = [sheet EXCEPT !.selected = t, !.previewed = t]
        \/ sheet' = [sheet EXCEPT !.previewed = t]
        \/ sheet' = [sheet EXCEPT !.selected = t, !.previewed = t, !.applied = t]
    BY <1>4 DEF S!SelectTheme, S!HoverTheme, S!ApplyTheme, S!Preview
  <2>3. sheet' \in S!Switchers
    BY <2>1, <2>2 DEF S!Switchers
  <2>. QED  BY <1>0, <1>4, <2>1, <2>3, SwitcherStays DEF S!SelectTheme, S!HoverTheme, S!ApplyTheme
<1>5. ASSUME NEW how, S!CloseThemeSwitcher(how) PROVE SettingsInv'
  <2>1. sheet' = None /\ themeClaim' = 0
    BY <1>5 DEF SettingsInv, S!CloseThemeSwitcher, S!Released
  <2>. QED  BY <1>5, <2>1 DEF SettingsInv, S!CloseThemeSwitcher
<1>. QED  BY <1>1, <1>2, <1>3, <1>4, <1>5 DEF S!SettingsCommand

\* Answers to Settings, to the switcher and to the refresh.
LEMMA SettingsAnswerKeeps ==
    ASSUME SettingsInv, S!SettingsAnswer
    PROVE  SettingsInv'
<1>0. cfg \in S!Configs
  BY DEF SettingsInv
<1>1. ASSUME NEW c \in S!Configs, NEW j \in loads, S!LoadArrives(j, c) PROVE SettingsInv'
  BY <1>0, <1>1, SettingsStays DEF S!LoadArrives, S!follows
<1>2. ASSUME NEW c \in S!Configs, S!SaveReads(c) \/ S!SaveFollows(c) \/ S!SyncArrives(c) PROVE SettingsInv'
  BY <1>0, <1>2, SettingsStays DEF S!SaveReads, S!SaveFollows, S!SyncArrives, S!Follow, S!follows
<1>3. ASSUME NEW c \in S!Configs, NEW p \in persists, S!PersistFollows(p, c) PROVE SettingsInv'
  BY <1>3, SettingsStays DEF S!PersistFollows
<1>4. ASSUME NEW ok \in BOOLEAN, S!SavePuts(ok) PROVE SettingsInv'
  BY <1>0, <1>4, SettingsStays DEF S!SavePuts, S!follows
<1>5. ASSUME NEW ok \in BOOLEAN, NEW p \in persists, S!PersistPuts(p, ok) PROVE SettingsInv'
  BY <1>0, <1>5, SettingsStays DEF S!PersistPuts
<1>6. CASE S!CheckDrift
  BY <1>0, <1>6, SettingsStays DEF S!CheckDrift
<1>. QED  BY <1>1, <1>2, <1>3, <1>4, <1>5, <1>6 DEF S!SettingsAnswer

-----------------------------------------------------------------------------
(* The palette. *)

\* A prompt has a question that Enter knows how to answer.
PaletteInv ==
    /\ claim = IF open THEN 1 ELSE 0
    /\ mode = "prompt" => subject \in {"file", "query", "name"}

\* The palette opens, or goes back to its first list: one claim either way (palette.js).
LEMMA PaletteOpens ==
    ASSUME PaletteInv, OpenPalette \/ NewWindowMode
    PROVE  PaletteInv'
<1>1. open' = TRUE /\ claim' = (IF open THEN claim ELSE claim + 1) /\ mode' \in {"commands", "window"}
  BY DEF OpenPalette, NewWindowMode, ShowRows, Enter, Claimed
<1>. QED  BY <1>1 DEF PaletteInv

\* It closes with its claim.
LEMMA PaletteGoes ==
    ASSUME PaletteInv, open, Closing
    PROVE  PaletteInv'
BY DEF PaletteInv, Closing, Released

\* It changes what it lists.
LEMMA PaletteTurns ==
    ASSUME PaletteInv, UNCHANGED <<open, claim>>,
           UNCHANGED <<mode, subject>> \/ mode' # "prompt"
    PROVE  PaletteInv'
BY DEF PaletteInv

\* It asks for something.
LEMMA PromptKeeps ==
    ASSUME PaletteInv, NEW question \in {"file", "query", "name"}, PromptMode(question)
    PROVE  PaletteInv'
BY DEF PaletteInv, PromptMode, Enter

\* Escape goes back or closes.
LEMMA EscapeKeeps ==
    ASSUME PaletteInv, open, Escape
    PROVE  PaletteInv'
<1>1. KillMode \/ OpenPalette \/ Close
  BY DEF Escape
<1>2. CASE KillMode
  BY <1>2, PaletteTurns DEF KillMode, ShowRows, Enter
<1>. QED  BY <1>1, <1>2, PaletteOpens, PaletteGoes DEF Close

\* A row leads on, or closes.
LEMMA ChooseKeeps ==
    ASSUME PaletteInv, open, NEW r, Choose(r)
    PROVE  PaletteInv'
<1>1. \/ KillMode \/ KillConfirm(r.of) \/ KillChosen(r.of) \/ ForeignSessionMode
      \/ OpenPalette \/ NewWindowMode \/ Close
      \/ \E question \in {"file", "query", "name"} : PromptMode(question)
  BY DEF Choose
<1>2. CASE KillMode \/ KillConfirm(r.of) \/ KillChosen(r.of) \/ ForeignSessionMode
  BY <1>2, PaletteTurns DEF KillMode, KillConfirm, KillChosen, ForeignSessionMode, ShowRows, Enter
<1>. QED  BY <1>1, <1>2, PaletteOpens, PaletteGoes, PromptKeeps DEF Close

\* Each step of the palette that is not composed with another surface's.
LEMMA PaletteStep ==
    ASSUME PaletteInv, UNCHANGED palette \/ PaletteCommand \/ PaletteAnswer
    PROVE  PaletteInv'
<1>1. CASE UNCHANGED palette
  BY <1>1, PaletteTurns DEF palette
<1>2. CASE PaletteCommand
  <2>1. CASE EscapeKey
    BY <2>1, EscapeKeeps DEF EscapeKey
  <2>2. CASE EnterKey
    BY <2>2, ChooseKeeps DEF EnterKey
  <2>3. CASE SubmitPrompt
    <3>1. \/ Close
          \/ \E q \in Queries : SearchMode(q)
          \/ UNCHANGED <<open, requestId, mode, subject, killPending, list, fill, running, claim>>
      BY <2>3 DEF SubmitPrompt, PaletteInv
    <3>2. ASSUME NEW q \in Queries, SearchMode(q) PROVE PaletteInv'
      BY <3>2, PaletteTurns DEF SearchMode, ShowRows, Enter
    <3>. QED  BY <2>3, <3>1, <3>2, PaletteGoes, PaletteTurns DEF Close
  <2>4. ASSUME NEW t, Types(t) PROVE PaletteInv'
    BY <2>4, PaletteTurns DEF Types
  <2>5. ASSUME NEW i, ArrowTo(i) \/ HoverOn(i) PROVE PaletteInv'
    BY <2>5, PaletteTurns DEF ArrowTo, HoverOn
  <2>6. ASSUME NEW i, Click(i) PROVE PaletteInv'
    BY <2>6, ChooseKeeps DEF Click
  <2>. QED  BY <1>2, <2>1, <2>2, <2>3, <2>4, <2>5, <2>6 DEF PaletteCommand
<1>3. CASE PaletteAnswer
  <2>1. ASSUME NEW j, LiveAnswer(j) \/ DetailsAnswer(j) \/ AgentsAnswer(j) \/ WindowsAnswer(j) PROVE PaletteInv'
    BY <2>1, PaletteTurns DEF LiveAnswer, DetailsAnswer, AgentsAnswer, WindowsAnswer
  <2>2. ASSUME NEW j, NEW ok, SearchAnswer(j, ok) PROVE PaletteInv'
    BY <2>2, PaletteTurns DEF SearchAnswer
  <2>3. ASSUME NEW j, NEW ok, KillAnswer(j, ok) PROVE PaletteInv'
    BY <2>3, PaletteTurns, PaletteGoes DEF KillAnswer
  <2>4. ASSUME NEW j, NEW ok, SaveAnswer(j, ok) PROVE PaletteInv'
    BY <2>4, PaletteTurns, PaletteGoes DEF SaveAnswer
  <2>. QED  BY <1>3, <2>1, <2>2, <2>3, <2>4 DEF PaletteAnswer
<1>. QED  BY <1>1, <1>2, <1>3

-----------------------------------------------------------------------------
(* All of them together. *)

\* What holds of the parts together.
SurfacesInv == PaletteInv /\ DialogsInv /\ SettingsInv /\ UsageInv /\ UpdatesInv

\* A window starts with nothing open.
LEMMA SurfacesInit == Init => SurfacesInv
<1>. SUFFICES ASSUME Init PROVE SurfacesInv
  OBVIOUS
<1>1. PaletteInv
  BY DEF Init, PaletteInit, PaletteInv
<1>2. DialogsInv
  <2>1. 0 \in 0 .. Recent
    BY SurfacesAssumption
  <2>. QED  BY <2>1 DEF Init, D!DialogsInit, DialogsInv, DialogsTyped, OpenHold, Holds, Menus, Finds, D!Owners
<1>3. SettingsInv
  <2>1. cfg \in S!Configs
    BY SurfacesAssumption DEF Init, S!SettingsInit, S!Configs
  <2>. QED  BY <2>1 DEF Init, S!SettingsInit, SettingsInv
<1>4. UsageInv
  BY DEF Init, U!UsageInit, UsageInv, U!TimerFollows
<1>5. UpdatesInv
  <2>1. current.state = "idle" /\ armed = FALSE /\ caret = None /\ cardClaim = 0
    BY DEF Init, W!UpdatesInit, W!Idle
  <2>2. W!ProgressIsPolled
    BY <2>1 DEF W!ProgressIsPolled, W!ShouldPoll
  <2>3. W!CardClaims
    BY <2>1 DEF W!CardClaims
  <2>. QED  BY <2>1, <2>2, <2>3 DEF UpdatesInv
<1>. QED  BY <1>1, <1>2, <1>3, <1>4, <1>5 DEF SurfacesInv

\* What a gesture over the terminals does to each of them.
LEMMA OverlayKeeps ==
    ASSUME SurfacesInv, OverlayCommand
    PROVE  PaletteInv' /\ DialogsInv' /\ SettingsInv'
<1>. USE DEF SurfacesInv
<1>1. PaletteCloses => PaletteInv'
  BY PaletteGoes, PaletteStep DEF PaletteCloses, Close
<1>2. UNCHANGED settings => SettingsInv'
  BY SettingsStays DEF settings, SettingsInv
<1>3. CASE TogglePalette
  BY <1>3, DropKeeps, ClosePanelKeeps, PaletteGoes, PaletteOpens DEF TogglePalette, Close
<1>4. CASE NewWindow
  BY <1>4, DropKeeps, ClosePanelKeeps, PaletteOpens DEF NewWindow
<1>5. CASE Search
  BY <1>5, DropKeeps, ClosePanelKeeps, PaletteOpens DEF Search
<1>6. CASE NewWorkspace
  BY <1>6, <1>1, DialogKeeps, ClosePanelKeeps DEF NewWorkspace
<1>7. CASE RecordShortcut
  BY <1>7, <1>2, SmallSurfacesKeep, PaletteStep DEF RecordShortcut
<1>8. CASE CloseSheet
  BY <1>8, DropKeeps, ClosePanelKeeps, PaletteStep DEF CloseSheet
<1>9. CASE SheetEscape
  <2>1. CASE CloseSheet
    BY <2>1, <1>8
  <2>2. CASE (D!DropMenu \/ D!CloseConfirm(FALSE)) /\ UNCHANGED <<settings, palette>>
    BY <2>2, <1>2, MenuKeeps, BoxKeeps, PaletteStep
  <2>. QED  BY <1>9, <2>1, <2>2 DEF SheetEscape
<1>10. ASSUME NEW name \in Sheets \cup {"settings"}, ToggleSheet(name) PROVE PaletteInv' /\ DialogsInv' /\ SettingsInv'
  BY <1>10, <1>1, DropKeeps, TogglePanelKeeps DEF ToggleSheet
<1>11. CASE PaletteCommand /\ UNCHANGED <<dialogs, settings>>
  BY <1>11, <1>2, PaletteStep, DialogsStep
<1>12. CASE D!DialogCommand(Free) /\ UNCHANGED <<palette, settings>>
  BY <1>12, <1>2, PaletteStep, DialogsStep
<1>13. CASE S!SettingsCommand /\ UNCHANGED <<palette, dialogs>>
  BY <1>13, SettingsCommandKeeps, PaletteStep, DialogsStep
<1>. QED  BY <1>3, <1>4, <1>5, <1>6, <1>7, <1>8, <1>9, <1>10, <1>11, <1>12, <1>13 DEF OverlayCommand

\* The update card is left alone.
LEMMA UpdatesStay == UpdatesInv /\ UNCHANGED updates => UpdatesInv'
BY PollStays, CardStays DEF UpdatesInv, updates

\* The sheets are left alone.
LEMMA SettingsRest == SettingsInv /\ UNCHANGED settings => SettingsInv'
BY SettingsStays DEF settings, SettingsInv

\* Every step keeps all of it.
LEMMA SurfacesStep == SurfacesInv /\ [Next]_vars => SurfacesInv'
<1>. SUFFICES ASSUME SurfacesInv, [Next]_vars PROVE SurfacesInv'
  OBVIOUS
<1>. USE DEF SurfacesInv
<1>1. CASE OverlayCommand /\ UNCHANGED sidebar
  BY <1>1, OverlayKeeps, UsageStep, UpdatesStay DEF sidebar
<1>2. ASSUME NEW t \in Triggers \cup {None}, NEW part \in U!Parts \cup {None}, Press(t, part) PROVE SurfacesInv'
  BY <1>2, PaletteStep, PointerKeeps, SettingsRest, UsageStep, UpdatesStay DEF Press
<1>3. ASSUME NEW part \in U!Parts, ClickPart(part) PROVE SurfacesInv'
  BY <1>3, PaletteStep, DropKeeps, SettingsRest, UsageStep, UpdatesStay DEF ClickPart
<1>4. CASE WindowBlur
  <2>1. \E part \in U!Parts \cup {None} : U!PressOutside(part)
    BY <1>4 DEF WindowBlur
  <2>. QED  BY <1>4, <2>1, PaletteStep, PointerKeeps, SettingsRest, UsageStep, UpdatesStay DEF WindowBlur
<1>5. CASE About
  BY <1>5, PaletteStep, DialogsStep, SettingsRest, UsageStep, UpdatesCommandKeeps DEF About
<1>6. CASE U!UsageCommand /\ UNCHANGED <<palette, dialogs, settings, updates>>
  BY <1>6, PaletteStep, DialogsStep, SettingsRest, UsageStep, UpdatesStay
<1>7. CASE W!UpdatesCommand /\ UNCHANGED <<palette, dialogs, settings, usage>>
  BY <1>7, PaletteStep, DialogsStep, SettingsRest, UsageStep, UpdatesCommandKeeps
<1>8. CASE Answer
  <2>1. CASE PaletteAnswer /\ UNCHANGED <<dialogs, settings, sidebar>>
    BY <2>1, PaletteStep, DialogsStep, SettingsRest, UsageStep, UpdatesStay DEF sidebar
  <2>2. CASE D!DialogAnswer /\ UNCHANGED <<palette, settings, sidebar>>
    BY <2>2, PaletteStep, DialogsStep, SettingsRest, UsageStep, UpdatesStay DEF sidebar
  <2>3. CASE S!SettingsAnswer /\ UNCHANGED <<palette, dialogs, sidebar>>
    BY <2>3, PaletteStep, DialogsStep, SettingsAnswerKeeps, UsageStep, UpdatesStay DEF sidebar
  <2>4. CASE U!UsageAnswer /\ UNCHANGED <<palette, dialogs, settings, updates>>
    BY <2>4, PaletteStep, DialogsStep, SettingsRest, UsageStep, UpdatesStay
  <2>5. CASE W!UpdatesAnswer /\ UNCHANGED <<palette, dialogs, settings, usage>>
    BY <2>5, PaletteStep, DialogsStep, SettingsRest, UsageStep, UpdatesAnswerKeeps
  <2>. QED  BY <1>8, <2>1, <2>2, <2>3, <2>4, <2>5 DEF Answer
<1>9. CASE UNCHANGED vars
  BY <1>9, PaletteStep, DialogsStep, SettingsRest, UsageStep, UpdatesStay DEF vars, sidebar
<1>10. CASE Command
  BY <1>10, <1>1, <1>2, <1>3, <1>4, <1>5, <1>6, <1>7 DEF Command
<1>. QED  BY <1>8, <1>9, <1>10 DEF Next

\* The inductive invariant: every surface has the claim it needs and is of its type.
THEOREM SurfacesInductive == Spec => []SurfacesInv
BY SurfacesInit, SurfacesStep, PTL DEF Spec

\* What is asked for again and again is what is shown (usage_footer.js, updates.js).
THEOREM ShownIsPolled == Spec => []WhatIsShownIsPolled
<1>1. SurfacesInv => WhatIsShownIsPolled
  BY DEF SurfacesInv, UsageInv, UpdatesInv, WhatIsShownIsPolled
<1>. QED  BY <1>1, SurfacesInductive, PTL

\* The terminal gets the keyboard back exactly when nothing covers it (focus.js).
THEOREM ClaimsMatchSurfaces == Spec => []KeyboardIsClaimed
<1>1. SurfacesInv => KeyboardIsClaimed
  BY DEF SurfacesInv, PaletteInv, DialogsInv, OpenHold, Holds, SettingsInv, UsageInv, UpdatesInv, KeyboardIsClaimed,
         D!Owners, D!DialogsOpen, D!MenuOpen
<1>. QED  BY <1>1, SurfacesInductive, PTL

-----------------------------------------------------------------------------
(* What a step of the window is to each part. *)

DialogMoves ==
    \/ UNCHANGED dialogs \/ D!DialogCommand(Free) \/ D!DialogAnswer
    \/ \E those : D!Drop(those)
    \/ D!StartCapture
    \/ \E path \in Folders \cup {None} : D!OpenNewWorkspace(path)
    \/ \E t \in Triggers \cup {None} : D!Press(t)
    \/ D!WindowBlur
PaletteMoves ==
    \/ UNCHANGED palette \/ PaletteCommand \/ PaletteAnswer
    \/ Close \/ OpenPalette \/ NewWindowMode
SettingsMoves ==
    \/ UNCHANGED settings \/ S!SettingsCommand \/ S!SettingsAnswer
    \/ S!ClosePanel
    \/ \E name \in Sheets \cup {"settings"} : S!TogglePanel(name)
UsageMoves ==
    \/ UNCHANGED usage \/ U!UsageCommand \/ U!UsageAnswer
    \/ \E part \in U!Parts : U!ClickPart(part)
    \/ \E part \in U!Parts \cup {None} : U!PressOutside(part)
UpdatesMoves ==
    \/ UNCHANGED updates \/ W!UpdatesCommand \/ W!UpdatesAnswer
    \/ W!LooksAgain(TRUE) \/ W!Act("about")

\* A gesture over the terminals is one gesture of each.
LEMMA OverlayMoves == OverlayCommand => DialogMoves /\ PaletteMoves /\ SettingsMoves
<1>. SUFFICES ASSUME OverlayCommand PROVE DialogMoves /\ PaletteMoves /\ SettingsMoves
  OBVIOUS
<1>0. PaletteCloses => PaletteMoves
  BY DEF PaletteCloses, PaletteMoves
<1>1. CASE TogglePalette \/ NewWindow \/ Search
  BY <1>1 DEF TogglePalette, NewWindow, Search, DialogMoves, PaletteMoves, SettingsMoves
<1>2. CASE NewWorkspace
  BY <1>0, <1>2 DEF NewWorkspace, DialogMoves, SettingsMoves
<1>3. CASE RecordShortcut
  BY <1>3 DEF RecordShortcut, DialogMoves, PaletteMoves, SettingsMoves
<1>4. CASE CloseSheet
  BY <1>4 DEF CloseSheet, DialogMoves, PaletteMoves, SettingsMoves
<1>5. CASE SheetEscape
  <2>1. \/ D!DropMenu /\ UNCHANGED <<settings, palette>>
        \/ D!CloseConfirm(FALSE) /\ UNCHANGED <<settings, palette>>
        \/ CloseSheet
    BY <1>5 DEF SheetEscape
  <2>. QED  BY <1>4, <2>1 DEF DialogMoves, PaletteMoves, SettingsMoves, D!DialogCommand
<1>6. ASSUME NEW name \in Sheets \cup {"settings"}, ToggleSheet(name) PROVE DialogMoves /\ PaletteMoves /\ SettingsMoves
  BY <1>0, <1>6 DEF ToggleSheet, DialogMoves, SettingsMoves
<1>7. CASE PaletteCommand /\ UNCHANGED <<dialogs, settings>>
  BY <1>7 DEF DialogMoves, PaletteMoves, SettingsMoves
<1>8. CASE D!DialogCommand(Free) /\ UNCHANGED <<palette, settings>>
  BY <1>8 DEF DialogMoves, PaletteMoves, SettingsMoves
<1>9. CASE S!SettingsCommand /\ UNCHANGED <<palette, dialogs>>
  BY <1>9 DEF DialogMoves, PaletteMoves, SettingsMoves
<1>. QED  BY <1>1, <1>2, <1>3, <1>4, <1>5, <1>6, <1>7, <1>8, <1>9 DEF OverlayCommand

\* The parts move side by side.
LEMMA EachMoves == [Next]_vars => DialogMoves /\ PaletteMoves /\ SettingsMoves /\ UsageMoves /\ UpdatesMoves
<1>. DEFINE All5 == DialogMoves /\ PaletteMoves /\ SettingsMoves /\ UsageMoves /\ UpdatesMoves
<1>. SUFFICES ASSUME [Next]_vars PROVE All5
  OBVIOUS
<1>1. CASE OverlayCommand /\ UNCHANGED sidebar
  BY <1>1, OverlayMoves DEF sidebar, UsageMoves, UpdatesMoves
<1>2. ASSUME NEW t \in Triggers \cup {None}, NEW part \in U!Parts \cup {None}, Press(t, part) PROVE All5
  BY <1>2 DEF Press, DialogMoves, PaletteMoves, SettingsMoves, UsageMoves, UpdatesMoves
<1>3. ASSUME NEW part \in U!Parts, ClickPart(part) PROVE All5
  BY <1>3 DEF ClickPart, DialogMoves, PaletteMoves, SettingsMoves, UsageMoves, UpdatesMoves
<1>4. CASE WindowBlur
  BY <1>4 DEF WindowBlur, DialogMoves, PaletteMoves, SettingsMoves, UsageMoves, UpdatesMoves
<1>5. CASE About
  BY <1>5 DEF About, DialogMoves, PaletteMoves, SettingsMoves, UsageMoves, UpdatesMoves
<1>6. CASE U!UsageCommand /\ UNCHANGED <<palette, dialogs, settings, updates>>
  BY <1>6 DEF DialogMoves, PaletteMoves, SettingsMoves, UsageMoves, UpdatesMoves
<1>7. CASE W!UpdatesCommand /\ UNCHANGED <<palette, dialogs, settings, usage>>
  BY <1>7 DEF DialogMoves, PaletteMoves, SettingsMoves, UsageMoves, UpdatesMoves
<1>8. CASE Answer
  <2>1. CASE PaletteAnswer /\ UNCHANGED <<dialogs, settings, sidebar>>
    BY <2>1 DEF sidebar, DialogMoves, PaletteMoves, SettingsMoves, UsageMoves, UpdatesMoves
  <2>2. CASE D!DialogAnswer /\ UNCHANGED <<palette, settings, sidebar>>
    BY <2>2 DEF sidebar, DialogMoves, PaletteMoves, SettingsMoves, UsageMoves, UpdatesMoves
  <2>3. CASE S!SettingsAnswer /\ UNCHANGED <<palette, dialogs, sidebar>>
    BY <2>3 DEF sidebar, DialogMoves, PaletteMoves, SettingsMoves, UsageMoves, UpdatesMoves
  <2>4. CASE U!UsageAnswer /\ UNCHANGED <<palette, dialogs, settings, updates>>
    BY <2>4 DEF DialogMoves, PaletteMoves, SettingsMoves, UsageMoves, UpdatesMoves
  <2>5. CASE W!UpdatesAnswer /\ UNCHANGED <<palette, dialogs, settings, usage>>
    BY <2>5 DEF DialogMoves, PaletteMoves, SettingsMoves, UsageMoves, UpdatesMoves
  <2>. QED  BY <1>8, <2>1, <2>2, <2>3, <2>4, <2>5 DEF Answer
<1>9. CASE UNCHANGED vars
  BY <1>9 DEF vars, sidebar, DialogMoves, PaletteMoves, SettingsMoves, UsageMoves, UpdatesMoves
<1>10. CASE Command
  BY <1>10, <1>1, <1>2, <1>3, <1>4, <1>5, <1>6, <1>7 DEF Command
<1>. QED  BY <1>8, <1>9, <1>10 DEF Next

-----------------------------------------------------------------------------
(* The folder browser. *)

\* Requests are numbered in the order they are sent; what is listed was asked for
\* before what is asked for now.  A workspace is made of a folder.
DialogsNumbered ==
    /\ \A j \in listing : j.id < stamp
    /\ folder # None => folder.of <= folder.asked /\ folder.asked < stamp
    /\ known \subseteq {"local", "remote"} \X Folders
    /\ \A c \in creating : c.key \in {"local", "remote"} \X Folders

\* What the other dialogs do with the browser: nothing, or take a number.
DialogsAside ==
    /\ UNCHANGED <<folder, listing>>
    /\ stamp' \in {stamp, stamp + 1}
DialogsMakeNone == UNCHANGED <<creating, known>>

\* The menu, the box, the small surfaces, the pointer.
LEMMA OthersAside ==
    ASSUME \/ \E t \in Triggers : D!ToggleMenu(t)
           \/ D!DropMenu \/ D!ToggleExpires
           \/ \E those : D!Drop(those)
           \/ \E altW \in BOOLEAN : D!ConfirmNear(altW)
           \/ D!RunAction \/ D!AcceptConfirm
           \/ \E force \in BOOLEAN : D!CloseConfirm(force)
           \/ \E b \in acting, ok \in BOOLEAN : D!ActionAnswers(b, ok)
           \/ \E path \in Folders \cup {None} : D!OpenNewWorkspace(path)
           \/ D!CancelNewWorkspace
           \/ \E path \in Folders : D!TypeFolder(path)
           \/ \E loc \in {"local", "remote"} : D!ChooseLocation(loc)
           \/ \E delta \in {1, -1} : D!Step(delta, Free)
           \/ D!EndSwitch \/ D!StartCapture \/ D!FinishCapture
           \/ D!OpenFind \/ D!CaretReturns
           \/ D!CloseFind("hidden") \/ D!CloseFind("none")
           \/ \E t \in Triggers \cup {None} : D!Press(t)
           \/ D!WindowBlur
    PROVE  DialogsAside /\ DialogsMakeNone
BY DEF DialogsAside, DialogsMakeNone, D!ToggleMenu, D!DropMenu, D!ToggleExpires, D!Drop, D!ConfirmNear, D!RunAction, D!AcceptConfirm,
       D!CloseConfirm, D!ActionAnswers, D!OpenNewWorkspace, D!CancelNewWorkspace, D!TypeFolder, D!ChooseLocation,
       D!Step, D!EndSwitch, D!StartCapture, D!FinishCapture, D!OpenFind, D!CaretReturns, D!CloseFind, D!Press, D!WindowBlur

\* What is asked of the backend for a workspace names a folder.
LEMMA MakesOfAFolder ==
    ASSUME DialogsInv, DialogsNumbered,
           \/ D!Create
           \/ \E c \in creating, ok \in BOOLEAN : D!ChecksOut(c, ok) \/ D!Saved(c, ok)
    PROVE  DialogsAside /\ DialogsNumbered'
<1>1. CASE D!Create
  <2>1. made \in D!NewWorkspaces /\ made.path # None
    BY <1>1 DEF D!Create, DialogsInv, DialogsTyped
  <2>2. D!Key \in {"local", "remote"} \X Folders
    BY <2>1 DEF D!Key, D!NewWorkspaces
  <2>3. PICK step : creating' = creating \cup {D!Call(step, D!Key)}
    BY <1>1 DEF D!Create
  <2>4. \A c \in creating' : c.key \in {"local", "remote"} \X Folders
    BY <2>2, <2>3 DEF D!Call, DialogsNumbered
  <2>. QED  BY <1>1, <2>4 DEF D!Create, DialogsAside, DialogsNumbered
<1>2. ASSUME NEW c \in creating, NEW ok \in BOOLEAN, D!ChecksOut(c, ok) PROVE DialogsAside /\ DialogsNumbered'
  <2>1. [c EXCEPT !.step = "save"].key = c.key
    BY DEF DialogsInv, DialogsTyped, Calls
  <2>2. \A d \in creating' : d.key \in {"local", "remote"} \X Folders
    BY <1>2, <2>1 DEF D!ChecksOut, DialogsNumbered
  <2>. QED  BY <1>2, <2>2 DEF D!ChecksOut, DialogsAside, DialogsNumbered
<1>3. ASSUME NEW c \in creating, NEW ok \in BOOLEAN, D!Saved(c, ok) PROVE DialogsAside /\ DialogsNumbered'
  BY <1>3 DEF D!Saved, DialogsAside, DialogsNumbered
<1>. QED  BY <1>1, <1>2, <1>3

\* The browser of an opening lists what was asked for later, or what it listed.
ListsOnward ==
    (folder # None /\ folder' # None /\ folder'.first = folder.first) => folder'.of >= folder.of

\* The browser's own steps (folder_browser.js).
LEMMA BrowserNumbers ==
    ASSUME DialogsInv, DialogsNumbered,
           \/ \E path \in Folders : D!OpenFolderBrowser(0, path)
           \/ D!Browse
           \/ \E path \in Folders : D!FolderGo(path) \/ D!FolderTypes(path) \/ D!NativePicked(path)
           \/ D!UseHere \/ D!CancelFolder
           \/ \E j \in listing, ok \in BOOLEAN : D!FolderAnswer(j, ok)
    PROVE  DialogsNumbered' /\ ListsOnward
<1>0. stamp \in Nat /\ (folder # None => folder \in D!Browsers)
  BY DEF DialogsInv, DialogsTyped
<1>00. folder # None => folder.of \in Nat /\ folder.asked \in Nat
  BY <1>0 DEF D!Browsers
\* Another request is sent.
<1>1. ASSUME NEW kind, NEW path, D!Go(kind, path), UNCHANGED <<creating, known>>,
             folder'.asked = stamp, folder'.of \in Nat, folder'.of <= stamp
      PROVE  DialogsNumbered'
  BY <1>0, <1>1 DEF D!Go, D!Request, DialogsNumbered, DialogsInv, DialogsTyped, Listings
\* The browser is done, or stays with what it asked for.
<1>2. ASSUME folder' # None => folder # None /\ folder'.asked = folder.asked /\ folder'.of <= folder.asked,
             listing' \subseteq listing, UNCHANGED <<stamp, creating, known>>
      PROVE  DialogsNumbered'
  BY <1>0, <1>2 DEF DialogsNumbered
<1>3. ASSUME NEW for, NEW path, D!OpenFolderBrowser(for, path) PROVE DialogsNumbered' /\ ListsOnward
  <2>1. folder = None /\ folder'.asked = stamp /\ folder'.of = 0
    BY <1>3 DEF D!OpenFolderBrowser
  <2>2. \E kind : D!Go(kind, path)
    BY <1>3 DEF D!OpenFolderBrowser
  <2>. QED  BY <1>0, <1>1, <1>3, <2>1, <2>2 DEF D!OpenFolderBrowser, ListsOnward
\* The folder of a listing stays while another is asked for.
<1>4. ASSUME folder # None, NEW kind, NEW path, D!Go(kind, path), UNCHANGED <<creating, known>>,
             folder' = [folder EXCEPT !.asked = stamp]
      PROVE  DialogsNumbered' /\ ListsOnward
  <2>1. folder'.asked = stamp /\ folder'.of = folder.of
    BY <1>0, <1>4 DEF D!Browsers
  <2>2. folder.of <= stamp
    BY <1>0, <1>00, <1>4 DEF DialogsNumbered
  <2>. QED  BY <1>00, <1>1, <1>4, <2>1, <2>2 DEF ListsOnward
<1>5. ASSUME NEW path \in Folders, D!FolderGo(path) PROVE DialogsNumbered' /\ ListsOnward
  BY <1>4, <1>5 DEF D!FolderGo
<1>6. ASSUME NEW path \in Folders, D!FolderTypes(path) PROVE DialogsNumbered' /\ ListsOnward
  <2>1. folder # None /\ folder'.asked = folder.asked /\ folder'.of = folder.of
    BY <1>0, <1>6 DEF D!FolderTypes, D!Browsers
  <2>. QED  BY <1>00, <1>2, <1>6, <2>1 DEF D!FolderTypes, ListsOnward, DialogsNumbered
<1>7. ASSUME NEW path, D!FolderFinish(path), listing' \subseteq listing, UNCHANGED <<stamp, creating, known>>
      PROVE  DialogsNumbered' /\ ListsOnward
  BY <1>2, <1>7 DEF D!FolderFinish, ListsOnward
<1>8. ASSUME NEW path \in Folders, D!NativePicked(path) PROVE DialogsNumbered' /\ ListsOnward
  BY <1>7, <1>8 DEF D!NativePicked
<1>9. CASE D!CancelFolder
  BY <1>7, <1>9 DEF D!CancelFolder
<1>10. CASE D!UseHere
  BY <1>4, <1>7, <1>10 DEF D!UseHere
<1>11. ASSUME NEW j \in listing, NEW ok \in BOOLEAN, D!FolderAnswer(j, ok) PROVE DialogsNumbered' /\ ListsOnward
  <2>1. CASE D!Latest(j) /\ ok /\ j.kind = "use"
    BY <1>7, <1>11, <2>1 DEF D!FolderAnswer
  <2>2. CASE D!Latest(j) /\ ok /\ j.kind # "use"
    <3>1. folder # None /\ folder'.asked = folder.asked /\ folder'.of = folder.asked
      BY <1>0, <1>11, <2>2 DEF D!FolderAnswer, D!Latest, D!Browsers
    <3>2. listing' \subseteq listing /\ UNCHANGED <<stamp, creating, known>>
      BY <1>11, <2>2 DEF D!FolderAnswer
    <3>3. DialogsNumbered'
      BY <1>00, <1>2, <3>1, <3>2
    <3>. QED  BY <1>00, <3>1, <3>3 DEF ListsOnward, DialogsNumbered
  <2>3. CASE ~ (D!Latest(j) /\ ok) /\ j.kind = "start" /\ folder # None /\ j.id = folder.first
    <3>1. folder' = [folder EXCEPT !.asked = stamp] /\ stamp' = stamp + 1 /\ UNCHANGED <<creating, known>>
          /\ listing' = (listing \ {j}) \cup {D!Request("go", None)}
      BY <1>11, <2>3 DEF D!FolderAnswer
    <3>2. folder'.asked = stamp /\ folder'.of = folder.of
      BY <1>0, <2>3, <3>1 DEF D!Browsers
    <3>3. \A k \in listing' : k.id < stamp'
      BY <1>0, <3>1 DEF D!Request, DialogsNumbered, DialogsInv, DialogsTyped, Listings
    <3>4. folder.of <= stamp
      BY <1>0, <1>00, <2>3 DEF DialogsNumbered
    <3>. QED  BY <1>0, <1>00, <2>3, <3>1, <3>2, <3>3, <3>4 DEF DialogsNumbered, ListsOnward
  <2>4. CASE ~ (D!Latest(j) /\ ok) /\ ~ (j.kind = "start" /\ folder # None /\ j.id = folder.first)
    <3>1. listing' = listing \ {j} /\ UNCHANGED <<folder, stamp, creating, known>>
      BY <1>11, <2>4 DEF D!FolderAnswer
    <3>. QED  BY <1>00, <1>2, <3>1 DEF ListsOnward, DialogsNumbered
  <2>. QED  BY <2>1, <2>2, <2>3, <2>4
<1>. QED
  BY <1>3, <1>5, <1>6, <1>8, <1>9, <1>10, <1>11 DEF D!Browse

\* Every step keeps the numbers, and lists onward.
LEMMA DialogsNumber ==
    ASSUME DialogsInv, DialogsNumbered, DialogMoves
    PROVE  DialogsNumbered' /\ ListsOnward
<1>1. ASSUME DialogsAside, DialogsNumbered' \/ DialogsMakeNone PROVE DialogsNumbered' /\ ListsOnward
  <2>1. stamp \in Nat /\ (folder # None => folder \in D!Browsers) /\ \A j \in listing : j.id \in Nat
    BY DEF DialogsInv, DialogsTyped, Listings
  <2>2. folder # None => folder.of \in Nat /\ folder.asked \in Nat
    BY <2>1 DEF D!Browsers
  <2>. QED  BY <1>1, <2>1, <2>2 DEF DialogsAside, DialogsMakeNone, DialogsNumbered, ListsOnward
<1>2. CASE UNCHANGED dialogs
  BY <1>1, <1>2 DEF dialogs, DialogsAside, DialogsMakeNone
<1>3. CASE D!DialogCommand(Free)
  <2>1. TRUE \in BOOLEAN /\ FALSE \in BOOLEAN
    OBVIOUS
  <2>. QED  BY <1>1, <1>3, <2>1, OthersAside, MakesOfAFolder, BrowserNumbers DEF D!DialogCommand, D!TriggerGone
<1>4. CASE D!DialogAnswer
  BY <1>1, <1>4, OthersAside, MakesOfAFolder, BrowserNumbers DEF D!DialogAnswer
<1>. QED  BY <1>1, <1>2, <1>3, <1>4, OthersAside DEF DialogMoves

\* The listing of a later request is not replaced by an earlier one's (folder_browser.js).
THEOREM ListingGoesOn == Spec => ListingNeverGoesBack
<1>1. Init => DialogsNumbered
  BY DEF Init, D!DialogsInit, DialogsNumbered
<1>2. SurfacesInv /\ DialogsNumbered /\ [Next]_vars => DialogsNumbered' /\ ListsOnward
  BY EachMoves, DialogsNumber DEF SurfacesInv
<1>3. Spec => []DialogsNumbered
  BY <1>1, <1>2, SurfacesInductive, PTL DEF Spec
<1>4. ListsOnward => [(folder # None /\ folder' # None /\ folder'.first = folder.first) => folder'.of >= folder.of]_D!dialogs
  BY DEF ListsOnward
<1>. QED  BY <1>2, <1>3, <1>4, SurfacesInductive, PTL DEF Spec, ListingNeverGoesBack, D!ListingNeverGoesBack

-----------------------------------------------------------------------------
(* The types of the sheets. *)

\* A save of the theme switcher has all its fields; what it shows is a theme.
SaveFields == {"sheet", "n", "theme", "ends", "settings", "kept", "put", "sent"}
Persists(p) ==
    /\ p = [f \in SaveFields |-> p[f]]
    /\ p.theme \in Vals /\ p.kept \in Vals
Savings == [step : {"fresh", "put", "follow"}, sent : S!Configs, patch : SUBSET Keys, put : S!Configs, fresh : S!Configs]
SettingsTyped ==
    /\ server \in S!Configs /\ cfg \in S!Configs /\ draft \in S!Configs /\ baseline \in S!Configs
    /\ shown \in Vals /\ panel \in Sheets \cup {"settings", None}
    /\ sheet \in S!Switchers \cup {None}
    /\ view # 0 => panel = "settings"
    /\ saving \in Savings \cup {None}
    /\ \A p \in persists : Persists(p)

\* Themes are values, and what a step leaves alone keeps its type.
LEMMA ThemesAreValues == \A c \in S!Configs : c[Theme] \in Vals
BY SurfacesAssumption DEF S!Configs

\* Gestures of the sheets, of Settings and of the switcher.
LEMMA SettingsCommandTypes ==
    ASSUME SettingsTyped, SettingsInv, 
           \/ UNCHANGED settings \/ S!SettingsCommand
           \/ S!ClosePanel
           \/ \E name \in Sheets \cup {"settings"} : S!TogglePanel(name)
    PROVE  SettingsTyped'
<1>0. sheet' \in S!Switchers \cup {None}
  <2>1. SettingsInv'
    BY SettingsRest, SettingsCommandKeeps, ClosePanelKeeps, TogglePanelKeeps
  <2>. QED  BY <2>1 DEF SettingsInv
<1>1. CASE UNCHANGED settings
  BY <1>1 DEF settings, SettingsTyped, Persists
<1>2. CASE S!ClosePanel
  BY <1>0, <1>2 DEF S!ClosePanel, S!follows, SettingsTyped, Persists
<1>3. ASSUME NEW name \in Sheets \cup {"settings"}, S!Show(name) PROVE SettingsTyped'
  <2>1. panel' = name /\ (name # "settings" => view' = 0) 
        /\ UNCHANGED <<server, cfg, shown, draft, baseline, saving, sheet, persists>>
    BY <1>3 DEF S!Show, S!follows
  <2>. QED  BY <2>1 DEF SettingsTyped, Persists
<1>4. ASSUME NEW k \in Keys, NEW v \in Vals, S!Edit(k, v) PROVE SettingsTyped'
  <2>1. draft' \in S!Configs
    BY <1>4 DEF S!Edit, SettingsTyped, S!Configs
  <2>. QED  BY <1>0, <1>4, <2>1 DEF S!Edit, S!follows, SettingsTyped, Persists
<1>5. ASSUME NEW k \in Keys, NEW v \in Vals, S!OtherSaves(k, v) PROVE SettingsTyped'
  <2>1. server' \in S!Configs
    BY <1>5 DEF S!OtherSaves, SettingsTyped, S!Configs
  <2>. QED  BY <1>0, <1>5, <2>1 DEF S!OtherSaves, S!follows, SettingsTyped, Persists
<1>6. CASE S!SaveSettings
  <2>1. saving' \in Savings
    BY <1>6 DEF S!SaveSettings, SettingsTyped, Savings
  <2>. QED  BY <1>0, <1>6, <2>1 DEF S!SaveSettings, S!follows, SettingsTyped, Persists
<1>7. CASE S!WindowFocused
  BY <1>0, <1>7 DEF S!WindowFocused, SettingsTyped, Persists
<1>8. CASE S!OpenThemeSwitcher
  BY <1>0, <1>8 DEF S!OpenThemeSwitcher, S!follows, SettingsTyped, Persists
<1>9. ASSUME NEW t \in Vals, S!SelectTheme(t) \/ S!HoverTheme(t) PROVE SettingsTyped'
  <2>1. sheet \in S!Switchers
    BY <1>9 DEF S!SelectTheme, S!HoverTheme, SettingsTyped
  <2>2. shown' \in Vals
    BY <1>9, <2>1 DEF S!SelectTheme, S!HoverTheme, S!Preview, S!Switchers
  <2>. QED  BY <1>0, <1>9, <2>2 DEF S!SelectTheme, S!HoverTheme, SettingsTyped, Persists
<1>10. ASSUME NEW t \in Vals, sheet # None PROVE \A ends : Persists(S!Persisting(t, ends))
  BY <1>10 DEF S!Persisting, Persists, SaveFields, SettingsTyped, S!Switchers
<1>11. ASSUME NEW t \in Vals, S!ApplyTheme(t) PROVE SettingsTyped'
  <2>1. sheet \in S!Switchers /\ sheet # None
    BY <1>11 DEF S!ApplyTheme, SettingsTyped
  <2>2. shown' \in Vals
    BY <1>11, <2>1 DEF S!ApplyTheme, S!Preview, S!Switchers
  <2>3. persists' = persists \cup {S!Persisting(t, FALSE)}
    BY <1>11 DEF S!ApplyTheme
  <2>4. \A p \in persists' : Persists(p)
    BY <1>10, <2>1, <2>3 DEF SettingsTyped
  <2>. QED  BY <1>0, <1>11, <2>2, <2>4 DEF S!ApplyTheme, SettingsTyped
<1>12. ASSUME NEW how \in {"cancel", "done", "outside"}, S!CloseThemeSwitcher(how) PROVE SettingsTyped'
  <2>1. sheet \in S!Switchers /\ sheet # None
    BY <1>12 DEF S!CloseThemeSwitcher, SettingsTyped
  <2>2. S!EndsOn(how) \in Vals /\ sheet.previewed \in Vals
    BY <2>1 DEF S!EndsOn, S!Switchers
  <2>3. \A p \in persists : Persists([p EXCEPT !.kept = sheet.previewed])
    BY <2>2 DEF SettingsTyped, Persists, SaveFields
  <2>4. \A p \in persists' : Persists(p)
    BY <1>10, <1>12, <2>1, <2>2, <2>3 DEF S!CloseThemeSwitcher, SettingsTyped
  <2>. QED  BY <1>0, <1>12, <2>2, <2>4 DEF S!CloseThemeSwitcher, SettingsTyped
<1>. QED
  BY <1>1, <1>2, <1>3, <1>4, <1>5, <1>6, <1>7, <1>8, <1>9, <1>11, <1>12 DEF S!SettingsCommand, S!TogglePanel

\* Answers, in any order.
LEMMA SettingsAnswerTypes ==
    ASSUME SettingsTyped, SettingsInv, S!SettingsAnswer
    PROVE  SettingsTyped'
<1>0. sheet' \in S!Switchers \cup {None}
  BY SettingsAnswerKeeps DEF SettingsInv
<1>1. ASSUME NEW c \in S!Configs, NEW j \in loads, S!LoadArrives(j, c) PROVE SettingsTyped'
  BY <1>0, <1>1 DEF S!LoadArrives, S!follows, SettingsTyped, Persists
<1>2. ASSUME NEW c \in S!Configs, S!SaveReads(c) PROVE SettingsTyped'
  <2>1. saving \in Savings /\ draft \in S!Configs
    BY <1>2 DEF S!SaveReads, SettingsTyped
  <2>2. saving' \in Savings \cup {None}
    <3>1. S!Edited \in SUBSET Keys
      BY DEF S!Edited
    <3>. QED  BY <1>2, <2>1, <3>1 DEF S!SaveReads, Savings
  <2>. QED  BY <1>0, <1>2, <2>2 DEF S!SaveReads, S!follows, SettingsTyped, Persists
<1>3. ASSUME NEW c \in S!Configs, S!SaveFollows(c) \/ S!SyncArrives(c) PROVE SettingsTyped'
  BY <1>0, <1>3, ThemesAreValues DEF S!SaveFollows, S!SyncArrives, S!Follow, SettingsTyped, Persists
<1>4. ASSUME NEW p \in persists PROVE p.theme \in Vals /\ \A c \in Vals : S!ShownAfter(p, c) \in Vals
  BY DEF S!ShownAfter, SettingsTyped, Persists, S!Switchers
<1>5. ASSUME NEW c \in S!Configs, NEW p \in persists, S!PersistFollows(p, c) PROVE SettingsTyped'
  <2>1. shown' \in Vals
    BY <1>4, <1>5, ThemesAreValues DEF S!PersistFollows
  <2>2. draft' \in S!Configs /\ baseline' \in S!Configs
    BY <1>4, <1>5 DEF S!PersistFollows, SettingsTyped, S!Configs
  <2>. QED  BY <1>0, <1>5, <2>1, <2>2 DEF S!PersistFollows, SettingsTyped, Persists
<1>6. ASSUME NEW into \in S!Configs, NEW from \in S!Configs, NEW these PROVE S!Merged(into, from, these) \in S!Configs
  BY DEF S!Merged, S!Configs
<1>7. ASSUME NEW ok \in BOOLEAN, S!SavePuts(ok) PROVE SettingsTyped'
  <2>1. saving \in Savings /\ saving.put \in S!Configs /\ saving.fresh \in S!Configs
    BY <1>7 DEF S!SavePuts, SettingsTyped, Savings
  <2>2. server' \in S!Configs /\ draft' \in S!Configs /\ baseline' \in S!Configs
    BY <1>6, <1>7, <2>1 DEF S!SavePuts, SettingsTyped
  <2>3. saving' \in Savings \cup {None}
    BY <1>7, <2>1, <2>2 DEF S!SavePuts, Savings
  <2>. QED  BY <1>0, <1>7, <2>2, <2>3 DEF S!SavePuts, S!follows, SettingsTyped, Persists
<1>8. ASSUME NEW ok \in BOOLEAN, NEW p \in persists, S!PersistPuts(p, ok) PROVE SettingsTyped'
  <2>1. server' \in S!Configs
    BY <1>4, <1>8 DEF S!PersistPuts, SettingsTyped, S!Configs
  <2>2. shown' \in Vals
    BY <1>4, <1>8 DEF S!PersistPuts, SettingsTyped
  <2>3. Persists([p EXCEPT !.put = TRUE, !.sent = server'])
    <3>1. Persists(p)
      BY DEF SettingsTyped
    <3>. QED  BY <3>1 DEF Persists, SaveFields
  <2>4. \A q \in persists' : Persists(q)
    BY <1>8, <2>3 DEF S!PersistPuts, SettingsTyped
  <2>. QED  BY <1>0, <1>8, <2>1, <2>2, <2>4 DEF S!PersistPuts, SettingsTyped
<1>9. CASE S!CheckDrift
  <2>1. shown' \in Vals
    BY <1>9 DEF S!CheckDrift, SettingsTyped, S!Switchers
  <2>. QED  BY <1>0, <1>9, <2>1 DEF S!CheckDrift, SettingsTyped, Persists
<1>. QED  BY <1>1, <1>2, <1>3, <1>5, <1>7, <1>8, <1>9 DEF S!SettingsAnswer

-----------------------------------------------------------------------------
(* The types of the foot of the sidebar. *)

UsageTyped ==
    /\ told \subseteq U!Parts /\ parts \subseteq U!Parts /\ pressed \subseteq U!Parts
    /\ popover \in U!Popovers \cup {None} /\ popovers \in Nat
    /\ popover # None => popover.id < popovers
    /\ \A r \in reads : r.of \subseteq U!Parts

\* What is read is of the parts there are.
LEMMA ReadsParts ==
    ASSUME UsageTyped, NEW of \in SUBSET U!Parts, NEW for, U!Reads(of, for)
    PROVE  \A r \in reads' : r.of \subseteq U!Parts
<1>1. reads' = reads \cup {[of |-> of, for |-> for]}
  BY DEF U!Reads
<1>. QED  BY <1>1 DEF UsageTyped

\* A popover is of a part.
LEMMA PopoverTyped ==
    ASSUME UsageTyped, NEW part \in U!Parts, U!ShowPopover(part)
    PROVE  /\ popover' \in U!Popovers /\ popovers' \in Nat /\ popover'.id < popovers'
           /\ \A r \in reads' : r.of \subseteq U!Parts
<1>1. popover' = [part |-> part, id |-> popovers] /\ popovers' = popovers + 1 /\ popovers \in Nat
  BY DEF U!ShowPopover, UsageTyped
<1>2. \E for : U!Reads({part}, for)
  BY DEF U!ShowPopover
<1>3. \A r \in reads' : r.of \subseteq U!Parts
  BY <1>2, ReadsParts
<1>. QED  BY <1>1, <1>3 DEF U!Popovers

\* Whatever happens to the usage line.
LEMMA UsageTypes ==
    ASSUME UsageTyped, UsageInv, UsageMoves
    PROVE  UsageTyped'
<1>1. CASE UNCHANGED usage
  BY <1>1 DEF usage, UsageTyped
<1>2. ASSUME NEW part \in U!Parts, U!ClickPart(part) PROVE UsageTyped'
  <2>1. CASE U!OpensPopover(part)
    BY <1>2, <2>1, PopoverTyped DEF U!ClickPart, UsageTyped
  <2>2. CASE ~ U!OpensPopover(part)
    BY <1>2, <2>2 DEF U!ClickPart, U!Gone, UsageTyped
  <2>. QED  BY <2>1, <2>2
<1>3. ASSUME NEW part \in U!Parts \cup {None}, U!PressOutside(part) PROVE UsageTyped'
  <2>1. popover # None /\ popover.part = part => part \in U!Parts
    BY DEF UsageTyped, U!Popovers
  <2>. QED  BY <1>3, <2>1 DEF U!PressOutside, U!Gone, UsageTyped
<1>4. CASE U!ClosePopover
  BY <1>4 DEF U!ClosePopover, U!Gone, UsageTyped
<1>5. ASSUME NEW p \in ticking, U!Tick(p) PROVE UsageTyped'
  <2>1. p = popover /\ popover # None
    BY DEF UsageInv, U!TimerFollows
  <2>2. {p.part} \in SUBSET U!Parts
    BY <2>1 DEF UsageTyped, U!Popovers
  <2>. QED  BY <1>5, <2>2, ReadsParts DEF U!Tick, UsageTyped
<1>6. ASSUME NEW full \in BOOLEAN, U!RefreshLine(full) PROVE UsageTyped'
  <2>1. \A r \in reads' : r.of \subseteq U!Parts
    BY <1>6, ReadsParts DEF U!RefreshLine, UsageTyped
  <2>. QED  BY <1>6, <2>1 DEF U!RefreshLine, U!Gone, UsageTyped
<1>7. CASE U!UsageAnswer
  <2>1. ASSUME NEW r \in reads, U!ReadFails(r) PROVE UsageTyped'
    BY <2>1 DEF U!ReadFails, UsageTyped
  <2>2. ASSUME NEW r \in reads, NEW some \in SUBSET r.of, U!ReadAnswer(r, some) PROVE UsageTyped'
    BY <2>2 DEF U!ReadAnswer, UsageTyped
  <2>3. CASE U!PressExpires
    BY <2>3 DEF U!PressExpires, UsageTyped
  <2>. QED  BY <1>7, <2>1, <2>2, <2>3 DEF U!UsageAnswer
<1>. QED  BY <1>1, <1>2, <1>3, <1>4, <1>5, <1>6, <1>7 DEF UsageMoves, U!UsageCommand

\* The backend's state, as it is and as it was read.
Releases == [state : {"idle", "available", "downloading", "verifying", "ready", "installing", "installed", "failed"},
             version : Versions \cup {None}]
UpdatesTyped ==
    /\ update \in Releases /\ current \in Releases /\ dismissed \in Versions \cup {None}
    /\ armed \in BOOLEAN /\ busy \in BOOLEAN
    /\ \A q \in queries : q.saw \in Releases
    /\ \A a \in orders : a.who \in {"card", "about"}

\* A card drawn anew is enabled or stays as it was.
LEMMA DrawnBusy ==
    ASSUME busy \in BOOLEAN, NEW c, NEW version, NEW enabled \in BOOLEAN, W!Draw(c, version, enabled)
    PROVE  busy' \in BOOLEAN
BY DEF W!Draw

\* Whatever happens to the update card.
LEMMA UpdatesTypes ==
    ASSUME UpdatesTyped, UpdatesMoves
    PROVE  UpdatesTyped'
<1>1. CASE UNCHANGED updates
  BY <1>1 DEF updates, UpdatesTyped
<1>2. ASSUME NEW control, W!CaretEnters(control) PROVE UpdatesTyped'
  BY <1>2 DEF W!CaretEnters, UpdatesTyped
<1>3. CASE W!CaretLeaves
  BY <1>3 DEF W!CaretLeaves, UpdatesTyped
<1>4. CASE W!Collapse
  <2>1. busy' \in BOOLEAN
    <3>1. W!Draw(current, current.version, FALSE) /\ FALSE \in BOOLEAN /\ busy \in BOOLEAN
      BY <1>4 DEF W!Collapse, UpdatesTyped
    <3>. QED  BY ONLY <3>1, DrawnBusy
  <2>2. dismissed' \in Versions \cup {None}
    BY <1>4 DEF W!Collapse, UpdatesTyped, Releases
  <2>. QED  BY <1>4, <2>1, <2>2 DEF W!Collapse, UpdatesTyped
<1>5. CASE W!Reopen
  <2>1. busy' \in BOOLEAN
    <3>1. W!Draw(current, None, FALSE) /\ FALSE \in BOOLEAN /\ busy \in BOOLEAN
      BY <1>5 DEF W!Reopen, UpdatesTyped
    <3>. QED  BY ONLY <3>1, DrawnBusy
  <2>. QED  BY <1>5, <2>1 DEF W!Reopen, UpdatesTyped
<1>6. ASSUME NEW who \in {"card", "about"}, W!Act(who) PROVE UpdatesTyped'
  <2>1. busy' \in BOOLEAN
    BY <1>6 DEF W!Act, UpdatesTyped
  <2>2. \A a \in orders' : a.who \in {"card", "about"}
    BY <1>6 DEF W!Act, UpdatesTyped
  <2>. QED  BY <1>6, <2>1, <2>2 DEF W!Act, UpdatesTyped
<1>7. ASSUME NEW about, W!LooksAgain(about) PROVE UpdatesTyped'
  BY <1>7 DEF W!LooksAgain, W!Looks, W!Query, W!card, UpdatesTyped
<1>8. ASSUME NEW v \in Versions \cup {None}, W!Probe(v) PROVE UpdatesTyped'
  <2>1. update' \in Releases
    BY <1>8 DEF W!Probe, W!Noted, W!Idle, UpdatesTyped, Releases
  <2>. QED  BY <1>8, <2>1 DEF W!Probe, W!card, UpdatesTyped
<1>9. ASSUME NEW state \in {"downloading", "verifying", "ready", "failed", "installed"}, W!BackendSteps(state) PROVE UpdatesTyped'
  <2>1. update' \in Releases
    BY <1>9 DEF W!BackendSteps, UpdatesTyped, Releases
  <2>. QED  BY <1>9, <2>1 DEF W!BackendSteps, W!card, UpdatesTyped
<1>10. ASSUME NEW a \in orders, W!ActAnswers(a) PROVE UpdatesTyped'
  <2>1. update' \in Releases
    BY <1>10 DEF W!ActAnswers, W!Takes, UpdatesTyped, Releases
  <2>. QED  BY <1>10, <2>1 DEF W!ActAnswers, W!card, UpdatesTyped
<1>11. ASSUME NEW q \in queries, W!QueryFails(q) PROVE UpdatesTyped'
  BY <1>11 DEF W!QueryFails, UpdatesTyped
<1>12. ASSUME NEW q \in queries, NEW c \in {q.saw, update}, W!QueryAnswers(q, c) PROVE UpdatesTyped'
  <2>1. c \in Releases
    BY DEF UpdatesTyped
  <2>2. busy' \in BOOLEAN
    <3>1. W!Draw(c, dismissed, q.for = "card") /\ (q.for = "card") \in BOOLEAN /\ busy \in BOOLEAN
      BY <1>12 DEF W!QueryAnswers, UpdatesTyped
    <3>. QED  BY ONLY <3>1, DrawnBusy
  <2>3. armed' \in BOOLEAN
    BY <1>12 DEF W!QueryAnswers, W!ShouldPoll, UpdatesTyped
  <2>. QED  BY <1>12, <2>1, <2>2, <2>3 DEF W!QueryAnswers, UpdatesTyped
<1>13. CASE W!Poll
  <2>1. armed' \in BOOLEAN /\ UNCHANGED <<update, current, orders, dismissed, busy>>
    BY <1>13 DEF W!Poll, W!card
  <2>2. \A q \in queries' : q.saw \in Releases
    BY <1>13 DEF W!Poll, W!Query, UpdatesTyped
  <2>. QED  BY <2>1, <2>2 DEF UpdatesTyped
<1>. QED
  BY <1>1, <1>2, <1>3, <1>4, <1>5, <1>6, <1>7, <1>8, <1>9, <1>10, <1>11, <1>12, <1>13
     DEF UpdatesMoves, W!UpdatesCommand, W!UpdatesAnswer

-----------------------------------------------------------------------------
(* Lists: of finite data there is a least piece, and so what is picked is counted. *)

\* Of numbers there is a least one.
LEMMA Least ==
    ASSUME NEW T \in SUBSET Nat, T # {}
    PROVE  \E x \in T : \A y \in T : x <= y
<1>. DEFINE Below == {0 .. x : x \in T}
<1>1. Below \subseteq FiniteSubsetsOf(Nat) /\ Below # {}
  <2>1. \A x \in T : IsFiniteSet(0 .. x) /\ 0 .. x \subseteq Nat
    BY FS_Interval
  <2>. QED  BY <2>1 DEF FiniteSubsetsOf
<1>2. IsWellFoundedOn(StrictSubsetOrdering(Nat), FiniteSubsetsOf(Nat))
  BY FS_StrictSubsetOrderingWellFounded
<1>. HIDE DEF Below
<1>3. PICK s \in Below : \A t \in Below : ~ (<<t, s>> \in StrictSubsetOrdering(Nat))
  BY <1>1, <1>2, WFMin
<1>4. PICK x \in T : s = 0 .. x
  BY DEF Below
<1>5. ASSUME NEW y \in T PROVE x <= y
  <2>1. SUFFICES ASSUME y < x PROVE FALSE
    OBVIOUS
  <2>2. 0 .. y \in Below /\ 0 .. y \in SUBSET (0 .. x) /\ 0 .. y # 0 .. x
    BY <2>1 DEF Below
  <2>3. <<0 .. y, s>> \in StrictSubsetOrdering(Nat)
    <3>1. 0 .. y \in SUBSET Nat /\ s \in SUBSET Nat /\ 0 .. y \subseteq s /\ 0 .. y # s
      BY <1>4, <2>2
    <3>. HIDE <1>3, <1>4, <2>2
    <3>. QED  BY ONLY <3>1 DEF StrictSubsetOrdering
  <2>. QED  BY <1>3, <2>2, <2>3
<1>. QED  BY <1>5

\* Of positions there is a k-th: the least one up to which k are counted.
LEMMA NthCounts ==
    ASSUME NEW n \in Nat, NEW I \in SUBSET (1 .. n), NEW k \in 1 .. Cardinality(I)
    PROVE  Nth(I, k) \in I /\ Cardinality({j \in I : j <= Nth(I, k)}) = k
<1>. DEFINE Upto(m) == {j \in I : j <= m}
            T == {m \in Nat : Cardinality(Upto(m)) >= k}
<1>0. \A j \in I : j \in Nat /\ 1 <= j /\ j <= n
  OBVIOUS
<1>1. IsFiniteSet(I) /\ \A m \in Nat : IsFiniteSet(Upto(m)) /\ Cardinality(Upto(m)) \in Nat
  <2>1. IsFiniteSet(1 .. n)
    BY FS_Interval
  <2>2. IsFiniteSet(I)
    BY <2>1, FS_Subset
  <2>3. \A m \in Nat : Upto(m) \subseteq I
    OBVIOUS
  <2>4. \A m \in Nat : IsFiniteSet(Upto(m))
    BY <2>2, <2>3, FS_Subset
  <2>. QED  BY <2>2, <2>4, FS_CardinalityType
<1>2. n \in T
  <2>1. Upto(n) = I
    BY <1>0
  <2>2. Cardinality(I) \in Nat
    BY <1>1, FS_CardinalityType
  <2>. QED  BY <2>1, <2>2
<1>. HIDE DEF T
<1>3. PICK m \in T : \A y \in T : m <= y
  <2>1. T \in SUBSET Nat /\ T # {}
    BY <1>2 DEF T
  <2>. QED  BY <2>1, Least
<1>4. m \in Nat /\ Cardinality(Upto(m)) >= k /\ k \in Nat /\ k >= 1
  <2>1. Cardinality(I) \in Nat
    BY <1>1, FS_CardinalityType
  <2>. QED  BY <2>1 DEF T
<1>5. m # 0
  <2>1. Upto(0) = {}
    <3>1. \A j \in I : ~ (j <= 0)
      BY <1>0
    <3>. QED  BY <3>1
  <2>2. Cardinality(Upto(0)) = 0
    BY <2>1, FS_EmptySet
  <2>. QED  BY <1>4, <2>2
<1>6. m - 1 \in Nat /\ Cardinality(Upto(m - 1)) < k /\ Cardinality(Upto(m - 1)) \in Nat
  <2>1. m - 1 \in Nat /\ ~ (m <= m - 1)
    BY <1>4, <1>5
  <2>2. Cardinality(Upto(m - 1)) \in Nat
    BY <1>1, <2>1
  <2>3. m - 1 \notin T
    BY <1>3, <2>1
  <2>. QED  BY <1>4, <2>1, <2>2, <2>3 DEF T
<1>7. m \in I
  <2>1. SUFFICES ASSUME m \notin I PROVE FALSE
    OBVIOUS
  <2>2. Upto(m) = Upto(m - 1)
    <3>1. \A j \in I : j <= m <=> j <= m - 1
      BY <1>0, <1>4, <2>1
    <3>. QED  BY <3>1
  <2>. QED  BY <1>4, <1>6, <2>2
<1>8. Cardinality(Upto(m)) = k
  <2>1. Upto(m) = Upto(m - 1) \cup {m} /\ m \notin Upto(m - 1)
    <3>1. \A j \in I : j <= m <=> j <= m - 1 \/ j = m
      BY <1>0, <1>4
    <3>2. ~ (m <= m - 1)
      BY <1>4
    <3>. QED  BY <1>7, <3>1, <3>2
  <2>2. Cardinality(Upto(m - 1) \cup {m}) = Cardinality(Upto(m - 1)) + 1
    BY <1>1, <1>6, <2>1, FS_AddElement
  <2>. QED  BY <1>4, <1>6, <2>1, <2>2
<1>. QED  BY <1>7, <1>8 DEF Nth

\* What is picked of a list is a list of some of its elements.
LEMMA PickedOfIt ==
    ASSUME NEW A, NEW rows \in Seq(A), NEW I \in SUBSET DOMAIN rows
    PROVE  /\ Picked(rows, I) \in Seq(A) /\ Len(Picked(rows, I)) = Cardinality(I) /\ Cardinality(I) \in Nat
           /\ \A k \in 1 .. Cardinality(I) : Nth(I, k) \in I /\ Picked(rows, I)[k] = rows[Nth(I, k)]
<1>1. Len(rows) \in Nat /\ I \subseteq 1 .. Len(rows)
  OBVIOUS
<1>2. IsFiniteSet(1 .. Len(rows))
  BY <1>1, FS_Interval
<1>3. IsFiniteSet(I) /\ Cardinality(I) \in Nat
  BY <1>1, <1>2, FS_Subset, FS_CardinalityType
<1>4. \A k \in 1 .. Cardinality(I) : Nth(I, k) \in I
  BY <1>1, NthCounts
<1>5. \A k \in 1 .. Cardinality(I) : Picked(rows, I)[k] = rows[Nth(I, k)] /\ rows[Nth(I, k)] \in A
  BY <1>1, <1>4 DEF Picked
<1>6. Picked(rows, I) = [k \in 1 .. Cardinality(I) |-> Picked(rows, I)[k]]
  BY DEF Picked
<1>. QED  BY <1>3, <1>4, <1>5, <1>6

\* Every position that is picked is somewhere in what is picked.
LEMMA PickedAll ==
    ASSUME NEW A, NEW rows \in Seq(A), NEW I \in SUBSET DOMAIN rows, NEW i \in I
    PROVE  \E k \in 1 .. Cardinality(I) : Picked(rows, I)[k] = rows[i]
<1>. DEFINE Upto(m) == {j \in I : j <= m}
            k == Cardinality(Upto(i))
<1>1. Len(rows) \in Nat /\ I \subseteq 1 .. Len(rows) /\ IsFiniteSet(1 .. Len(rows))
  BY FS_Interval
<1>2. IsFiniteSet(I) /\ \A j \in I : j \in Nat
  BY <1>1, FS_Subset
<1>3. \A m : Upto(m) \subseteq I
  OBVIOUS
<1>4. \A m : IsFiniteSet(Upto(m)) /\ Cardinality(Upto(m)) \in Nat /\ Cardinality(Upto(m)) <= Cardinality(I)
  BY <1>2, <1>3, FS_Subset, FS_CardinalityType
<1>5. i \in Upto(i)
  BY <1>2
<1>6. k \in 1 .. Cardinality(I)
  <2>1. Cardinality(I) \in Nat /\ k \in Nat /\ k <= Cardinality(I)
    BY <1>2, <1>4, FS_CardinalityType
  <2>2. k # 0
    BY <1>4, <1>5, FS_EmptySet
  <2>. HIDE DEF k
  <2>. QED  BY <2>1, <2>2
<1>7. ASSUME NEW a \in I, NEW b \in I, a < b PROVE Cardinality(Upto(a)) # Cardinality(Upto(b))
  <2>1. Upto(a) \subseteq Upto(b) /\ b \in Upto(b) /\ b \notin Upto(a)
    BY <1>2, <1>7
  <2>. QED  BY <1>4, <2>1, FS_Subset
<1>8. Nth(I, k) \in I /\ Cardinality(Upto(Nth(I, k))) = k
  <2>1. PICK l \in 1 .. Cardinality(I) : l = k
    BY <1>6
  <2>2. Nth(I, l) \in I /\ Cardinality({j \in I : j <= Nth(I, l)}) = l
    BY <1>1, NthCounts
  <2>. QED  BY <2>1, <2>2
<1>9. Nth(I, k) = i
  <2>1. PICK n \in I : n = Nth(I, k)
    BY <1>8
  <2>2. ~ (n < i) /\ ~ (i < n)
    BY <1>7, <1>8, <2>1
  <2>. QED  BY <1>2, <2>1, <2>2
<1>. HIDE DEF k
<1>. QED  BY <1>6, <1>9 DEF Picked

\* A finite set as a list.
LEMMA ListedOfSet ==
    ASSUME NEW A, IsFiniteSet(A)
    PROVE  Cardinality(A) \in Nat /\ SetToSeq(A) \in [1 .. Cardinality(A) -> A]
<1>1. Cardinality(A) \in Nat /\ \E f : f \in Bijection(1 .. Cardinality(A), A)
  BY FS_CardinalityType DEF ExistsBijection
<1>2. PICK f : f \in Bijection(1 .. Cardinality(A), A)
  BY <1>1
<1>3. f \in [1 .. Cardinality(A) -> A] /\ IsInjective(f)
  BY <1>2 DEF Bijection, Injection, IsInjective
<1>. QED  BY <1>1, <1>3 DEF SetToSeq

-----------------------------------------------------------------------------
(* The rows of the palette. *)

Plain == {"plain", "kill", "search", "foreign", "window", "save", "viewer", "workspace", "resume"}
Acts == Plain \cup {"go", "attach", "move", "back", "here", "elsewhere", "found", "confirm", "really", "backlist"}
Things == Terminals \cup {None, All} \cup Queries
AnyRows == {Row(a, x) : a \in Acts, x \in Things}

\* The rows a list may have, by its mode and what it is about.
CommandRows == {Row(a, None) : a \in Plain} \cup {Row(a, t) : a \in {"go", "attach"}, t \in Terminals}
ForeignRows == {Row("back", None)} \cup {Row("move", t) : t \in Terminals}
WindowRows == {Row(a, None) : a \in {"back", "here", "elsewhere"}}
SearchRows(s) == {Row("back", None), Row("found", s)}
KillsRows == {Row("back", None)} \cup {Row("confirm", t) : t \in Terminals \cup {All}}
ReallyRows(s) == {Row("really", s), Row("backlist", None)}
RowsOf(m, s) ==
    CASE m = "commands" -> CommandRows
      [] m = "foreign"  -> ForeignRows
      [] m = "window"   -> WindowRows
      [] m = "search"   -> SearchRows(s)
      [] m = "kill"     -> IF s = None THEN KillsRows ELSE ReallyRows(s)
      [] OTHER          -> AnyRows

Jobs == [kind : {"live", "details", "agents", "search", "windows", "kill", "names", "saved", "changed"},
         of : Things, id : Nat, saw : SUBSET Terminals]
Lates == [names : BOOLEAN, attach : SUBSET Terminals, agents : BOOLEAN]

\* The highlight is on a row of the narrowed list, or it is empty.
OnARow == sel \in 1 .. Len(Filtered(items, text)) \cup {1}
ModesTyped ==
    /\ mode \in {"commands", "prompt", "foreign", "window", "search", "kill"}
    /\ mode = "search" => subject \in Queries
    /\ mode = "kill" => subject \in Terminals \cup {None, All}
RowsTyped ==
    /\ items \in Seq(AnyRows)
    /\ open => items \in Seq(RowsOf(mode, subject))
    /\ open /\ mode = "search" => Len(items) >= 1
FillTyped == running \subseteq Terminals /\ foreignSessions \subseteq Terminals /\ late \in Lates
\* An answer to a search that is still wanted is to the search that is shown.
AsksTyped ==
    /\ requestId \in Nat
    /\ asked \subseteq Jobs
    /\ \A j \in asked : j.id <= requestId
    /\ \A j \in asked : open /\ mode = "search" /\ j.kind = "search" /\ j.id = requestId => j.of = subject
ListInv == OnARow /\ ModesTyped /\ RowsTyped /\ FillTyped /\ AsksTyped

\* The rows of every list are rows.
LEMMA RowsAreRows ==
    ASSUME NEW m, NEW s, m = "search" => s \in Queries, m = "kill" => s \in Terminals \cup {None, All}
    PROVE  RowsOf(m, s) \subseteq AnyRows
<1>1. CommandRows \subseteq AnyRows /\ ForeignRows \subseteq AnyRows /\ WindowRows \subseteq AnyRows
  BY DEF CommandRows, ForeignRows, WindowRows, AnyRows, Acts, Plain, Things
<1>2. s \in Things => SearchRows(s) \subseteq AnyRows /\ ReallyRows(s) \subseteq AnyRows
  BY DEF SearchRows, ReallyRows, AnyRows, Acts, Things
<1>3. KillsRows \subseteq AnyRows
  BY DEF KillsRows, AnyRows, Acts, Things
<1>4. m \in {"search", "kill"} => s \in Things
  BY DEF Things
<1>. QED  BY <1>1, <1>2, <1>3, <1>4 DEF RowsOf

\* A row for each terminal of a set.
LEMMA RowOfEach ==
    ASSUME NEW act, NEW A \in SUBSET Terminals
    PROVE  TerminalRows(act, A) \in Seq({Row(act, t) : t \in Terminals})
<1>1. IsFiniteSet(A)
  BY PaletteAssumption, FS_Subset
<1>2. Cardinality(A) \in Nat /\ SetToSeq(A) \in [1 .. Cardinality(A) -> A]
  BY <1>1, ListedOfSet
<1>3. \A i \in 1 .. Cardinality(A) : SetToSeq(A)[i] \in Terminals
  BY <1>2
<1>. QED  BY <1>2, <1>3 DEF TerminalRows

\* The list of commands, whatever of it has arrived.
LEMMA CommandsListed ==
    ASSUME FillTyped, NEW l \in Lates
    PROVE  Compose(l) \in Seq(CommandRows)
<1>. DEFINE Each(a) == {Row(a, t) : t \in Terminals}
<1>1. Each("go") \subseteq CommandRows /\ Each("attach") \subseteq CommandRows
  BY DEF CommandRows
<1>2. \A a \in Plain : Row(a, None) \in CommandRows
  BY DEF CommandRows
<1>3. TerminalRows("go", running) \in Seq(CommandRows)
  <2>1. TerminalRows("go", running) \in Seq(Each("go"))
    BY RowOfEach DEF FillTyped
  <2>. HIDE DEF Each
  <2>. QED  BY <1>1, <2>1
<1>4. TerminalRows("attach", l.attach) \in Seq(CommandRows)
  <2>1. l.attach \in SUBSET Terminals
    BY DEF Lates
  <2>2. TerminalRows("attach", l.attach) \in Seq(Each("attach"))
    BY <2>1, RowOfEach
  <2>. HIDE DEF Each
  <2>. QED  BY <1>1, <2>2
<1>5. << Row("plain", None), Row("kill", None), Row("search", None), Row("foreign", None),
         Row("window", None), Row("save", None), Row("viewer", None) >> \in Seq(CommandRows)
  BY <1>2 DEF Plain
<1>6. StaticItems \in Seq(CommandRows)
  BY <1>3, <1>5 DEF StaticItems
<1>7. WorkspaceRows(l.names) \in Seq(CommandRows)
  BY <1>2 DEF WorkspaceRows, Plain
<1>8. AgentSessionRows(l.agents) \in Seq(CommandRows)
  BY <1>2 DEF AgentSessionRows, Plain
<1>9. StaticItems \o WorkspaceRows(l.names) \in Seq(CommandRows)
  BY <1>6, <1>7
<1>10. (StaticItems \o WorkspaceRows(l.names)) \o TerminalRows("attach", l.attach) \in Seq(CommandRows)
  BY <1>4, <1>9
<1>. QED  BY <1>8, <1>10 DEF Compose

\* The lists of the other modes.
LEMMA ModesListed ==
    ASSUME FillTyped
    PROVE  /\ Back \o TerminalRows("move", foreignSessions) \in Seq(ForeignRows)
           /\ KillRows \o Back \in Seq(KillsRows)
           /\ Back \o << Row("here", None) >> \in Seq(WindowRows)
<1>. DEFINE Each(a) == {Row(a, t) : t \in Terminals}
<1>1. Each("move") \subseteq ForeignRows /\ Each("confirm") \subseteq KillsRows
  BY DEF ForeignRows, KillsRows
<1>2. TerminalRows("move", foreignSessions) \in Seq(ForeignRows)
  <2>1. TerminalRows("move", foreignSessions) \in Seq(Each("move"))
    BY RowOfEach DEF FillTyped
  <2>. HIDE DEF Each
  <2>. QED  BY <1>1, <2>1
<1>3. TerminalRows("confirm", running) \in Seq(KillsRows)
  <2>1. TerminalRows("confirm", running) \in Seq(Each("confirm"))
    BY RowOfEach DEF FillTyped
  <2>. HIDE DEF Each
  <2>. QED  BY <1>1, <2>1
<1>4. Row("back", None) \in ForeignRows /\ Row("back", None) \in KillsRows /\ Row("back", None) \in WindowRows
  BY DEF ForeignRows, KillsRows, WindowRows
<1>5. Row("confirm", All) \in KillsRows /\ Row("here", None) \in WindowRows
  BY DEF KillsRows, WindowRows
<1>6. << Row("confirm", All) >> \in Seq(KillsRows) /\ << >> \in Seq(KillsRows)
  BY <1>5
<1>7. KillRows \in Seq(KillsRows)
  BY <1>3, <1>6 DEF KillRows
<1>8. Back \in Seq(ForeignRows) /\ Back \in Seq(KillsRows) /\ Back \in Seq(WindowRows)
  BY <1>4 DEF Back
<1>9. << Row("here", None) >> \in Seq(WindowRows)
  BY <1>5
<1>. QED  BY <1>2, <1>7, <1>8, <1>9

\* What is left of a list that is narrowed.
LEMMA Narrows ==
    ASSUME NEW A, NEW rows \in Seq(A), NEW t
    PROVE  Filtered(rows, t) \in Seq(A)
<1>1. {i \in DOMAIN rows : rows[i].label = t} \in SUBSET DOMAIN rows
  OBVIOUS
<1>. QED  BY <1>1, PickedOfIt DEF Filtered

\* The first row of its label, if there is one.
LEMMA FirstIsARow ==
    ASSUME NEW rows \in Seq(AnyRows), NEW label
    PROVE  First(rows, label) \in 1 .. Len(rows) \cup {1}
<1>. DEFINE found == {i \in DOMAIN rows : rows[i].label = label}
<1>1. DOMAIN rows = 1 .. Len(rows) /\ Len(rows) \in Nat
  OBVIOUS
<1>2. found \in SUBSET Nat
  BY <1>1
<1>3. found # {} => \E i \in found : \A j \in found : i <= j
  BY <1>2, Least
<1>4. found # {} => (CHOOSE i \in found : \A j \in found : i <= j) \in found
  BY <1>3
<1>. QED  BY <1>1, <1>4 DEF First

\* However the list is filled anew, the highlight is on a row of it.
LEMMA Refills ==
    ASSUME NEW rows \in Seq(AnyRows), NEW t, NEW reset \in BOOLEAN, Refilter(rows, t, reset)
    PROVE  items' = rows /\ OnARow'
<1>1. items' = rows /\ text' = t
  BY DEF Refilter
<1>2. Filtered(rows, t) \in Seq(AnyRows)
  BY Narrows
<1>3. First(Filtered(rows, t), Highlighted.label) \in 1 .. Len(Filtered(rows, t)) \cup {1}
  BY <1>2, FirstIsARow
<1>4. sel' = 1 \/ sel' = First(Filtered(rows, t), Highlighted.label)
  BY DEF Refilter
<1>5. sel' \in 1 .. Len(Filtered(rows, t)) \cup {1}
  BY <1>3, <1>4
<1>. QED  BY <1>1, <1>5 DEF OnARow

\* What a step that adds no search may do with the answers in flight.
LEMMA AsksStay ==
    ASSUME AsksTyped, requestId' \in Nat, requestId' >= requestId,
           \A j \in asked' : j \in asked \/ (j \in Jobs /\ j.kind # "search" /\ j.id <= requestId'),
           ~ open' \/ mode' # "search" \/ UNCHANGED <<open, mode, subject>>
    PROVE  AsksTyped'
<1>1. \A j \in asked' : j \in Jobs /\ j.id \in Nat /\ j.id <= requestId'
  BY DEF AsksTyped, Jobs
<1>2. ASSUME NEW j \in asked', open', mode' = "search", j.kind = "search", j.id = requestId' PROVE j.of = subject'
  <2>1. j \in asked /\ open /\ mode = "search" /\ subject' = subject
    BY <1>2
  <2>2. j.id <= requestId /\ requestId \in Nat
    BY <2>1 DEF AsksTyped
  <2>3. j.id = requestId
    BY <1>2, <2>2
  <2>. QED  BY <1>2, <2>1, <2>3 DEF AsksTyped
<1>. QED  BY <1>1, <1>2 DEF AsksTyped

\* What is asked for.
LEMMA JobsTyped ==
    ASSUME NEW kind \in {"live", "agents", "search", "windows", "kill", "names"}, NEW of \in Things, NEW id \in Nat
    PROVE  Job(kind, of, id) \in Jobs /\ Job(kind, of, id).kind = kind /\ Job(kind, of, id).id = id /\ Job(kind, of, id).of = of
BY DEF Job, Jobs

\* A list of a mode is shown.
LEMMA ShowsRows ==
    ASSUME NEW m \in {"commands", "foreign", "window", "search", "kill"}, NEW s,
           m = "search" => s \in Queries, m = "kill" => s \in Terminals \cup {None, All},
           NEW rows \in Seq(RowsOf(m, s)), Len(rows) >= 1,
           Enter(m, s), Refilter(rows, None, TRUE)
    PROVE  OnARow' /\ ModesTyped' /\ RowsTyped'
<1>1. mode' = m /\ subject' = s
  BY DEF Enter
<1>2. ModesTyped'
  BY <1>1 DEF ModesTyped
<1>3. RowsOf(m, s) \subseteq AnyRows
  BY RowsAreRows
<1>4. rows \in Seq(AnyRows)
  BY <1>3
<1>5. items' = rows /\ OnARow'
  BY <1>4, Refills
<1>6. RowsTyped'
  BY <1>1, <1>4, <1>5 DEF RowsTyped
<1>. QED  BY <1>2, <1>5, <1>6

\* The palette opens, or goes back to its first list.
LEMMA OpensListed ==
    ASSUME ListInv, OpenPalette
    PROVE  ListInv'
<1>1. EmptyLate \in Lates
  BY DEF EmptyLate, Lates
<1>2. Compose(EmptyLate) \in Seq(RowsOf("commands", None))
  <2>1. Compose(EmptyLate) \in Seq(CommandRows)
    BY <1>1, CommandsListed DEF ListInv
  <2>. QED  BY <2>1 DEF RowsOf
<1>3. Len(Compose(EmptyLate)) >= 1
  BY <1>2 DEF Compose, StaticItems
<1>4. OnARow' /\ ModesTyped' /\ RowsTyped'
  <2>1. Enter("commands", None) /\ Refilter(Compose(EmptyLate), None, TRUE)
    BY DEF OpenPalette
  <2>. QED  BY <1>2, <1>3, <2>1, ShowsRows
<1>5. FillTyped'
  BY <1>1 DEF OpenPalette, ListInv, FillTyped
<1>6. AsksTyped'
  <2>1. requestId' \in Nat /\ requestId' = requestId + 1 /\ requestId \in Nat /\ mode' = "commands" /\ None \in Things
    BY DEF OpenPalette, Enter, ListInv, AsksTyped, Things
  <2>2. asked' = asked \cup {Job("live", None, requestId'), Job("agents", None, requestId')}
    BY DEF OpenPalette, Ask
  <2>3. ASSUME NEW j \in asked' PROVE j \in asked \/ (j \in Jobs /\ j.kind # "search" /\ j.id <= requestId')
    BY <2>1, <2>2, JobsTyped
  <2>. QED  BY <2>1, <2>3, AsksStay DEF ListInv
<1>. QED  BY <1>4, <1>5, <1>6 DEF ListInv

\* It closes, whatever was answered.
LEMMA ClosesListed ==
    ASSUME ListInv, Closing, asked' \subseteq asked, running' \subseteq Terminals
    PROVE  ListInv'
<1>1. OnARow'
  BY DEF Closing, list, ListInv, OnARow
<1>2. ModesTyped' /\ RowsTyped'
  BY DEF Closing, list, ListInv, ModesTyped, RowsTyped
<1>3. FillTyped'
  BY DEF Closing, fill, ListInv, FillTyped
<1>4. AsksTyped'
  <2>1. requestId' \in Nat /\ requestId' = requestId + 1 /\ requestId \in Nat /\ mode' = "commands"
    BY DEF Closing, ListInv, AsksTyped
  <2>. QED  BY <2>1, AsksStay DEF ListInv
<1>. QED  BY <1>1, <1>2, <1>3, <1>4 DEF ListInv

\* A question is asked.
LEMMA PromptsListed ==
    ASSUME ListInv, NEW question, PromptMode(question)
    PROVE  ListInv'
<1>1. mode' = "prompt" /\ sel' = 1 /\ UNCHANGED <<open, requestId, items, late, foreignSessions, asked, running>>
  BY DEF PromptMode, Enter, fill
<1>2. OnARow'
  BY <1>1 DEF OnARow
<1>3. ModesTyped' /\ RowsTyped'
  BY <1>1 DEF ListInv, ModesTyped, RowsTyped, RowsOf
<1>4. FillTyped'
  BY <1>1 DEF ListInv, FillTyped
<1>5. AsksTyped'
  BY <1>1 DEF ListInv, AsksTyped
<1>. QED  BY <1>2, <1>3, <1>4, <1>5 DEF ListInv

\* A search is new: no answer of an earlier one counts for it.
LEMMA SearchesListed ==
    ASSUME ListInv, NEW q \in Queries, SearchMode(q)
    PROVE  ListInv'
<1>1. Back \in Seq(RowsOf("search", q)) /\ Len(Back) >= 1
  <2>1. Row("back", None) \in SearchRows(q)
    BY DEF SearchRows
  <2>2. Back \in Seq(SearchRows(q)) /\ Len(Back) = 1
    BY <2>1 DEF Back
  <2>. QED  BY <2>2 DEF RowsOf
<1>2. OnARow' /\ ModesTyped' /\ RowsTyped'
  <2>1. Enter("search", q) /\ Refilter(Back, None, TRUE)
    BY DEF SearchMode, ShowRows
  <2>. QED  BY <1>1, <2>1, ShowsRows
<1>3. FillTyped'
  BY DEF SearchMode, fill, ListInv, FillTyped
<1>4. AsksTyped'
  <2>1. requestId' \in Nat /\ requestId' = requestId + 1 /\ requestId \in Nat /\ q \in Things /\ subject' = q
    BY DEF SearchMode, ShowRows, Enter, ListInv, AsksTyped, Things
  <2>2. asked' = asked \cup {Job("search", q, requestId')}
    BY DEF SearchMode, Ask
  <2>3. Job("search", q, requestId') \in Jobs /\ Job("search", q, requestId').id = requestId' /\ Job("search", q, requestId').of = q
    BY <2>1, JobsTyped
  <2>4. ASSUME NEW j \in asked PROVE j \in Jobs /\ j.id <= requestId' /\ j.id # requestId'
    <3>1. j \in Jobs /\ j.id \in Nat /\ j.id <= requestId
      BY DEF ListInv, AsksTyped, Jobs
    <3>. QED  BY <2>1, <3>1
  <2>. QED  BY <2>1, <2>2, <2>3, <2>4 DEF AsksTyped
<1>. QED  BY <1>2, <1>3, <1>4 DEF ListInv

\* Terminals elsewhere, or to kill.
LEMMA ListsListed ==
    ASSUME ListInv,
           ForeignSessionMode \/ KillMode \/ \E of \in Terminals \cup {All} : KillConfirm(of)
    PROVE  ListInv'
<1>0. FillTyped /\ AsksTyped
  BY DEF ListInv
<1>1. OnARow' /\ ModesTyped' /\ RowsTyped' /\ mode' # "search"
  <2>1. CASE ForeignSessionMode
    <3>1. Back \o TerminalRows("move", foreignSessions) \in Seq(RowsOf("foreign", None))
      BY <1>0, ModesListed DEF RowsOf
    <3>2. Len(Back \o TerminalRows("move", foreignSessions)) >= 1
      BY <1>0, RowOfEach DEF Back, FillTyped
    <3>3. /\ Enter("foreign", None) /\ Refilter(Back \o TerminalRows("move", foreignSessions), None, TRUE)
          /\ mode' # "search"
      BY <2>1 DEF ForeignSessionMode, ShowRows, Enter
    <3>. QED  BY <3>1, <3>2, <3>3, ShowsRows
  <2>2. CASE KillMode
    <3>1. KillRows \o Back \in Seq(RowsOf("kill", None))
      BY <1>0, ModesListed DEF RowsOf
    <3>2. Len(KillRows \o Back) >= 1
      <4>1. TerminalRows("confirm", running) \in Seq({Row("confirm", t) : t \in Terminals})
        BY <1>0, RowOfEach DEF FillTyped
      <4>2. \E R : KillRows \in Seq(R)
        <5>1. TerminalRows("confirm", running) \in Seq(KillsRows)
          BY <4>1 DEF KillsRows
        <5>2. Row("confirm", All) \in KillsRows
          BY DEF KillsRows
        <5>. QED  BY <5>1, <5>2 DEF KillRows
      <4>. QED  BY <4>2 DEF Back
    <3>3. Enter("kill", None) /\ Refilter(KillRows \o Back, None, TRUE) /\ mode' # "search"
      BY <2>2 DEF KillMode, ShowRows, Enter
    <3>. QED  BY <3>1, <3>2, <3>3, ShowsRows
  <2>3. ASSUME NEW of \in Terminals \cup {All}, KillConfirm(of) PROVE OnARow' /\ ModesTyped' /\ RowsTyped' /\ mode' # "search"
    <3>1. << Row("really", of), Row("backlist", None) >> \in Seq(RowsOf("kill", of))
      <4>1. of # None
        BY PaletteAssumption
      <4>. QED  BY <4>1 DEF RowsOf, ReallyRows
    <3>2. /\ Enter("kill", of) /\ Refilter(<< Row("really", of), Row("backlist", None) >>, None, TRUE)
          /\ mode' # "search"
      BY <2>3 DEF KillConfirm, ShowRows, Enter
    <3>3. Len(<< Row("really", of), Row("backlist", None) >>) >= 1
      OBVIOUS
    <3>. QED  BY <3>1, <3>2, <3>3, ShowsRows
  <2>. QED  BY <2>1, <2>2, <2>3
<1>2. UNCHANGED <<requestId, late, foreignSessions, asked, running>>
  BY DEF ForeignSessionMode, KillMode, KillConfirm, fill
<1>3. FillTyped'
  BY <1>0, <1>2 DEF FillTyped
<1>4. AsksTyped'
  BY <1>0, <1>1, <1>2 DEF AsksTyped
<1>. QED  BY <1>1, <1>3, <1>4 DEF ListInv

\* A kill is sent; new windows are offered.
LEMMA OffersListed ==
    ASSUME ListInv, NewWindowMode \/ \E of \in Terminals \cup {All} : KillChosen(of)
    PROVE  ListInv'
<1>0. FillTyped /\ AsksTyped /\ OnARow /\ RowsTyped /\ ModesTyped
  BY DEF ListInv
<1>1. CASE NewWindowMode
  <2>1. Back \o << Row("here", None) >> \in Seq(RowsOf("window", None)) /\ Len(Back \o << Row("here", None) >>) >= 1
    BY <1>0, ModesListed DEF RowsOf, Back
  <2>2. Enter("window", None) /\ Refilter(Back \o << Row("here", None) >>, None, TRUE) /\ mode' = "window"
    BY <1>1 DEF NewWindowMode, ShowRows, Enter
  <2>3. OnARow' /\ ModesTyped' /\ RowsTyped'
    BY <2>1, <2>2, ShowsRows
  <2>4. FillTyped'
    BY <1>0, <1>1 DEF NewWindowMode, fill, FillTyped
  <2>5. AsksTyped'
    <3>1. requestId' \in Nat /\ requestId' >= requestId /\ None \in Things
      BY <1>0, <1>1 DEF NewWindowMode, AsksTyped, Things
    <3>2. asked' = asked \cup {Job("windows", None, requestId')}
      BY <1>1 DEF NewWindowMode, Ask
    <3>3. ASSUME NEW j \in asked' PROVE j \in asked \/ (j \in Jobs /\ j.kind # "search" /\ j.id <= requestId')
      BY <3>1, <3>2, JobsTyped
    <3>. QED  BY <1>0, <2>2, <3>1, <3>3, AsksStay
  <2>. QED  BY <2>3, <2>4, <2>5 DEF ListInv
<1>2. ASSUME NEW of \in Terminals \cup {All}, KillChosen(of) PROVE ListInv'
  <2>1. UNCHANGED <<open, requestId, mode, subject, items, text, sel, late, foreignSessions, running>>
    BY <1>2 DEF KillChosen, list, fill
  <2>2. OnARow' /\ ModesTyped' /\ RowsTyped' /\ FillTyped'
    BY <1>0, <2>1 DEF OnARow, ModesTyped, RowsTyped, FillTyped
  <2>3. asked' = asked \/ asked' = asked \cup {Job("kill", of, 0)}
    BY <1>2 DEF KillChosen, Ask
  <2>4. of \in Things /\ 0 \in Nat /\ requestId \in Nat /\ requestId' = requestId /\ 0 <= requestId
    BY <1>0, <2>1 DEF AsksTyped, Things
  <2>5. ASSUME NEW j \in asked' PROVE j \in asked \/ (j \in Jobs /\ j.kind # "search" /\ j.id <= requestId')
    BY <2>3, <2>4, JobsTyped
  <2>6. AsksTyped'
    BY <1>0, <2>1, <2>4, <2>5, AsksStay
  <2>. QED  BY <2>2, <2>6 DEF ListInv
<1>. QED  BY <1>1, <1>2

\* What is killed is a terminal, or all.
LEMMA KillsATerminal ==
    ASSUME ModesTyped, mode # "prompt", NEW r \in RowsOf(mode, subject)
    PROVE  r.act \in {"confirm", "really"} => r.of \in Terminals \cup {All}
<1>1. CASE mode = "commands"
  BY <1>1 DEF RowsOf, CommandRows, Plain, Row
<1>2. CASE mode \in {"foreign", "window", "search"}
  BY <1>2 DEF RowsOf, ForeignRows, WindowRows, SearchRows, Row
<1>3. CASE mode = "kill" /\ subject = None
  BY <1>3 DEF RowsOf, KillsRows, Row
<1>4. CASE mode = "kill" /\ subject # None
  BY <1>4 DEF RowsOf, ReallyRows, Row, ModesTyped
<1>. QED  BY <1>1, <1>2, <1>3, <1>4 DEF ModesTyped

\* A row leads on, or closes.
LEMMA ChoosesListed ==
    ASSUME ListInv, open, mode # "prompt", NEW r \in RowsOf(mode, subject), Choose(r)
    PROVE  ListInv'
<1>1. r.act \in {"confirm", "really"} => r.of \in Terminals \cup {All}
  BY KillsATerminal DEF ListInv
<1>2. \/ KillMode \/ ForeignSessionMode \/ (r.act = "confirm" /\ KillConfirm(r.of)) \/ (r.act = "really" /\ KillChosen(r.of))
      \/ OpenPalette \/ NewWindowMode \/ Close
      \/ \E question : PromptMode(question)
  BY DEF Choose
<1>3. CASE KillMode \/ ForeignSessionMode
  BY <1>3, ListsListed
<1>4. CASE r.act = "confirm" /\ KillConfirm(r.of)
  <2>1. PICK of \in Terminals \cup {All} : of = r.of
    BY <1>1, <1>4
  <2>. QED  BY <1>4, <2>1, ListsListed
<1>5. CASE r.act = "really" /\ KillChosen(r.of)
  <2>1. PICK of \in Terminals \cup {All} : of = r.of
    BY <1>1, <1>5
  <2>. QED  BY <1>5, <2>1, OffersListed
<1>6. CASE Close
  BY <1>6, ClosesListed DEF Close, ListInv, FillTyped
<1>. QED  BY <1>2, <1>3, <1>4, <1>5, <1>6, OpensListed, OffersListed, PromptsListed

\* Enter and a click choose a row of the list.
LEMMA RowsChosen ==
    ASSUME ListInv, open, NEW i \in DOMAIN Filtered(items, text)
    PROVE  Filtered(items, text)[i] \in RowsOf(mode, subject)
<1>1. items \in Seq(RowsOf(mode, subject))
  BY DEF ListInv, RowsTyped
<1>2. Filtered(items, text) \in Seq(RowsOf(mode, subject))
  BY <1>1, Narrows
<1>. QED  BY <1>2

\* The keyboard and the mouse.
LEMMA CommandListed ==
    ASSUME ListInv, PaletteInv, PaletteCommand
    PROVE  ListInv'
<1>0. FillTyped /\ AsksTyped /\ OnARow /\ RowsTyped /\ ModesTyped
  BY DEF ListInv
<1>1. CASE Close
  BY <1>1, ClosesListed DEF Close, ListInv, FillTyped
<1>2. CASE EscapeKey
  <2>1. KillMode \/ OpenPalette \/ Close
    BY <1>2 DEF EscapeKey, Escape
  <2>. QED  BY <1>1, <2>1, ListsListed, OpensListed
<1>3. CASE EnterKey
  <2>1. sel \in DOMAIN Filtered(items, text) /\ open /\ mode # "prompt" /\ Choose(Highlighted)
    BY <1>3 DEF EnterKey, HasRow
  <2>2. PICK r \in RowsOf(mode, subject) : r = Highlighted
    BY <2>1, RowsChosen DEF Highlighted
  <2>3. Choose(r)
    BY <2>1, <2>2
  <2>. QED  BY <2>1, <2>3, ChoosesListed
<1>4. ASSUME NEW i, Click(i) PROVE ListInv'
  <2>1. i \in DOMAIN Filtered(items, text) /\ open /\ mode # "prompt" /\ Choose(Filtered(items, text)[i])
    BY <1>4 DEF Click
  <2>2. PICK r \in RowsOf(mode, subject) : r = Filtered(items, text)[i]
    BY <2>1, RowsChosen
  <2>3. Choose(r)
    BY <2>1, <2>2
  <2>. QED  BY <2>1, <2>3, ChoosesListed
<1>5. ASSUME NEW i, ArrowTo(i) \/ HoverOn(i) PROVE ListInv'
  <2>1. UNCHANGED <<open, requestId, mode, subject, items, text, late, foreignSessions, asked, running>>
    BY <1>5 DEF ArrowTo, HoverOn, fill
  <2>2. ModesTyped' /\ RowsTyped' /\ FillTyped'
    BY <1>0, <2>1 DEF ModesTyped, RowsTyped, FillTyped
  <2>3. AsksTyped'
    BY <1>0, <2>1 DEF AsksTyped
  <2>4. OnARow'
    <3>1. sel' \in DOMAIN Filtered(items, text)
      BY <1>5 DEF ArrowTo, HoverOn
    <3>2. Filtered(items, text) \in Seq(AnyRows)
      BY <1>0, Narrows DEF RowsTyped
    <3>. QED  BY <2>1, <3>1, <3>2 DEF OnARow
  <2>. QED  BY <2>2, <2>3, <2>4 DEF ListInv
<1>6. ASSUME NEW t, Types(t) PROVE ListInv'
  <2>1. UNCHANGED <<open, requestId, mode, subject, late, foreignSessions, asked, running>> /\ Refilter(items, t, TRUE)
    BY <1>6 DEF Types, fill
  <2>2. PICK rows \in Seq(AnyRows) : rows = items
    BY <1>0 DEF RowsTyped
  <2>3. items' = rows /\ OnARow'
    <3>1. Refilter(rows, t, TRUE) /\ TRUE \in BOOLEAN
      BY <2>1, <2>2
    <3>. QED  BY ONLY <3>1, Refills
  <2>4. ModesTyped' /\ RowsTyped' /\ FillTyped'
    BY <1>0, <2>1, <2>2, <2>3 DEF ModesTyped, RowsTyped, FillTyped
  <2>5. AsksTyped'
    BY <1>0, <2>1 DEF AsksTyped
  <2>. QED  BY <2>3, <2>4, <2>5 DEF ListInv
<1>7. CASE SubmitPrompt
  <2>1. \/ Close
        \/ \E q \in Queries : SearchMode(q)
        \/ /\ mode = "prompt" /\ Ask({Job("names", None, requestId)})
           /\ UNCHANGED <<open, requestId, mode, subject, list, fill, running>>
    BY <1>7 DEF SubmitPrompt, PaletteInv
  <2>2. CASE /\ mode = "prompt" /\ Ask({Job("names", None, requestId)})
             /\ UNCHANGED <<open, requestId, mode, subject, list, fill, running>>
    <3>1. UNCHANGED <<open, requestId, mode, subject, items, text, sel, late, foreignSessions, running>>
      BY <2>2 DEF list, fill
    <3>2. OnARow' /\ ModesTyped' /\ RowsTyped' /\ FillTyped'
      BY <1>0, <3>1 DEF OnARow, ModesTyped, RowsTyped, FillTyped
    <3>3. None \in Things /\ requestId \in Nat /\ requestId' = requestId /\ mode' = "prompt"
      BY <1>0, <2>2, <3>1 DEF AsksTyped, Things
    <3>4. asked' = asked \cup {Job("names", None, requestId)}
      BY <2>2 DEF Ask
    <3>5. ASSUME NEW j \in asked' PROVE j \in asked \/ (j \in Jobs /\ j.kind # "search" /\ j.id <= requestId')
      BY <3>3, <3>4, JobsTyped
    <3>6. AsksTyped'
      BY <1>0, <3>3, <3>5, AsksStay
    <3>. QED  BY <3>2, <3>6 DEF ListInv
  <2>. QED  BY <1>1, <2>1, <2>2, SearchesListed
<1>. QED  BY <1>2, <1>3, <1>4, <1>5, <1>6, <1>7 DEF PaletteCommand

\* An answer that changes only what is in flight.
LEMMA AnswersAside ==
    ASSUME ListInv, UNCHANGED <<open, requestId, mode, subject, items, text, sel, late, foreignSessions>>,
           running' \subseteq Terminals,
           \A j \in asked' : j \in asked \/ (j \in Jobs /\ j.kind # "search" /\ j.id <= requestId)
    PROVE  ListInv'
<1>1. OnARow' /\ ModesTyped' /\ RowsTyped' /\ FillTyped'
  BY DEF ListInv, OnARow, ModesTyped, RowsTyped, FillTyped
<1>2. AsksTyped'
  <2>1. requestId \in Nat /\ requestId' = requestId
    BY DEF ListInv, AsksTyped
  <2>. QED  BY <2>1, AsksStay DEF ListInv
<1>. QED  BY <1>1, <1>2 DEF ListInv

\* A late part of the list of commands fills it, if it is still shown.
LEMMA FillsCommands ==
    ASSUME ListInv, mode = "commands", UNCHANGED <<open, requestId, mode, subject, running>>,
           late' \in Lates, foreignSessions' \subseteq Terminals, Refilter(Compose(late'), text, FALSE),
           \A j \in asked' : j \in asked \/ (j \in Jobs /\ j.kind # "search" /\ j.id <= requestId)
    PROVE  ListInv'
<1>1. PICK l \in Lates : l = late'
  OBVIOUS
<1>2. Compose(l) \in Seq(RowsOf("commands", subject))
  <2>1. Compose(l) \in Seq(CommandRows)
    BY CommandsListed DEF ListInv
  <2>. QED  BY <2>1 DEF RowsOf
<1>3. PICK rows \in Seq(RowsOf("commands", subject)) : rows = Compose(l)
  BY <1>2
<1>4. PICK t : t = text
  OBVIOUS
<1>5. RowsOf("commands", subject) \subseteq AnyRows
  BY RowsAreRows
<1>6. rows \in Seq(AnyRows)
  BY <1>5
<1>7. items' = rows /\ OnARow'
  <2>1. Refilter(rows, t, FALSE) /\ FALSE \in BOOLEAN
    BY <1>1, <1>3, <1>4
  <2>. QED  BY ONLY <1>6, <2>1, Refills
<1>8. ModesTyped' /\ RowsTyped' /\ FillTyped'
  BY <1>6, <1>7 DEF ListInv, ModesTyped, RowsTyped, FillTyped
<1>9. AsksTyped'
  <2>1. requestId \in Nat /\ requestId' = requestId
    BY DEF ListInv, AsksTyped
  <2>. QED  BY <2>1, AsksStay DEF ListInv
<1>. QED  BY <1>7, <1>8, <1>9 DEF ListInv

\* Answers for the list of commands.
LEMMA LateListed ==
    ASSUME ListInv, NEW j \in asked, LiveAnswer(j) \/ DetailsAnswer(j) \/ AgentsAnswer(j)
    PROVE  ListInv'
<1>1. j \in Jobs /\ j.id <= requestId /\ running \subseteq Terminals /\ late \in Lates /\ foreignSessions \subseteq Terminals
  BY DEF ListInv, AsksTyped, FillTyped
<1>2. UNCHANGED <<open, requestId, mode, subject, running>>
  BY DEF LiveAnswer, DetailsAnswer, AgentsAnswer
<1>3. CASE ~ Current(j.id)
  <2>1. UNCHANGED <<items, text, sel, late, foreignSessions>> /\ asked' = asked \ {j}
    BY <1>3 DEF LiveAnswer, DetailsAnswer, AgentsAnswer, Dropped, list, fill
  <2>. QED  BY <1>1, <1>2, <2>1, AnswersAside
<1>4. CASE Current(j.id)
  <2>1. mode = "commands"
    BY <1>4 DEF Current
  <2>2. Refilter(Compose(late'), text, FALSE)
    BY <1>4 DEF LiveAnswer, DetailsAnswer, AgentsAnswer
  <2>3. late' \in Lates /\ foreignSessions' \subseteq Terminals
    <3>1. CASE LiveAnswer(j)
      BY <1>1, <1>4, <3>1 DEF LiveAnswer, Lates
    <3>2. CASE DetailsAnswer(j)
      <4>1. j.saw \subseteq Terminals
        BY <1>1 DEF Jobs
      <4>2. late' = [late EXCEPT !.attach = (j.saw \cap Owned) \ Shown] /\ foreignSessions' = j.saw \ (Owned \cup Shown)
        BY <1>4, <3>2 DEF DetailsAnswer
      <4>. QED  BY <1>1, <4>1, <4>2 DEF Lates
    <3>3. CASE AgentsAnswer(j)
      BY <1>1, <1>4, <3>3 DEF AgentsAnswer, Lates
    <3>. QED  BY <3>1, <3>2, <3>3
  <2>4. ASSUME NEW k \in asked' PROVE k \in asked \/ (k \in Jobs /\ k.kind # "search" /\ k.id <= requestId)
    <3>1. [j EXCEPT !.kind = "details", !.saw = running] \in Jobs
      BY <1>1 DEF Jobs
    <3>2. /\ [j EXCEPT !.kind = "details", !.saw = running].id = j.id
          /\ [j EXCEPT !.kind = "details", !.saw = running].kind = "details"
      BY <1>1 DEF Jobs
    <3>3. asked' = asked \ {j} \/ asked' = (asked \ {j}) \cup {[j EXCEPT !.kind = "details", !.saw = running]}
      BY <1>4 DEF LiveAnswer, DetailsAnswer, AgentsAnswer, Dropped, Onward
    <3>. QED  BY <1>1, <3>1, <3>2, <3>3
  <2>. QED  BY <1>2, <2>1, <2>2, <2>3, <2>4, FillsCommands
<1>. QED  BY <1>3, <1>4

\* A hit of the search that is shown, under its way back.
LEMMA SearchListed ==
    ASSUME ListInv, NEW j \in asked, NEW ok, SearchAnswer(j, ok)
    PROVE  ListInv'
<1>1. UNCHANGED <<open, requestId, mode, subject, late, foreignSessions, running, text>> /\ asked' = asked \ {j}
  BY DEF SearchAnswer, Dropped, fill, list
<1>2. running \subseteq Terminals
  BY DEF ListInv, FillTyped
<1>3. CASE UNCHANGED list
  BY <1>1, <1>2, <1>3, AnswersAside DEF list
<1>4. CASE open /\ mode = "search" /\ j.id = requestId /\ items' = Append(items, Row("found", j.of))
           /\ sel' = IF text = None THEN 2 ELSE 1
  <2>1. j.of = subject /\ subject \in Queries
    BY <1>4 DEF SearchAnswer, ListInv, AsksTyped, ModesTyped
  <2>2. items \in Seq(SearchRows(subject)) /\ Len(items) >= 1
    BY <1>4 DEF ListInv, RowsTyped, RowsOf
  <2>3. Row("found", subject) \in SearchRows(subject)
    BY DEF SearchRows
  <2>4. items' \in Seq(SearchRows(subject)) /\ Len(items') >= 2
    BY <1>4, <2>1, <2>2, <2>3
  <2>5. SearchRows(subject) \subseteq AnyRows
    <3>1. RowsOf("search", subject) \subseteq AnyRows
      BY <2>1, RowsAreRows
    <3>. QED  BY <3>1 DEF RowsOf
  <2>6. items' \in Seq(AnyRows)
    BY <2>4, <2>5
  <2>7. RowsTyped' /\ ModesTyped'
    BY <1>1, <1>4, <2>1, <2>4, <2>6 DEF RowsTyped, RowsOf, ModesTyped
  <2>8. OnARow'
    <3>1. text = None => Filtered(items', text') = items'
      BY <1>1 DEF Filtered
    <3>. QED  BY <1>1, <1>4, <2>4, <3>1 DEF OnARow
  <2>9. FillTyped' /\ AsksTyped'
    BY <1>1 DEF ListInv, FillTyped, AsksTyped
  <2>. QED  BY <2>7, <2>8, <2>9 DEF ListInv
<1>. QED  BY <1>3, <1>4 DEF SearchAnswer

\* The windows there are.
LEMMA WindowsListed ==
    ASSUME ListInv, NEW j \in asked, WindowsAnswer(j)
    PROVE  ListInv'
<1>1. UNCHANGED <<open, requestId, mode, subject, late, foreignSessions, running>> /\ asked' = asked \ {j}
  BY DEF WindowsAnswer, Dropped, fill
<1>2. running \subseteq Terminals
  BY DEF ListInv, FillTyped
<1>3. CASE UNCHANGED list
  BY <1>1, <1>2, <1>3, AnswersAside DEF list
<1>4. CASE open /\ mode = "window" /\ Refilter(Append(items, Row("elsewhere", None)), text, FALSE)
  <2>1. items \in Seq(WindowRows)
    BY <1>4 DEF ListInv, RowsTyped, RowsOf
  <2>2. Row("elsewhere", None) \in WindowRows
    BY DEF WindowRows
  <2>3. PICK rows \in Seq(WindowRows) : rows = Append(items, Row("elsewhere", None))
    <3>1. ASSUME NEW A, NEW q \in Seq(A), NEW r \in A PROVE Append(q, r) \in Seq(A)
      OBVIOUS
    <3>2. Append(items, Row("elsewhere", None)) \in Seq(WindowRows)
      BY <2>1, <2>2, <3>1
    <3>. QED  BY <3>2
  <2>4. PICK t : t = text
    OBVIOUS
  <2>5. rows \in Seq(AnyRows)
    <3>1. RowsOf("window", None) \subseteq AnyRows
      BY RowsAreRows
    <3>2. WindowRows \subseteq AnyRows
      BY <3>1 DEF RowsOf
    <3>. QED  BY <3>2
  <2>6. items' = rows /\ OnARow'
    <3>1. Refilter(rows, t, FALSE) /\ FALSE \in BOOLEAN
      BY <1>4, <2>3, <2>4
    <3>. QED  BY ONLY <2>5, <3>1, Refills
  <2>7. ModesTyped' /\ RowsTyped'
    BY <1>1, <1>4, <2>5, <2>6 DEF ListInv, ModesTyped, RowsTyped, RowsOf
  <2>8. FillTyped' /\ AsksTyped'
    BY <1>1, <1>4 DEF ListInv, FillTyped, AsksTyped
  <2>. QED  BY <2>6, <2>7, <2>8 DEF ListInv
<1>. QED  BY <1>3, <1>4 DEF WindowsAnswer

\* Answers to a kill and to a save under a name.
LEMMA DoneListed ==
    ASSUME ListInv, NEW j \in asked, NEW ok \in BOOLEAN, KillAnswer(j, ok) \/ SaveAnswer(j, ok)
    PROVE  ListInv'
<1>1. j \in Jobs /\ j.id <= requestId /\ running \subseteq Terminals
  BY DEF ListInv, AsksTyped, FillTyped
<1>2. running' \subseteq Terminals
  BY <1>1 DEF KillAnswer, SaveAnswer
<1>3. CASE Closing
  <2>1. asked' = asked \ {j}
    <3>1. CASE KillAnswer(j, ok)
      BY <3>1 DEF KillAnswer, Dropped
    <3>2. CASE SaveAnswer(j, ok)
      <4>1. open' = FALSE
        BY <1>3 DEF Closing
      <4>2. asked' = asked \ {j} \/ UNCHANGED open
        BY <3>2 DEF SaveAnswer, Dropped
      <4>3. asked' = asked \ {j} \/ open
        BY <3>2 DEF SaveAnswer, Dropped
      <4>. QED  BY <4>1, <4>2, <4>3
    <3>. QED  BY <3>1, <3>2
  <2>. QED  BY <1>2, <1>3, <2>1, ClosesListed
<1>4. CASE UNCHANGED <<open, requestId, mode, subject, list, fill>>
  <2>1. UNCHANGED <<open, requestId, mode, subject, items, text, sel, late, foreignSessions>>
    BY <1>4 DEF list, fill
  <2>2. ASSUME NEW k \in asked' PROVE k \in asked \/ (k \in Jobs /\ k.kind # "search" /\ k.id <= requestId)
    <3>1. PICK kind \in {"saved", "changed"} : asked' = asked \ {j} \/ asked' = (asked \ {j}) \cup {[j EXCEPT !.kind = kind]}
      BY DEF KillAnswer, SaveAnswer, Dropped, Onward
    <3>2. [j EXCEPT !.kind = kind] \in Jobs /\ [j EXCEPT !.kind = kind].id = j.id /\ [j EXCEPT !.kind = kind].kind = kind
      BY <1>1 DEF Jobs
    <3>. QED  BY <1>1, <3>1, <3>2
  <2>. QED  BY <1>2, <2>1, <2>2, AnswersAside
<1>. QED  BY <1>3, <1>4 DEF KillAnswer, SaveAnswer

-----------------------------------------------------------------------------
(* The palette of a window. *)

\* A step of the window is a step of its palette.
LEMMA PaletteListed ==
    ASSUME ListInv, PaletteInv, PaletteMoves
    PROVE  ListInv'
<1>1. CASE UNCHANGED palette
  <2>1. UNCHANGED <<open, requestId, mode, subject, items, text, sel, late, foreignSessions, asked, running>>
    BY <1>1 DEF palette, list, fill
  <2>. QED  BY <2>1 DEF ListInv, OnARow, ModesTyped, RowsTyped, FillTyped, AsksTyped
<1>2. CASE Close
  BY <1>2, ClosesListed DEF Close, ListInv, FillTyped
<1>3. CASE PaletteAnswer
  BY <1>3, LateListed, SearchListed, WindowsListed, DoneListed DEF PaletteAnswer
<1>. QED  BY <1>1, <1>2, <1>3, CommandListed, OpensListed, OffersListed DEF PaletteMoves

\* Before it is opened for the first time.
LEMMA ListInit == PaletteInit => ListInv
<1>. SUFFICES ASSUME PaletteInit PROVE ListInv
  OBVIOUS
<1>1. OnARow /\ ModesTyped /\ FillTyped /\ AsksTyped
  BY DEF PaletteInit, OnARow, ModesTyped, FillTyped, AsksTyped, EmptyLate, Lates
<1>2. RowsTyped
  BY DEF PaletteInit, RowsTyped
<1>. QED  BY <1>1, <1>2 DEF ListInv

\* What is listed is of the mode.
LEMMA RowsSpeak ==
    ASSUME ListInv
    PROVE  ListIsOfTheMode
<1>. SUFFICES ASSUME open, NEW i \in DOMAIN items, NEW r \in RowsOf(mode, subject), r = items[i]
              PROVE  CASE mode = "commands" -> r.act \notin {"back", "move", "found", "confirm", "really", "elsewhere"}
                       [] mode = "foreign"  -> r.act \in {"back", "move"}
                       [] mode = "window"   -> r.act \in {"back", "here", "elsewhere"}
                       [] mode = "search"   -> r \in {Row("back", None), Row("found", subject)}
                       [] mode = "kill" /\ subject = None -> r.act \in {"confirm", "back"}
                       [] mode = "kill" /\ subject # None -> r \in {Row("really", subject), Row("backlist", None)}
                       [] OTHER -> TRUE
  BY DEF ListInv, RowsTyped, ListIsOfTheMode
<1>1. CASE mode = "commands"
  BY <1>1 DEF RowsOf, CommandRows, Plain, Row
<1>2. CASE mode \in {"foreign", "window"}
  BY <1>2 DEF RowsOf, ForeignRows, WindowRows, Row
<1>3. CASE mode = "search"
  BY <1>3 DEF RowsOf, SearchRows
<1>4. CASE mode = "kill" /\ subject = None
  <2>1. r = Row("back", None) \/ \E t \in Terminals \cup {All} : r = Row("confirm", t)
    BY <1>4 DEF RowsOf, KillsRows
  <2>2. r.act \in {"confirm", "back"}
    BY <2>1 DEF Row
  <2>. QED  BY <1>4, <2>2
<1>5. CASE mode = "kill" /\ subject # None
  BY <1>5 DEF RowsOf, ReallyRows
<1>6. CASE mode = "prompt"
  BY <1>6
<1>. QED  BY <1>1, <1>2, <1>3, <1>4, <1>5, <1>6 DEF ListInv, ModesTyped

\* At the start the sheets and the foot of the sidebar are of their types.
LEMMA OthersStart == Init => SettingsTyped /\ UsageTyped /\ UpdatesTyped /\ DialogsNumbered
<1>. SUFFICES ASSUME Init PROVE SettingsTyped /\ UsageTyped /\ UpdatesTyped /\ DialogsNumbered
  OBVIOUS
<1>1. SettingsTyped
  <2>1. server \in S!Configs
    BY SurfacesAssumption DEF Init, S!SettingsInit, S!Configs
  <2>2. server[Theme] \in Vals
    BY <2>1, ThemesAreValues
  <2>. QED  BY <2>1, <2>2 DEF Init, S!SettingsInit, SettingsTyped
<1>2. UsageTyped
  BY DEF Init, U!UsageInit, UsageTyped
<1>3. UpdatesTyped
  <2>1. update \in Releases /\ current \in Releases
    BY SurfacesAssumption DEF Init, W!UpdatesInit, W!Idle, Releases
  <2>2. queries = {[for |-> "look", saw |-> update]} /\ orders = {}
    BY DEF Init, W!UpdatesInit
  <2>3. dismissed = None /\ armed \in BOOLEAN /\ busy \in BOOLEAN
    BY DEF Init, W!UpdatesInit
  <2>4. \A q \in queries : q.saw \in Releases
    BY <2>1, <2>2
  <2>. QED  BY <2>1, <2>2, <2>3, <2>4 DEF UpdatesTyped
<1>4. DialogsNumbered
  BY DEF Init, D!DialogsInit, DialogsNumbered
<1>. QED  BY <1>1, <1>2, <1>3, <1>4

\* What the types are of.
TypesInv == DialogsNumbered /\ SettingsTyped /\ UsageTyped /\ UpdatesTyped /\ ListInv

\* What is kept is typed.
LEMMA AllTyped ==
    ASSUME SurfacesInv, TypesInv
    PROVE  TypeOK
<1>1. PaletteTypeOK
  BY DEF TypesInv, ListInv, OnARow, ModesTyped, FillTyped, AsksTyped, PaletteTypeOK
<1>2. D!DialogsTypeOK
  BY DEF TypesInv, SurfacesInv, DialogsInv, DialogsTyped, DialogsNumbered, Menus, Finds, Listings, Calls, D!DialogsTypeOK
<1>3. S!SettingsTypeOK
  BY DEF TypesInv, SettingsTyped, Persists, S!SettingsTypeOK
<1>4. U!UsageTypeOK
  BY DEF TypesInv, UsageTyped, U!UsageTypeOK
<1>5. W!UpdatesTypeOK
  BY DEF TypesInv, UpdatesTyped, Releases, W!UpdatesTypeOK
<1>. QED  BY <1>1, <1>2, <1>3, <1>4, <1>5 DEF TypeOK

\* The types of every part are kept, whatever the user does and whatever is answered.
LEMMA TypesInductive == Spec => []TypesInv
<1>1. Init => TypesInv
  BY OthersStart, ListInit DEF Init, TypesInv
<1>2. SurfacesInv /\ TypesInv /\ [Next]_vars => TypesInv'
  <2>. SUFFICES ASSUME SurfacesInv, TypesInv, [Next]_vars PROVE TypesInv'
    OBVIOUS
  <2>1. DialogMoves /\ PaletteMoves /\ SettingsMoves /\ UsageMoves /\ UpdatesMoves
    BY EachMoves
  <2>2. DialogsNumbered'
    BY <2>1, DialogsNumber DEF SurfacesInv, TypesInv
  <2>3. SettingsTyped'
    BY <2>1, SettingsCommandTypes, SettingsAnswerTypes DEF SurfacesInv, TypesInv, SettingsMoves
  <2>4. UsageTyped' /\ UpdatesTyped'
    BY <2>1, UsageTypes, UpdatesTypes DEF SurfacesInv, TypesInv
  <2>5. ListInv'
    BY <2>1, PaletteListed DEF SurfacesInv, TypesInv
  <2>. QED  BY <2>2, <2>3, <2>4, <2>5 DEF TypesInv
<1>. QED  BY <1>1, <1>2, SurfacesInductive, PTL DEF Spec

\* What the palette lists is of the mode it shows, and every surface is of its types.
THEOREM RowsAreOfTheMode == Spec => []RowsBelong
<1>1. SurfacesInv /\ TypesInv => RowsBelong
  BY AllTyped, RowsSpeak DEF TypesInv, RowsBelong
<1>. QED  BY <1>1, SurfacesInductive, TypesInductive, PTL

-----------------------------------------------------------------------------
(* The row that was picked. *)

NamesDiffer == \A s, t \in Terminals : NameOf[s] = NameOf[t] => s = t

\* Under names that differ a command is told by its label.
LEMMA LabelsDiffer ==
    ASSUME NamesDiffer, NEW p \in CommandRows, NEW r \in CommandRows, p.label = r.label
    PROVE  p = r
<1>1. /\ (\E a \in Plain : p = Row(a, None)) \/ \E a \in {"go", "attach"}, t \in Terminals : p = Row(a, t)
      /\ (\E a \in Plain : r = Row(a, None)) \/ \E a \in {"go", "attach"}, t \in Terminals : r = Row(a, t)
  BY DEF CommandRows
<1>2. \A a \in Plain, t \in Terminals, b \in {"go", "attach"} : Row(a, None).label # Row(b, t).label
  BY DEF Row, Plain
<1>3. \A a, b \in Plain : Row(a, None).label = Row(b, None).label => a = b
  BY DEF Row
<1>4. \A a, b \in {"go", "attach"}, s, t \in Terminals : Row(a, s).label = Row(b, t).label => a = b /\ s = t
  BY DEF Row, NamesDiffer
<1>5. CASE \E a \in Plain : p = Row(a, None)
  BY <1>1, <1>2, <1>3, <1>5
<1>6. CASE \E a \in {"go", "attach"}, t \in Terminals : p = Row(a, t)
  BY <1>1, <1>2, <1>4, <1>6
<1>. QED  BY <1>1, <1>5, <1>6

\* A row of the narrowed list is one of the list, and the other way round.
LEMMA NarrowsTo ==
    ASSUME NEW A, NEW rows \in Seq(A), NEW t
    PROVE  /\ \A k \in DOMAIN Filtered(rows, t) : \E i \in DOMAIN rows :
                  Filtered(rows, t)[k] = rows[i] /\ (t # None => rows[i].label = t)
           /\ \A i \in DOMAIN rows : (t # None => rows[i].label = t) =>
                  \E k \in DOMAIN Filtered(rows, t) : Filtered(rows, t)[k] = rows[i]
<1>. DEFINE I == {i \in DOMAIN rows : rows[i].label = t}
<1>1. CASE t = None
  BY <1>1 DEF Filtered
<1>2. CASE t # None
  <2>1. I \in SUBSET DOMAIN rows /\ Filtered(rows, t) = Picked(rows, I)
    BY <1>2 DEF Filtered
  <2>2. DOMAIN Picked(rows, I) = 1 .. Cardinality(I)
    BY DEF Picked
  <2>3. ASSUME NEW k \in 1 .. Cardinality(I) PROVE \E i \in DOMAIN rows : Picked(rows, I)[k] = rows[i] /\ rows[i].label = t
    <3>1. Nth(I, k) \in I /\ Picked(rows, I)[k] = rows[Nth(I, k)]
      BY <2>1, PickedOfIt
    <3>2. PICK i \in I : i = Nth(I, k)
      BY <3>1
    <3>. QED  BY <3>1, <3>2
  <2>4. ASSUME NEW i \in I PROVE \E k \in 1 .. Cardinality(I) : Picked(rows, I)[k] = rows[i]
    BY <2>1, PickedAll
  <2>. QED  BY <1>2, <2>1, <2>2, <2>3, <2>4
<1>. QED  BY <1>1, <1>2

\* The first row of a label that is there has that label.
LEMMA FirstHasIt ==
    ASSUME NEW rows \in Seq(AnyRows), NEW label, \E k \in DOMAIN rows : rows[k].label = label
    PROVE  First(rows, label) \in DOMAIN rows /\ rows[First(rows, label)].label = label
<1>. DEFINE found == {i \in DOMAIN rows : rows[i].label = label}
<1>1. found \in SUBSET Nat /\ found # {}
  OBVIOUS
<1>2. \E i \in found : \A j \in found : i <= j
  BY <1>1, Least
<1>3. First(rows, label) = CHOOSE i \in found : \A j \in found : i <= j
  BY <1>1 DEF First
<1>4. First(rows, label) \in found
  BY <1>2, <1>3
<1>. QED  BY <1>4

\* A list filled anew finds the picked row again.
LEMMA FindsAgain ==
    ASSUME NamesDiffer, ListInv, open, mode = "commands", moved, HasRow, NEW rows \in Seq(CommandRows),
           Refilter(rows, text, FALSE), Highlighted \in {rows[i] : i \in DOMAIN rows}
    PROVE  Filtered(items', text')[sel'] = Highlighted
<1>1. PICK h : h = Highlighted
  OBVIOUS
<1>2. PICK t : t = text
  OBVIOUS
<1>3. items' = rows /\ text' = t /\ sel' = First(Filtered(rows, t), h.label)
  BY <1>1, <1>2 DEF Refilter
<1>4. PICK i \in DOMAIN rows : rows[i] = h
  BY <1>1
<1>5. h \in CommandRows
  BY <1>4
<1>6. t # None => h.label = t
  <2>1. items \in Seq(AnyRows)
    BY DEF ListInv, RowsTyped
  <2>2. sel \in DOMAIN Filtered(items, t) /\ h = Filtered(items, t)[sel]
    BY <1>1, <1>2 DEF HasRow, Highlighted
  <2>. QED  BY <2>1, <2>2, NarrowsTo
<1>7. PICK k \in DOMAIN Filtered(rows, t) : Filtered(rows, t)[k] = h
  BY <1>4, <1>6, NarrowsTo
<1>8. Filtered(rows, t) \in Seq(CommandRows) /\ CommandRows \subseteq AnyRows
  <2>1. RowsOf("commands", None) \subseteq AnyRows
    BY RowsAreRows
  <2>. QED  BY <2>1, Narrows DEF RowsOf
<1>9. PICK left \in Seq(CommandRows) : left = Filtered(rows, t)
  BY <1>8
<1>10. PICK n : n = First(left, h.label)
  OBVIOUS
<1>11. n \in DOMAIN left /\ left[n].label = h.label
  <2>1. left \in Seq(AnyRows)
    BY <1>8
  <2>2. \E j \in DOMAIN left : left[j].label = h.label
    BY <1>7, <1>9
  <2>. QED  BY <1>10, <2>1, <2>2, FirstHasIt
<1>12. left[n] \in CommandRows
  BY <1>11
<1>13. left[n] = h
  BY <1>5, <1>11, <1>12, LabelsDiffer
<1>. QED  BY <1>1, <1>3, <1>9, <1>10, <1>13

\* What an answer to the list of commands may do, and what no other step does there.
RowStays ==
    (open /\ open' /\ mode = "commands" /\ mode' = mode /\ requestId' = requestId
       /\ asked' # asked /\ moved /\ HasRow /\ Highlighted \in {items'[i] : i \in DOMAIN items'})
    => Filtered(items', text')[sel'] = Highlighted

\* A list that stays has its row where it was.
LEMMA RowAsItWas ==
    ASSUME UNCHANGED <<items, text, sel>>
    PROVE  RowStays
BY DEF RowStays, Highlighted

\* Steps of the palette by itself.
LEMMA CommandsLeaveRows ==
    ASSUME ListInv, PaletteInv, PaletteCommand
    PROVE  RowStays
<1>0. requestId \in Nat /\ requestId + 1 # requestId /\ requestId + 2 # requestId
  BY DEF ListInv, AsksTyped
<1>1. CASE KillMode \/ ForeignSessionMode \/ (\E of : KillConfirm(of)) \/ \E q : PromptMode(q)
  BY <1>1 DEF KillMode, ForeignSessionMode, KillConfirm, PromptMode, RowStays
<1>2. CASE OpenPalette \/ NewWindowMode \/ Close
  BY <1>0, <1>2 DEF OpenPalette, NewWindowMode, Close, RowStays, Closing
<1>3. CASE \E of : KillChosen(of)
  BY <1>3, RowAsItWas DEF KillChosen, list
<1>4. ASSUME NEW r, Choose(r) PROVE RowStays
  BY <1>1, <1>2, <1>3, <1>4 DEF Choose
<1>5. CASE EscapeKey
  BY <1>1, <1>2, <1>5 DEF EscapeKey, Escape
<1>6. CASE SubmitPrompt
  BY <1>6 DEF SubmitPrompt, RowStays
<1>7. ASSUME NEW i, ArrowTo(i) \/ HoverOn(i) PROVE RowStays
  BY <1>7 DEF ArrowTo, HoverOn, RowStays
<1>8. ASSUME NEW t, Types(t) PROVE RowStays
  BY <1>8 DEF Types, RowStays
<1>. QED  BY <1>4, <1>5, <1>6, <1>7, <1>8 DEF PaletteCommand, EnterKey, Click

\* Answers, to the list of commands or to something else.
LEMMA AnswersLeaveRows ==
    ASSUME NamesDiffer, ListInv, PaletteInv, PaletteAnswer
    PROVE  RowStays
<1>1. ASSUME NEW j \in asked, LiveAnswer(j) \/ DetailsAnswer(j) \/ AgentsAnswer(j) PROVE RowStays
  <2>1. j \in Jobs /\ running \subseteq Terminals /\ late \in Lates
    BY DEF ListInv, AsksTyped, FillTyped
  <2>2. CASE ~ Current(j.id)
    BY <1>1, <2>2, RowAsItWas DEF LiveAnswer, DetailsAnswer, AgentsAnswer, list
  <2>3. CASE Current(j.id)
    <3>1. late' \in Lates
      <4>1. CASE LiveAnswer(j)
        BY <2>1, <2>3, <4>1 DEF LiveAnswer, Lates
      <4>2. CASE DetailsAnswer(j)
        <5>1. j.saw \subseteq Terminals /\ late' = [late EXCEPT !.attach = (j.saw \cap Owned) \ Shown]
          BY <2>1, <2>3, <4>2 DEF DetailsAnswer, Jobs
        <5>. QED  BY <2>1, <5>1 DEF Lates
      <4>3. CASE AgentsAnswer(j)
        BY <2>1, <2>3, <4>3 DEF AgentsAnswer, Lates
      <4>. QED  BY <1>1, <4>1, <4>2, <4>3
    <3>2. PICK l \in Lates : l = late'
      BY <3>1
    <3>3. PICK rows \in Seq(CommandRows) : rows = Compose(l)
      BY CommandsListed DEF ListInv
    <3>4. Refilter(rows, text, FALSE)
      BY <1>1, <2>3, <3>2, <3>3 DEF LiveAnswer, DetailsAnswer, AgentsAnswer
    <3>5. items' = rows
      BY <3>4 DEF Refilter
    <3>. QED  BY <3>4, <3>5, FindsAgain DEF RowStays
  <2>. QED  BY <2>2, <2>3
<1>2. ASSUME NEW j \in asked, NEW ok \in BOOLEAN, SearchAnswer(j, ok) PROVE RowStays
  <2>1. UNCHANGED list \/ mode = "search"
    BY <1>2 DEF SearchAnswer
  <2>. QED  BY <2>1, RowAsItWas DEF list, RowStays
<1>3. ASSUME NEW j \in asked, WindowsAnswer(j) PROVE RowStays
  <2>1. UNCHANGED list \/ mode = "window"
    BY <1>3 DEF WindowsAnswer
  <2>. QED  BY <2>1, RowAsItWas DEF list, RowStays
<1>4. ASSUME NEW j \in asked, NEW ok \in BOOLEAN, KillAnswer(j, ok) \/ SaveAnswer(j, ok) PROVE RowStays
  <2>1. UNCHANGED list
    BY <1>4 DEF KillAnswer, SaveAnswer, Closing
  <2>. QED  BY <2>1, RowAsItWas DEF list
<1>. QED  BY <1>1, <1>2, <1>3, <1>4 DEF PaletteAnswer

\* Where names differ the row picked with the arrows stays highlighted while answers fill the list.
THEOREM PickedRowStays == NamesDiffer => (Spec => RowStaysPicked)
<1>. SUFFICES ASSUME NamesDiffer PROVE Spec => RowStaysPicked
  OBVIOUS
<1>1. SurfacesInv /\ TypesInv /\ [Next]_vars => RowStays \/ UNCHANGED palette
  <2>. SUFFICES ASSUME SurfacesInv, TypesInv, [Next]_vars PROVE RowStays \/ UNCHANGED palette
    OBVIOUS
  <2>1. ListInv /\ PaletteInv /\ PaletteMoves
    BY EachMoves DEF SurfacesInv, TypesInv
  <2>2. requestId \in Nat /\ requestId + 1 # requestId /\ requestId + 2 # requestId
    BY <2>1 DEF ListInv, AsksTyped
  <2>3. CASE OpenPalette \/ NewWindowMode \/ Close
    BY <2>2, <2>3 DEF OpenPalette, NewWindowMode, Close, RowStays, Closing
  <2>. QED  BY <2>1, <2>3, CommandsLeaveRows, AnswersLeaveRows DEF PaletteMoves
<1>2. RowStays \/ UNCHANGED palette =>
      [(open /\ open' /\ mode = "commands" /\ mode' = mode /\ requestId' = requestId
          /\ asked' # asked /\ moved /\ HasRow /\ Highlighted \in {items'[i] : i \in DOMAIN items'})
        => Filtered(items', text')[sel'] = Highlighted]_palette
  BY DEF RowStays
<1>. QED  BY <1>1, <1>2, SurfacesInductive, TypesInductive, PTL DEF Spec, RowStaysPicked
============================================================================
