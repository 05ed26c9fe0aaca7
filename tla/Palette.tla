------------------------------- MODULE Palette -------------------------------
(***************************************************************************)
(* The command palette (palette.js, palette_items.js): one list that is filled *)
(* in stages after it opened, and the modes reached from it (a prompt, the      *)
(* terminals of other workspaces, new windows, search results, kill).  Answers  *)
(* arrive late: after the palette was closed, opened again or moved on to        *)
(* another mode.  A row is a record: what it does, to what, and how it reads.    *)
(***************************************************************************)
EXTENDS Focus, Lists, Sequences, SequencesExt, FiniteSets

CONSTANTS
    Terminals,  \* the terminals the backend may run
    NameOf,     \* what a terminal is called; two may share a name
    Shown,      \* those that have a pane in this window
    Owned,      \* those of this workspace
    Queries,    \* what is searched for
    None, All,
    MaxAsked    \* bound: answers in flight at once

ASSUME PaletteAssumption == IsFiniteSet(Terminals) /\ None \notin Terminals \cup {All}

VARIABLES
    open, requestId,
    mode,           \* which list is shown: "commands", "prompt", "foreign", ...
    subject,        \* what it is about: the prompt's question, the query, the terminal to kill
    killPending,    \* the kill that is not answered, and whether its question is still shown
    items,          \* the rows of the mode
    text,           \* what narrows them: a label, or None
    sel, moved,     \* the highlighted row; whether the arrows put it there
    late,           \* what arrived since the palette opened
    foreignSessions,\* kept from one opening to the next
    asked,          \* the answers in flight
    running,        \* the terminals that run
    claim           \* the palette's claims on the keyboard

list == <<items, text, sel, moved>>
fill == <<late, foreignSessions>>
palette == <<open, requestId, mode, subject, killPending, list, fill, asked, running, claim>>

-----------------------------------------------------------------------------
(* The rows. *)

Row(act, of) ==
    [act |-> act, of |-> of, label |-> <<act, IF of \in Terminals THEN NameOf[of] ELSE of>>]
TerminalRows(act, S) == [i \in 1 .. Cardinality(S) |-> Row(act, SetToSeq(S)[i])]
StaticItems ==
    << Row("plain", None), Row("kill", None), Row("search", None), Row("foreign", None),
       Row("window", None), Row("save", None), Row("viewer", None) >> \o TerminalRows("go", running)
WorkspaceRows(names) == IF names THEN << Row("workspace", None) >> ELSE << >>
AgentSessionRows(agents) == IF agents THEN << Row("resume", None) >> ELSE << >>
EmptyLate == [names |-> FALSE, attach |-> {}, agents |-> FALSE]
Compose(l) ==
    StaticItems \o WorkspaceRows(l.names) \o TerminalRows("attach", l.attach) \o AgentSessionRows(l.agents)
Back == << Row("back", None) >>
KillRows ==
    TerminalRows("confirm", running) \o (IF Cardinality(running) > 1 THEN << Row("confirm", All) >> ELSE << >>)

Filtered(rows, t) == IF t = None THEN rows ELSE Picked(rows, {i \in DOMAIN rows : rows[i].label = t})
Highlighted == Filtered(items, text)[sel]
HasRow == sel \in DOMAIN Filtered(items, text)
First(rows, label) ==
    LET found == {i \in DOMAIN rows : rows[i].label = label}
    IN  IF found = {} THEN 1 ELSE CHOOSE i \in found : \A j \in found : i <= j

\* Fault: a late fill puts the first row under the highlight.
RefilterToTop(rows, t, reset) ==
    /\ items' = rows /\ text' = t
    /\ moved' = (moved /\ ~ reset) /\ sel' = 1
\* _refilter: a row picked with the arrows is found again by its label.
Refilter(rows, t, reset) ==
    /\ items' = rows /\ text' = t
    /\ moved' = (moved /\ ~ reset)
    /\ sel' = IF reset \/ ~ moved \/ ~ HasRow THEN 1
              ELSE First(Filtered(rows, t), Highlighted.label)

-----------------------------------------------------------------------------
(* Modes. *)

\* Fault: an answer for the command list is used in whatever mode is shown.
CurrentOpening(id) == open /\ id = requestId
Current(id) == open /\ id = requestId /\ mode = "commands"

\* The question a pending kill came from is no longer shown.
LeftBehind(k) == IF k = None THEN None ELSE [k EXCEPT !.here = FALSE]
Enter(m, s) ==
    /\ mode' = m /\ subject' = s
    /\ killPending' = LeftBehind(killPending)

Job(kind, of, id) == [kind |-> kind, of |-> of, id |-> id, saw |-> {}]
Ask(jobs) == Cardinality(asked \cup jobs) <= MaxAsked /\ asked' = asked \cup jobs
Onward(j, k) == asked' = (asked \ {j}) \cup {k}
Dropped(j) == asked' = asked \ {j}

\* Fault: coming back from a list claims the keyboard once more.
OpenPaletteAgain ==
    /\ open' = TRUE /\ requestId' = requestId + 1
    /\ claim' = Claimed(claim)
    /\ Enter("commands", None)
    /\ late' = EmptyLate
    /\ Refilter(Compose(EmptyLate), None, TRUE)
    /\ Ask({Job("live", None, requestId + 1), Job("agents", None, requestId + 1)})
    /\ UNCHANGED <<foreignSessions, running>>
OpenPalette ==
    /\ open' = TRUE /\ requestId' = requestId + 1
    /\ claim' = IF open THEN claim ELSE Claimed(claim)
    /\ Enter("commands", None)
    /\ late' = EmptyLate
    /\ Refilter(Compose(EmptyLate), None, TRUE)
    /\ Ask({Job("live", None, requestId + 1), Job("agents", None, requestId + 1)})
    /\ UNCHANGED <<foreignSessions, running>>

Closing ==
    /\ open' = FALSE /\ requestId' = requestId + 1
    /\ mode' = "commands" /\ subject' = None
    /\ claim' = Released(claim)
    /\ UNCHANGED <<list, fill>>
Close ==
    /\ open /\ Closing
    /\ killPending' = LeftBehind(killPending)
    /\ UNCHANGED <<asked, running>>

ShowRows(m, s, rows) == Enter(m, s) /\ Refilter(rows, None, TRUE)

PromptMode(question) ==
    /\ Enter("prompt", question)
    /\ text' = None /\ sel' = 1
    /\ UNCHANGED <<open, requestId, items, moved, fill, asked, running, claim>>

SearchMode(query) ==
    /\ ShowRows("search", query, Back)
    /\ requestId' = requestId + 1
    /\ Ask({Job("search", query, requestId + 1)})
    /\ UNCHANGED <<open, fill, running, claim>>

\* Also with the terminals an earlier opening found, until this one's arrived.
ForeignSessionMode ==
    /\ ShowRows("foreign", None, Back \o TerminalRows("move", foreignSessions))
    /\ UNCHANGED <<open, requestId, fill, asked, running, claim>>

KillMode ==
    /\ ShowRows("kill", None, KillRows \o Back)
    /\ UNCHANGED <<open, requestId, fill, asked, running, claim>>

KillConfirm(of) ==
    /\ ShowRows("kill", of, << Row("really", of), Row("backlist", None) >>)
    /\ UNCHANGED <<open, requestId, fill, asked, running, claim>>

KillChosen(of) ==
    /\ IF killPending # None THEN UNCHANGED <<killPending, asked>>
       ELSE killPending' = [of |-> of, here |-> TRUE] /\ Ask({Job("kill", of, 0)})
    /\ UNCHANGED <<open, requestId, mode, subject, list, fill, running, claim>>

NewWindowMode ==
    /\ open' = TRUE
    /\ requestId' = IF open THEN requestId + 1 ELSE requestId + 2
    /\ claim' = IF open THEN claim ELSE Claimed(claim)
    /\ ShowRows("window", None, Back \o << Row("here", None) >>)
    /\ Ask({Job("windows", None, requestId')})
    /\ UNCHANGED <<fill, running>>

-----------------------------------------------------------------------------
(* The keyboard and the mouse. *)

ArrowTo(i) ==
    /\ open /\ mode # "prompt" /\ i \in DOMAIN Filtered(items, text)
    /\ sel' = i /\ moved' = TRUE
    /\ UNCHANGED <<open, requestId, mode, subject, killPending, items, text, fill, asked, running, claim>>
HoverOn(i) ==
    /\ open /\ mode # "prompt" /\ i \in DOMAIN Filtered(items, text)
    /\ sel' = i
    /\ UNCHANGED <<open, requestId, mode, subject, killPending, items, text, moved, fill, asked, running, claim>>

Types(t) ==
    /\ open /\ mode # "prompt"
    /\ Refilter(items, t, TRUE)
    /\ UNCHANGED <<open, requestId, mode, subject, killPending, fill, asked, running, claim>>

Escape ==
    CASE mode = "kill" /\ subject # None -> KillMode
      [] mode \in {"foreign", "window", "search", "kill"} /\ subject = None -> OpenPalette
      [] mode = "search" -> OpenPalette
      [] OTHER -> Close
EscapeKey == open /\ Escape

\* Enter and a click: some rows lead on inside the palette, the others close it first.
Choose(r) ==
    CASE r.act = "kill"     -> KillMode
      [] r.act = "confirm"  -> KillConfirm(r.of)
      [] r.act = "really"   -> KillChosen(r.of)
      [] r.act = "backlist" -> KillMode
      [] r.act = "back"     -> OpenPalette
      [] r.act = "search"   -> PromptMode("query")
      [] r.act = "save"     -> PromptMode("name")
      [] r.act = "viewer"   -> PromptMode("file")
      [] r.act = "foreign"  -> ForeignSessionMode
      [] r.act = "window"   -> NewWindowMode
      [] OTHER              -> Close
EnterKey == open /\ mode # "prompt" /\ HasRow /\ Choose(Highlighted)
Click(i) == open /\ mode # "prompt" /\ i \in DOMAIN Filtered(items, text) /\ Choose(Filtered(items, text)[i])

SubmitPrompt ==
    /\ open /\ mode = "prompt"
    /\ CASE subject = "file"  -> Close
         [] subject = "query" -> \E q \in Queries : SearchMode(q)
         [] subject = "name"  ->
              /\ Ask({Job("names", None, requestId)})
              /\ UNCHANGED <<open, requestId, mode, subject, killPending, list, fill, running, claim>>

-----------------------------------------------------------------------------
(* The answers. *)

LiveAnswer(j) ==
    /\ j.kind = "live"
    /\ IF ~ Current(j.id) THEN Dropped(j) /\ UNCHANGED <<list, late>>
       ELSE /\ late' = [late EXCEPT !.names = TRUE]
            /\ Refilter(Compose(late'), text, FALSE)
            /\ Onward(j, [j EXCEPT !.kind = "details", !.saw = running])
    /\ UNCHANGED <<open, requestId, mode, subject, killPending, foreignSessions, running, claim>>

DetailsAnswer(j) ==
    /\ j.kind = "details" /\ Dropped(j)
    /\ IF ~ Current(j.id) THEN UNCHANGED <<list, fill>>
       ELSE /\ late' = [late EXCEPT !.attach = (j.saw \cap Owned) \ Shown]
            /\ foreignSessions' = j.saw \ (Owned \cup Shown)
            /\ Refilter(Compose(late'), text, FALSE)
    /\ UNCHANGED <<open, requestId, mode, subject, killPending, running, claim>>

AgentsAnswer(j) ==
    /\ j.kind = "agents" /\ Dropped(j)
    /\ IF ~ Current(j.id) THEN UNCHANGED <<list, late>>
       ELSE late' = [late EXCEPT !.agents = TRUE] /\ Refilter(Compose(late'), text, FALSE)
    /\ UNCHANGED <<open, requestId, mode, subject, killPending, foreignSessions, running, claim>>

\* The first hit is highlighted unless the user moved or typed meanwhile.
SearchAnswer(j, ok) ==
    /\ j.kind = "search" /\ Dropped(j)
    /\ IF ~ (open /\ mode = "search" /\ j.id = requestId /\ ok) THEN UNCHANGED list
       ELSE /\ items' = Append(items, Row("found", j.of))
            /\ UNCHANGED <<text, moved>>
            /\ sel' = IF text = None THEN 2 ELSE 1
    /\ UNCHANGED <<open, requestId, mode, subject, killPending, fill, running, claim>>

WindowsAnswer(j) ==
    /\ j.kind = "windows" /\ Dropped(j)
    /\ IF open /\ mode = "window" /\ j.id = requestId
       THEN Refilter(Append(items, Row("elsewhere", None)), text, FALSE)
       ELSE UNCHANGED list
    /\ UNCHANGED <<open, requestId, mode, subject, killPending, fill, running, claim>>

KillAnswer(j, ok) ==
    /\ j.kind = "kill" /\ Dropped(j)
    /\ killPending' = None
    /\ running' = IF ~ ok THEN running ELSE IF j.of = All THEN {} ELSE running \ {j.of}
    /\ IF ok /\ open /\ mode = "kill" /\ subject = j.of /\ (j.of = All \/ killPending.here)
       THEN Closing
       ELSE UNCHANGED <<open, requestId, mode, subject, list, fill, claim>>

\* Saving under a name: the names, the save, the list of workspaces.
SaveAnswer(j, ok) ==
    /\ j.kind \in {"names", "saved", "changed"}
    /\ IF ~ (open /\ mode = "prompt" /\ subject = "name" /\ j.id = requestId) \/ ~ ok
       THEN Dropped(j) /\ UNCHANGED <<open, requestId, mode, subject, killPending, list, fill, claim>>
       ELSE IF j.kind = "changed"
       THEN Dropped(j) /\ Closing /\ killPending' = LeftBehind(killPending)
       ELSE /\ Onward(j, [j EXCEPT !.kind = IF j.kind = "names" THEN "saved" ELSE "changed"])
            /\ UNCHANGED <<open, requestId, mode, subject, killPending, list, fill, claim>>
    /\ UNCHANGED running

-----------------------------------------------------------------------------
PaletteInit ==
    /\ open = FALSE /\ requestId = 0 /\ mode = "commands" /\ subject = None
    /\ killPending = None /\ items = << >> /\ text = None /\ sel = 1 /\ moved = FALSE
    /\ late = EmptyLate /\ foreignSessions = {} /\ asked = {} /\ running = Terminals /\ claim = 0

PaletteCommand ==
    \/ EscapeKey \/ EnterKey \/ SubmitPrompt \/ Types(None)
    \/ \E i \in 1 .. Len(items) : ArrowTo(i) \/ HoverOn(i) \/ Click(i) \/ Types(items[i].label)

PaletteAnswer ==
    \E j \in asked :
        \/ LiveAnswer(j) \/ DetailsAnswer(j) \/ AgentsAnswer(j) \/ WindowsAnswer(j)
        \/ \E ok \in BOOLEAN : SearchAnswer(j, ok) \/ KillAnswer(j, ok) \/ SaveAnswer(j, ok)

PaletteTypeOK ==
    /\ sel \in 1 .. Len(Filtered(items, text)) \cup {1}
    /\ mode \in {"commands", "prompt", "foreign", "window", "search", "kill"}
    /\ running \subseteq Terminals /\ foreignSessions \subseteq Terminals
    /\ \A j \in asked : j.id <= requestId

(* What the list shows belongs to the mode it is in and to what the mode is about: *)
(* no late answer for the command list, another search or another kill ends up in    *)
(* it, in whatever order the answers arrive.                                         *)
ListIsOfTheMode ==
    open => \A i \in DOMAIN items :
        CASE mode = "commands" -> items[i].act \notin {"back", "move", "found", "confirm", "really", "elsewhere"}
          [] mode = "foreign"  -> items[i].act \in {"back", "move"}
          [] mode = "window"   -> items[i].act \in {"back", "here", "elsewhere"}
          [] mode = "search"   -> items[i] \in {Row("back", None), Row("found", subject)}
          [] mode = "kill" /\ subject = None -> items[i].act \in {"confirm", "back"}
          [] mode = "kill" /\ subject # None -> items[i] \in {Row("really", subject), Row("backlist", None)}
          [] OTHER -> TRUE

(* An answer that fills the list while the user is choosing leaves the row picked     *)
(* with the arrows highlighted: Enter runs what the user saw.                          *)
RowStaysPicked ==
    [][(open /\ open' /\ mode = "commands" /\ mode' = mode /\ requestId' = requestId
          /\ asked' # asked /\ moved /\ HasRow /\ Highlighted \in {items'[i] : i \in DOMAIN items'})
        => Filtered(items', text')[sel'] = Highlighted]_palette
=============================================================================
