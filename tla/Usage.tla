-------------------------------- MODULE Usage ---------------------------------
(***************************************************************************)
(* The usage line at the foot of the sidebar (usage_footer.js) and the popovers *)
(* that its two parts open: the limits of the agents, the memory of the          *)
(* terminals.  One popover is open at a time; it asks again by a timer of its     *)
(* own, and its answers may arrive after it was closed or replaced.               *)
(***************************************************************************)
EXTENDS Focus, FiniteSets

CONSTANTS
    MaxReads,    \* bound: requests in flight at once
    None

VARIABLES
    told,        \* the parts the last answers had something to show for
    parts,       \* the parts of the line that are drawn
    popover,     \* [part, id], or None
    pressed,     \* parts whose press closed their popover, until the click follows
    ticking,     \* the popovers a timer asks for
    timer,       \* the one whose timer is at hand to be cleared, or None
    reads,       \* requests in flight: the parts read, and for which popover or the line (None)
    popovers,    \* popovers are numbered
    popClaim     \* their claims on the keyboard

Parts == {"agents", "memory"}
Popovers == [part : Parts, id : Nat]

Reads(of, for) ==
    LET read == [of |-> of, for |-> for]
    IN  Cardinality(reads \cup {read}) <= MaxReads /\ reads' = reads \cup {read}

\* Its timer goes with it.
Gone == popover' = None /\ timer' = None /\ ticking' = ticking \ {timer} /\ popClaim' = Released(popClaim)
ClosePopover == popover # None /\ Gone /\ UNCHANGED <<told, parts, pressed, reads, popovers>>

\* Another one is closed for it.
ShowPopover(part) ==
    LET shown == [part |-> part, id |-> popovers]
    IN  /\ popover' = shown /\ popovers' = popovers + 1
        /\ timer' = shown /\ ticking' = (ticking \ {timer}) \cup {shown}
        /\ popClaim' = Claimed(IF popover = None THEN popClaim ELSE Released(popClaim))
        /\ Reads({part}, shown)

\* A part is clicked, or pressed by Enter: what its press has closed stays closed.
OpensPopover(part) == part \notin pressed /\ (popover = None \/ popover.part # part)
ClickPart(part) ==
    /\ part \in parts
    /\ pressed' = pressed \ {part}
    /\ IF OpensPopover(part) THEN ShowPopover(part)
       ELSE IF part \in pressed THEN UNCHANGED <<popover, timer, ticking, reads, popovers, popClaim>>
       ELSE Gone /\ UNCHANGED <<reads, popovers>>
    /\ UNCHANGED <<told, parts>>

\* A press outside the popover, on a part or elsewhere (None); the window's blur.
PressOutside(part) ==
    /\ IF popover = None THEN UNCHANGED <<popover, timer, ticking, popClaim>> ELSE Gone
    /\ pressed' = IF popover # None /\ popover.part = part THEN pressed \cup {part} ELSE pressed
    /\ UNCHANGED <<told, parts, reads, popovers>>

\* 600 ms after it a press counts no longer.
PressExpires == pressed # {} /\ pressed' = {}
    /\ UNCHANGED <<told, parts, popover, ticking, timer, reads, popovers, popClaim>>

\* Every few seconds for the open popover, every minute for the line.
Tick(p) == p \in ticking /\ Reads({p.part}, p)
    /\ UNCHANGED <<told, parts, popover, pressed, ticking, timer, popovers, popClaim>>
\* A sidebar that is not at its full width reads nothing and shows no popover.
RefreshLine(full) ==
    /\ IF full THEN UNCHANGED <<popover, timer, ticking, popClaim>> /\ Reads(Parts, None)
       ELSE UNCHANGED reads /\ IF popover = None THEN UNCHANGED <<popover, timer, ticking, popClaim>> ELSE Gone
    /\ UNCHANGED <<told, parts, pressed, popovers>>

\* An answer is kept whoever asked; the line is drawn for itself and for the open popover.
ReadAnswer(r, some) ==
    /\ r \in reads /\ some \subseteq r.of
    /\ reads' = reads \ {r}
    /\ told' = (told \ r.of) \cup some
    /\ parts' = IF r.for \in {None, popover} THEN told' ELSE parts
    /\ UNCHANGED <<popover, pressed, ticking, timer, popovers, popClaim>>
ReadFails(r) ==
    /\ r \in reads /\ reads' = reads \ {r}
    /\ parts' = IF r.for \in {None, popover} THEN told ELSE parts
    /\ UNCHANGED <<told, popover, pressed, ticking, timer, popovers, popClaim>>

-----------------------------------------------------------------------------
UsageInit ==
    /\ told = Parts /\ parts = Parts
    /\ popover = None /\ pressed = {} /\ ticking = {} /\ timer = None /\ reads = {}
    /\ popovers = 1 /\ popClaim = 0

\* The line's own gestures and timers; presses and clicks of its parts are in Surfaces.
UsageCommand ==
    \/ ClosePopover
    \/ \E p \in ticking : Tick(p)
    \/ \E full \in BOOLEAN : RefreshLine(full)
UsageAnswer ==
    \/ \E r \in reads : ReadFails(r) \/ \E some \in SUBSET r.of : ReadAnswer(r, some)
    \/ PressExpires

UsageTypeOK ==
    /\ told \subseteq Parts /\ parts \subseteq Parts /\ pressed \subseteq Parts
    /\ popover \in Popovers \cup {None} /\ popovers \in Nat
    /\ popover # None => popover.id < popovers
    /\ \A r \in reads : r.of \subseteq Parts

\* The open popover, and no other, is asked for again, until it is closed.
TimerFollows == ticking = (IF popover = None THEN {} ELSE {popover}) /\ timer = popover
=============================================================================
