------------------------------- MODULE Updates --------------------------------
(***************************************************************************)
(* In-app updates as a window shows them (updates.js, update_card.js and the    *)
(* row in Settings' About): the state the backend keeps, read when somebody      *)
(* asked for something and polled while a download runs; the card that shows it,  *)
(* its buttons, and the keyboard while the caret is in it.                        *)
(***************************************************************************)
EXTENDS Focus, FiniteSets

CONSTANTS
    Versions,    \* releases: numbers
    MaxQueries,  \* bound: requests in flight at once
    None

VARIABLES
    update,      \* the backend's state: [state, version]
    current,     \* what this window last read of it
    armed,       \* the poll's timer runs
    queries,     \* requests for the state in flight: who asks, and the state when it was sent
    orders,      \* what was asked of the backend and is not answered: who asked, and what
    dismissed,   \* the version the card is folded away for, or None
    row,         \* the state the card's buttons were drawn for
    busy,        \* they are disabled
    caret,       \* the control of the card that has the caret, or None
    cardClaim    \* the card's claims on the keyboard

card == <<row, busy, caret, cardClaim>>

Idle == [state |-> "idle", version |-> None]
ShouldPoll(c) == c.state \in {"downloading", "verifying"}
Button(state) ==
    CASE state = "available" -> "download"
      [] state = "ready" -> "install"
      [] state = "failed" -> "retry"
      [] state = "installed" -> "restart"
      [] OTHER -> None
Controls(state) ==
    (IF Button(state) = None THEN {} ELSE {"button"})
    \cup (IF state \in {"downloading", "verifying", "installed"} THEN {"minimize"} ELSE {})
    \cup (IF state \in {"installing", "failed"} THEN {} ELSE {"notes"})
MayWait(state) == state \in {"available", "ready", "failed"}

CardVisible(c, version) == c.state # "idle" /\ version # c.version
Visible == CardVisible(current, dismissed)

-----------------------------------------------------------------------------
(* The card. *)

Release == cardClaim' = IF cardClaim = 0 THEN 0 ELSE Released(cardClaim)
LeaveCard == caret' = None /\ Release

\* A control that is taken away with the caret in it need not say so.
LosesCaret == caret' = None /\ cardClaim' \in {cardClaim, 0}

\* What is not shown any more loses the caret; a row drawn anew is enabled.
Draw(c, version, enabled) ==
    /\ busy' = (busy /\ ~ enabled /\ ~ (CardVisible(c, version) /\ row # c.state))
    /\ row' = IF CardVisible(c, version) THEN c.state ELSE row
    /\ IF ~ CardVisible(c, version) THEN LeaveCard
       ELSE IF caret \in Controls(c.state) \cup {None} THEN UNCHANGED <<caret, cardClaim>>
       ELSE LosesCaret

CaretEnters(control) ==
    /\ Visible /\ control \in Controls(current.state) /\ caret # control
    /\ control = "button" => ~ busy
    /\ caret' = control
    /\ cardClaim' = IF cardClaim = 0 THEN Claimed(cardClaim) ELSE cardClaim
    /\ UNCHANGED <<update, current, armed, queries, orders, dismissed, row, busy>>
CaretLeaves ==
    /\ caret # None /\ LeaveCard
    /\ UNCHANGED <<update, current, armed, queries, orders, dismissed, row, busy>>

\* The minus, Escape in the card, Later; the pill in the sidebar takes it back.
Collapse ==
    /\ Visible
    /\ \/ caret # None
       \/ "minimize" \in Controls(current.state)
       \/ MayWait(current.state) /\ ~ busy
    /\ dismissed' = current.version /\ Draw(current, current.version, FALSE)
    /\ UNCHANGED <<update, current, armed, queries, orders>>
Reopen ==
    /\ current.state # "idle" /\ dismissed # None
    /\ dismissed' = None /\ Draw(current, None, FALSE)
    /\ UNCHANGED <<update, current, armed, queries, orders>>

-----------------------------------------------------------------------------
(* Asking the backend. *)

Query(for) == queries' = queries \cup {[for |-> for, saw |-> update]}
Looks == Cardinality(queries) < MaxQueries /\ Query("look")

\* The card's buttons are disabled meanwhile, and so is the one in About.
Act(who) ==
    /\ Button(current.state) # None
    /\ IF who = "card" THEN Visible /\ ~ busy
       ELSE (\A a \in orders : a.who # who) /\ (\A q \in queries : q.for # who)
    /\ orders' = orders \cup {[who |-> who, what |-> Button(current.state)]}
    /\ busy' = (busy \/ who = "card")
    /\ IF who = "card" /\ caret = "button" THEN LosesCaret ELSE UNCHANGED <<caret, cardClaim>>
    /\ UNCHANGED <<update, current, armed, queries, dismissed, row>>

\* The backend joins a download that runs; anything else it is not ready for it refuses.
Takes(what) ==
    CASE what \in {"download", "retry"} /\ update.state \in {"available", "failed"} ->
            [update EXCEPT !.state = "downloading"]
      [] what = "install" /\ update.state = "ready" -> [update EXCEPT !.state = "installing"]
      [] OTHER -> update
\* Whatever came of it, the state is read again.
ActAnswers(a) ==
    /\ a \in orders /\ orders' = orders \ {a}
    /\ update' \in {update, Takes(a.what)}
    /\ queries' = queries \cup {[for |-> a.who, saw |-> update']}
    /\ UNCHANGED <<current, armed, dismissed, card>>

\* The state as it was when it was asked for, or as it is; or no answer.
QueryAnswers(q, c) ==
    /\ q \in queries /\ c \in {q.saw, update}
    /\ queries' = queries \ {q}
    /\ current' = c
    /\ armed' = (armed \/ ShouldPoll(c))
    /\ Draw(c, dismissed, q.for = "card")
    /\ UNCHANGED <<update, orders, dismissed>>
(* A poll that fails gives up. *)
QueryFailsOnce(q) ==
    /\ q \in queries
    /\ queries' = queries \ {q}
    /\ busy' = (busy /\ q.for # "card")
    /\ UNCHANGED <<update, current, armed, orders, dismissed, row, caret, cardClaim>>
QueryFails(q) ==
    /\ q \in queries
    /\ queries' = queries \ {q}
    /\ armed' = (armed \/ (q.for = "poll" /\ ShouldPoll(current)))
    /\ busy' = (busy /\ q.for # "card")
    /\ UNCHANGED <<update, current, orders, dismissed, row, caret, cardClaim>>

Poll ==
    /\ armed /\ armed' = FALSE /\ Query("poll")
    /\ UNCHANGED <<update, current, orders, dismissed, card>>

\* The window gets the focus back while Setup runs; or About is opened.
LooksAgain(about) ==
    /\ about \/ current.state = "installing"
    /\ Looks
    /\ UNCHANGED <<update, current, armed, orders, dismissed, card>>

\* The release probe, its answer with it: the backend notes the release it found, or none.
Noted(version) ==
    IF \/ update.state \in {"downloading", "verifying", "installing"}
       \/ update.state = "installed" /\ version = None
       \/ version = update.version
    THEN update
    ELSE IF version = None THEN Idle ELSE [state |-> "available", version |-> version]
Probe(version) ==
    /\ update' = Noted(version)
    /\ Cardinality(queries) < MaxQueries
    /\ queries' = queries \cup {[for |-> "look", saw |-> update']}
    /\ UNCHANGED <<current, armed, orders, dismissed, card>>

\* The download, which a setting may start, and Setup go on.
BackendSteps(state) ==
    /\ <<update.state, state>> \in
          { <<"available", "downloading">>, <<"downloading", "verifying">>, <<"downloading", "failed">>,
            <<"verifying", "ready">>, <<"verifying", "failed">>, <<"installing", "installed">>,
            <<"installing", "ready">>, <<"installing", "failed">> }
    /\ update' = [update EXCEPT !.state = state]
    /\ UNCHANGED <<current, armed, queries, orders, dismissed, card>>

-----------------------------------------------------------------------------
\* A release was found earlier, by this window's probe or another one's.
UpdatesInit ==
    /\ update \in {Idle} \cup [state : {"available", "downloading", "ready"}, version : {1}]
    /\ current = Idle /\ armed = FALSE
    /\ queries = {[for |-> "look", saw |-> update]}
    /\ orders = {} /\ dismissed = None /\ row = "idle" /\ busy = FALSE /\ caret = None /\ cardClaim = 0

UpdatesCommand ==
    \/ \E control \in {"button", "minimize", "notes"} : CaretEnters(control)
    \/ CaretLeaves \/ Collapse \/ Reopen \/ Act("card") \/ LooksAgain(FALSE)
    \/ \E v \in Versions \cup {None} : Probe(v)
    \/ \E state \in {"downloading", "verifying", "ready", "failed", "installed"} : BackendSteps(state)
UpdatesAnswer ==
    \/ \E a \in orders : ActAnswers(a)
    \/ \E q \in queries : QueryFails(q) \/ \E c \in {q.saw, update} : QueryAnswers(q, c)
    \/ Poll

UpdatesTypeOK ==
    /\ current.version \in Versions \cup {None} /\ dismissed \in Versions \cup {None}
    /\ armed \in BOOLEAN /\ busy \in BOOLEAN
    /\ \A a \in orders : a.who \in {"card", "about"}

\* A download that is shown as running is looked at again, whatever failed meanwhile.
ProgressIsPolled == ShouldPoll(current) => armed \/ \E q \in queries : q.for = "poll"

\* The caret in the card claims the keyboard, and no claim outlives the card.
CardClaims ==
    /\ cardClaim \in {0, 1}
    /\ caret # None => cardClaim = 1 /\ Visible
    /\ cardClaim = 1 => Visible
=============================================================================
