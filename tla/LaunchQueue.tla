----------------------------- MODULE LaunchQueue -----------------------------
(***************************************************************************)
(* Launches handed to QuickTerm from outside, and the long polls of the     *)
(* windows that take them (api/launches.py, launch_loop.js).  A poll is a    *)
(* coroutine on the event loop: its steps are the stretches between two      *)
(* awaits.  Launches are numbered in the order they were queued.             *)
(***************************************************************************)
EXTENDS Naturals, FiniteSets, Sequences

CONSTANTS
    Polls,          \* requests the server can have open at once
    Pages,        \* windows that run the launch loop
    NoLaunch,       \* None where a launch may stand
    NoPoll,         \* a window that waits for no answer
    MaxItems,       \* LaunchQueue.MAX_ITEMS
    MaxLaunches,    \* bound: launches queued in a run
    MaxLeaves       \* bound: windows that close or reload in a run

ASSUME LaunchAssumption ==
    /\ IsFiniteSet(Polls) /\ NoPoll \notin Polls
    /\ NoLaunch \notin Nat
    /\ MaxItems \in Nat \ {0} /\ MaxLaunches \in Nat /\ MaxLeaves \in Nat

VARIABLES
    items,      \* _items, the front first
    pc,         \* where each poll's coroutine stands
    held,       \* the launch a poll has popped
    woken,      \* the event the poll took from `arrived` has been set
    gone,       \* the poll's client has closed its socket
    seen,       \* the server has noticed that
    polling,    \* the poll each window waits for
    queued,     \* history: launches queued so far
    fate,       \* history: what became of each of them
    leaves      \* history: windows that left in mid-poll

queue == <<items, woken>>
queueVars  == <<items, pc, held, woken, gone, seen, polling, queued, fate, leaves>>

Launches == 1 .. MaxLaunches
Fates    == {"none", "waiting", "opened", "dropped", "lost"}

QueueTypeOK ==
    /\ items \in Seq(Launches)
    /\ pc \in [Polls -> {"free", "looks", "holds", "asks", "waits", "answers"}]
    /\ held \in [Polls -> Launches \cup {NoLaunch}]
    /\ \A p \in Polls :
          /\ held[p] # NoLaunch => pc[p] \in {"holds", "answers"}
          /\ pc[p] = "holds" => held[p] # NoLaunch
    /\ woken \in [Polls -> BOOLEAN]
    /\ gone \in [Polls -> BOOLEAN]
    /\ seen \in [Polls -> BOOLEAN]
    /\ polling \in [Pages -> Polls \cup {NoPoll}]
    /\ queued \in 0 .. MaxLaunches
    /\ fate \in [Launches -> Fates]
    /\ leaves \in 0 .. MaxLeaves

QueueInit ==
    /\ items = <<>>
    /\ pc = [p \in Polls |-> "free"]
    /\ held = [p \in Polls |-> NoLaunch]
    /\ woken = [p \in Polls |-> FALSE]
    /\ gone = [p \in Polls |-> FALSE]
    /\ seen = [p \in Polls |-> FALSE]
    /\ polling = [w \in Pages |-> NoPoll]
    /\ queued = 0
    /\ fate = [l \in Launches |-> "none"]
    /\ leaves = 0

-----------------------------------------------------------------------------
(* The queue. *)

\* Every change sets the event and replaces it; only the polls that found the
\* queue empty go on to wait on the one they took.
Wake == woken' = [p \in Polls |-> pc[p] \in {"asks", "waits"}]

\* Fault: a launch that goes back keeps to the limit.
KeepsToTheLimit(l) ==
    /\ items' = IF Len(items) >= MaxItems THEN items ELSE <<l>> \o items
    /\ Wake

\* Fault: a launch that goes back wakes nobody.
WakesNobody(l) ==
    /\ items' = <<l>> \o items
    /\ UNCHANGED woken

Requeue(l) ==
    /\ items' = <<l>> \o items
    /\ Wake

\* A launch is queued; at the limit the front one is dropped for it.
Put ==
    /\ queued < MaxLaunches
    /\ queued' = queued + 1
    /\ IF Len(items) >= MaxItems
       THEN /\ items' = Append(Tail(items), queued')
            /\ fate' = [fate EXCEPT ![Head(items)] = "dropped", ![queued'] = "waiting"]
       ELSE /\ items' = Append(items, queued')
            /\ fate' = [fate EXCEPT ![queued'] = "waiting"]
    /\ Wake
    /\ UNCHANGED <<pc, held, gone, seen, polling, leaves>>

-----------------------------------------------------------------------------
(* One poll, GET /api/launches/next. *)

\* The event is taken before the queue is looked at.  `expired`: nothing is
\* left of the twenty seconds, or the poll was not to wait at all.
Look(p, expired) ==
    /\ pc[p] = "looks"
    /\ IF items # <<>>
       THEN /\ held' = [held EXCEPT ![p] = Head(items)]
            /\ items' = Tail(items)
            /\ pc' = [pc EXCEPT ![p] = "holds"]
       ELSE /\ pc' = [pc EXCEPT ![p] = IF expired THEN "answers" ELSE "asks"]
            /\ UNCHANGED <<held, items>>
    /\ woken' = [woken EXCEPT ![p] = FALSE]
    /\ UNCHANGED <<gone, seen, polling, queued, fate, leaves>>

\* Fault: a poll that gave its launch back goes on asking for its lost client.
AsksAgain(p) ==
    /\ pc[p] = "holds"
    /\ seen[p]
    /\ Requeue(held[p])
    /\ held' = [held EXCEPT ![p] = NoLaunch]
    /\ pc' = [pc EXCEPT ![p] = "looks"]
    /\ UNCHANGED <<gone, seen, polling, queued, fate, leaves>>

\* Holding a launch: is_disconnected() has answered.
PutBack(p) ==
    /\ pc[p] = "holds"
    /\ seen[p]
    /\ Requeue(held[p])
    /\ held' = [held EXCEPT ![p] = NoLaunch]
    /\ pc' = [pc EXCEPT ![p] = "answers"]
    /\ UNCHANGED <<gone, seen, polling, queued, fate, leaves>>

HandOver(p) ==
    /\ pc[p] = "holds"
    /\ ~seen[p]
    /\ pc' = [pc EXCEPT ![p] = "answers"]
    /\ UNCHANGED <<queue, held, gone, seen, polling, queued, fate, leaves>>

\* Nothing there: is_disconnected() has answered.
GoesToWait(p) ==
    /\ pc[p] = "asks"
    /\ IF seen[p]
       THEN /\ pc' = [pc EXCEPT ![p] = "answers"]
            /\ woken' = [woken EXCEPT ![p] = FALSE]
       ELSE /\ pc' = [pc EXCEPT ![p] = "waits"]
            /\ UNCHANGED woken
    /\ UNCHANGED <<items, held, gone, seen, polling, queued, fate, leaves>>

\* The event is set, or half a second has passed.
WakesUp(p) ==
    /\ pc[p] = "waits"
    /\ pc' = [pc EXCEPT ![p] = "looks"]
    /\ UNCHANGED <<queue, held, gone, seen, polling, queued, fate, leaves>>

\* Fault: the launch stays in the hands of a poll that has ended.
HoldsOn(p) ==
    /\ pc' = [pc EXCEPT ![p] = "free"]
    /\ gone' = [gone EXCEPT ![p] = FALSE]
    /\ seen' = [seen EXCEPT ![p] = FALSE]
    /\ fate' = [l \in Launches |->
                  IF l # held[p] THEN fate[l] ELSE IF gone[p] THEN "lost" ELSE "opened"]
    /\ UNCHANGED <<queue, held, queued, leaves>>

\* The response reaches its window, or a socket nobody reads any more.
Answered(p) ==
    /\ pc' = [pc EXCEPT ![p] = "free"]
    /\ held' = [held EXCEPT ![p] = NoLaunch]
    /\ gone' = [gone EXCEPT ![p] = FALSE]
    /\ seen' = [seen EXCEPT ![p] = FALSE]
    /\ fate' = [l \in Launches |->
                  IF l # held[p] THEN fate[l] ELSE IF gone[p] THEN "lost" ELSE "opened"]
    /\ UNCHANGED <<queue, queued, leaves>>

IntoTheVoid(p) ==
    /\ pc[p] = "answers"
    /\ gone[p]
    /\ Answered(p)
    /\ UNCHANGED polling

-----------------------------------------------------------------------------
(* The windows. *)

\* The page asks for the next launch: the primary window does, and one that
\* could not reach the registry.
StartPoll(w, p) ==
    /\ polling[w] = NoPoll
    /\ pc[p] = "free"
    /\ pc' = [pc EXCEPT ![p] = "looks"]
    /\ polling' = [polling EXCEPT ![w] = p]
    /\ UNCHANGED <<queue, held, gone, seen, queued, fate, leaves>>

\* The page reads the answer: a launch it opens, or 204.
Claimed(w, p) ==
    /\ polling[w] = p
    /\ pc[p] = "answers"
    /\ polling' = [polling EXCEPT ![w] = NoPoll]
    /\ Answered(p)

\* The window reloads or closes with the poll open; the server notices later.
Leave(w, p) ==
    /\ polling[w] = p
    /\ leaves < MaxLeaves
    /\ leaves' = leaves + 1
    /\ gone' = [gone EXCEPT ![p] = TRUE]
    /\ polling' = [polling EXCEPT ![w] = NoPoll]
    /\ UNCHANGED <<queue, pc, held, seen, queued, fate>>

Notice(p) ==
    /\ gone[p] /\ ~seen[p]
    /\ seen' = [seen EXCEPT ![p] = TRUE]
    /\ UNCHANGED <<queue, pc, held, gone, polling, queued, fate, leaves>>

-----------------------------------------------------------------------------

Serve(p) ==
    \/ \E expired \in BOOLEAN : Look(p, expired)
    \/ PutBack(p) \/ HandOver(p) \/ GoesToWait(p) \/ WakesUp(p)
    \/ IntoTheVoid(p) \/ Notice(p)

QueueNext ==
    \/ Put
    \/ \E p \in Polls : Serve(p)
    \/ \E w \in Pages, p \in Polls : StartPoll(w, p) \/ Claimed(w, p) \/ Leave(w, p)

QueueSpec == QueueInit /\ [][QueueNext]_queueVars

\* The event loop runs what is due, a page reads its answer, and some window,
\* the primary one, goes on asking.
QueueFairSpec ==
    /\ QueueSpec
    /\ \A p \in Polls : WF_queueVars(Serve(p))
    /\ \A p \in Polls : WF_queueVars(\E w \in Pages : Claimed(w, p))
    /\ WF_queueVars(\E w \in Pages, p \in Polls : StartPoll(w, p))

-----------------------------------------------------------------------------
(* Properties. *)

\* A launch that waits is in exactly one place, the queue or the hands of one
\* poll, and one that was opened, dropped or lost is in none: putting back
\* beside other polls neither doubles a launch nor forgets one.
InOnePlace ==
    /\ \A l \in Launches : fate[l] = "waiting"
          <=> (\E i \in DOMAIN items : items[i] = l) \/ \E p \in Polls : held[p] = l
    /\ \A i, j \in DOMAIN items : items[i] = items[j] => i = j
    /\ \A i \in DOMAIN items, p \in Polls : items[i] # held[p]
    /\ \A p, q \in Polls : held[p] = held[q] /\ held[p] # NoLaunch => p = q

\* No poll sleeps on an event nobody will set while a launch waits in the
\* queue: the event is taken before looking, and whatever is queued or put back
\* between the look and the wait wakes it ("an item queued while this waiter is
\* busy checking its client still wakes it").
NoneSleepsOnALaunch ==
    \A p \in Polls : pc[p] \in {"asks", "waits"} /\ ~woken[p] => items = <<>>

\* Putting back does not look at the limit, yet what is kept stays bounded: the
\* limit and one launch for each poll open.
Holding == {p \in Polls : held[p] # NoLaunch /\ pc[p] = "holds"}
KeptIsBounded == Len(items) + Cardinality(Holding) <= MaxItems + Cardinality(Polls)

\* Every launch is opened, dropped for newer ones or lost with its window in the
\* end: polls whose windows have gone do not keep it from those that are there.
LaunchIsServed ==
    \A l \in Launches : (fate[l] = "waiting") ~> (fate[l] \in {"opened", "dropped", "lost"})
=============================================================================
