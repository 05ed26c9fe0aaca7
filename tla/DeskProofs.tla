----------------------------- MODULE DeskProofs -----------------------------
(***************************************************************************)
(* For any number of panes, terminals, requests and commands: an armed bar is   *)
(* on the pane the user is in, a kill is sent for the terminal its bar named,    *)
(* and no answer or command puts a terminal over another.                         *)
(***************************************************************************)
EXTENDS Desk, TLAPS

-----------------------------------------------------------------------------
(* The invariant. *)

Names == Sessions \cup {None}
Confirms == [label : {"Kill", "Run"}, of : Names, busy : BOOLEAN]
States == {"empty", "spawning", "attached", "exited", "missing"}
Shapes ==
    [open : BOOLEAN, state : States, session : Names, wasExited : BOOLEAN, known : BOOLEAN,
     keep : BOOLEAN, confirm : Confirms \cup {None}, recovery : BOOLEAN,
     bar : {"none", "notice", "confirm", "recovery", "exit"}, timer : BOOLEAN,
     line : {"down", "replay", "live"}, wrote : BOOLEAN]
\* No recovery bar is over a terminal.
PaneRecs == {r \in Shapes : r.state = "attached" => r.bar # "recovery"}
Stages == {"asked", "restore", "retain", "list", "claim", "sent", "kill", "keep", "forget", "look", "attach"}
JobRecs ==
    [kind : {"spawn", "detach", "kill", "drop", "move", "typed", "boot"}, pane : Panes \cup {None},
     session : Names, stage : Stages, known : BOOLEAN, back : BOOLEAN]

\* What a pane shows has been started; a bar that asks about a kill names what it shows.
Shows(p) ==
    /\ pane[p].session \notin unborn
    /\ pane[p].confirm # None => p = focused
    /\ pane[p].confirm # None /\ pane[p].confirm.label = "Kill" => pane[p].confirm.of = pane[p].session
PaneInv ==
    /\ pane \in [Panes -> PaneRecs] /\ focused \in Panes
    /\ \A p \in Panes : Shows(p)

OwnersInv ==
    /\ unborn \subseteq Sessions /\ alive \subseteq Sessions \ unborn
    /\ wsIds \subseteq Names \ unborn /\ scratchIds \subseteq Names \ unborn
    /\ current \in {"none", "scratch", "named"} /\ queue \in Seq({"fill", "focus"} \X Panes)

\* A request knows what it is about, and a start that is under way is the only one of
\* its pane, which waits for it as long as it is open.
Sound(j) ==
    /\ j \in JobRecs
    /\ j.kind \in {"spawn", "kill", "detach"} => j.pane \in Panes
    /\ j.kind = "spawn" => j.stage \in {"asked", "restore"}
    /\ j.kind = "kill" => j.stage = "sent"
    /\ j.kind = "move" => j.session \in Sessions \ unborn
Waits(j) == j.kind = "spawn" /\ pane[j.pane].open => pane[j.pane].state = "spawning"
JobsInv ==
    /\ \A j \in jobs : Sound(j) /\ Waits(j)
    /\ \A i, j \in Of("spawn") : i # j /\ i.pane = j.pane => ~ pane[i.pane].open

IInv == PaneInv /\ OwnersInv /\ JobsInv

-----------------------------------------------------------------------------
(* One pane. *)

\* What most methods do to a pane: it shows what it showed, is started when it was
\* being started, and asks nothing it did not ask.
Gentle(r, s) ==
    /\ s \in PaneRecs /\ s.open = r.open /\ s.session = r.session
    /\ (s.state = "spawning" <=> r.state = "spawning")
    /\ s.confirm # None => r.confirm # None /\ s.confirm.label = r.confirm.label /\ s.confirm.of = r.confirm.of

\* A new pane and a closed one are panes.
LEMMA FreshIsOne == Fresh \in PaneRecs /\ Absent \in PaneRecs
BY DEF Fresh, Absent, PaneRecs, Shapes, Names, States

\* cancelConfirmation drops the confirmation and nothing else.
LEMMA CancelGentle ==
    ASSUME NEW r \in PaneRecs
    PROVE  Gentle(r, CancelConfirmation(r)) /\ CancelConfirmation(r).confirm = None
<1>1. CASE r.confirm = None
  BY <1>1 DEF CancelConfirmation, Gentle
<1>2. CASE r.confirm # None
  <2>. DEFINE b == IF r.state = "exited" THEN "exit" ELSE "none"
  <2>1. CancelConfirmation(r) = [r EXCEPT !.confirm = None, !.bar = b] /\ b \in {"exit", "none"}
    BY <1>2 DEF CancelConfirmation
  <2>. HIDE DEF b
  <2>. QED  BY <2>1 DEF Gentle, PaneRecs, Shapes
<1>. QED  BY <1>1, <1>2

\* clearRecovery touches the bar only.
LEMMA ClearGentle ==
    ASSUME NEW r \in PaneRecs
    PROVE  Gentle(r, ClearRecovery(r))
<1>1. CASE r.recovery
  <2>1. ClearRecovery(r) = [r EXCEPT !.recovery = FALSE, !.bar = "none"]
    BY <1>1 DEF ClearRecovery
  <2>. QED  BY <2>1 DEF Gentle, PaneRecs, Shapes
<1>2. CASE ~ r.recovery
  BY <1>2 DEF ClearRecovery, Gentle
<1>. QED  BY <1>1, <1>2

\* Two gentle methods in a row are gentle.
LEMMA GentleTwice ==
    ASSUME NEW r, NEW s, NEW t, Gentle(r, s), Gentle(s, t)
    PROVE  Gentle(r, t)
BY DEF Gentle

\* showNotice drops the confirmation whose bar it takes.
LEMMA NoticeGentle ==
    ASSUME NEW r \in PaneRecs
    PROVE  Gentle(r, ShowNotice(r)) /\ ShowNotice(r).confirm = None /\ ShowNotice(r).state = r.state
<1>. DEFINE c == CancelConfirmation(r)
            d == ClearRecovery(c)
<1>1. Gentle(r, c) /\ c.confirm = None /\ c.state = r.state
  BY CancelGentle DEF CancelConfirmation, PaneRecs, Shapes
<1>2. c \in PaneRecs
  BY <1>1 DEF Gentle
<1>3. Gentle(c, d) /\ d.confirm = None /\ d.state = r.state
  BY <1>1, <1>2, ClearGentle DEF ClearRecovery, PaneRecs, Shapes
<1>4. ShowNotice(r) = [d EXCEPT !.bar = "notice"]
  BY DEF ShowNotice
<1>. HIDE DEF c, d
<1>5. d \in PaneRecs
  BY <1>3 DEF Gentle
<1>6. Gentle(d, ShowNotice(r)) /\ ShowNotice(r).confirm = d.confirm /\ ShowNotice(r).state = d.state
  BY <1>4, <1>5 DEF Gentle, PaneRecs, Shapes
<1>. QED  BY <1>1, <1>3, <1>6, GentleTwice

\* flashNotice shows one for a while.
LEMMA FlashGentle ==
    ASSUME NEW r \in PaneRecs
    PROVE  Gentle(r, FlashNotice(r))
<1>1. Gentle(r, r)
  BY DEF Gentle
<1>2. Gentle(r, [ShowNotice(r) EXCEPT !.timer = TRUE])
  BY NoticeGentle DEF Gentle, PaneRecs, Shapes
<1>. QED  BY <1>1, <1>2 DEF FlashNotice

\* What is sent or pasted into a terminal leaves it as it is.
LEMMA WroteGentle ==
    ASSUME NEW r \in PaneRecs
    PROVE  Gentle(r, Wrote(r))
<1>1. Gentle(r, [FlashNotice(r) EXCEPT !.wrote = (current = "none")])
  <2>1. Gentle(r, FlashNotice(r))
    BY FlashGentle
  <2>2. (current = "none") \in BOOLEAN
    OBVIOUS
  <2>. QED  BY <2>1, <2>2 DEF Gentle, PaneRecs, Shapes
<1>. QED  BY <1>1, CancelGentle DEF Wrote

\* The end of a notice gives the bar back.
LEMMA NoticeEndsGentle ==
    ASSUME NEW r \in PaneRecs
    PROVE  Gentle(r, NoticeEnds(r))
<1>. DEFINE b == IF r.confirm # None \/ r.recovery THEN r.bar ELSE IF r.state = "exited" THEN "exit" ELSE "none"
<1>1. NoticeEnds(r) = [r EXCEPT !.timer = FALSE, !.bar = b] /\ b \in {r.bar, "exit", "none"}
  BY DEF NoticeEnds
<1>. HIDE DEF b
<1>. QED  BY <1>1 DEF Gentle, PaneRecs, Shapes

\* The socket's events: live, connecting, lost, and the exit of what was attached.
LEMMA LineGentle ==
    ASSUME NEW r \in PaneRecs
    PROVE  /\ Gentle(r, GoLive(r)) /\ Gentle(r, Connect(r)) /\ Gentle(r, ScheduleReconnect(r))
           /\ Connect(r).confirm = None /\ Connect(r).state = r.state
           /\ r.state = "attached" => Gentle(r, OnExit(r))
<1>1. Gentle(r, GoLive(r))
  BY DEF GoLive, Gentle, PaneRecs, Shapes
<1>2. /\ Gentle(r, Connect(r)) /\ Gentle(r, ScheduleReconnect(r))
      /\ Connect(r).confirm = None /\ Connect(r).state = r.state
  BY NoticeGentle DEF Connect, ScheduleReconnect, Gentle, PaneRecs, Shapes
<1>3. ASSUME r.state = "attached" PROVE Gentle(r, OnExit(r))
  <2>. DEFINE t == [r EXCEPT !.state = "exited", !.line = "down"]
  <2>1. t \in PaneRecs /\ Gentle(r, t) /\ t.state = "exited"
    BY <1>3 DEF Gentle, PaneRecs, Shapes, States
  <2>2. OnExit(r) = [ShowNotice(t) EXCEPT !.bar = "exit"]
    BY DEF OnExit
  <2>. HIDE DEF t
  <2>3. Gentle(t, ShowNotice(t))
    BY <2>1, NoticeGentle
  <2>4. Gentle(t, OnExit(r))
    BY <2>2, <2>3 DEF Gentle, PaneRecs, Shapes
  <2>. QED  BY <2>1, <2>4, GentleTwice
<1>. QED  BY <1>1, <1>2, <1>3

\* A pane that is being started goes on showing what it showed.
Begins(r, s) ==
    /\ s \in PaneRecs /\ s.open = r.open /\ s.session = r.session /\ s.state = "spawning"
    /\ s.confirm # None => r.confirm # None /\ s.confirm.label = r.confirm.label /\ s.confirm.of = r.confirm.of

\* beginSpawn marks the pane and keeps what it shows.
LEMMA BeginSpawnBegins ==
    ASSUME NEW r \in PaneRecs
    PROVE  Begins(r, BeginSpawn(r))
<1>. DEFINE c == ClearRecovery(r)
            w == (r.state = "exited")
            t == [c EXCEPT !.wasExited = w, !.state = "spawning"]
<1>1. BeginSpawn(r) = IF r.keep THEN ShowNotice(t) ELSE t
  BY DEF BeginSpawn
<1>2. Gentle(r, c) /\ w \in BOOLEAN
  BY ClearGentle
<1>. HIDE DEF c, w
<1>3. Begins(r, t)
  BY <1>2 DEF Gentle, Begins, PaneRecs, Shapes, States
<1>4. t \in PaneRecs
  BY <1>3 DEF Begins
<1>. HIDE DEF t
<1>5. Gentle(t, ShowNotice(t))
  BY <1>4, NoticeGentle
<1>. QED  BY <1>1, <1>3, <1>5 DEF Gentle, Begins

\* The end of a start, and a start that failed.
LEMMA EndSpawnEnds ==
    ASSUME NEW r \in PaneRecs
    PROVE  /\ EndSpawn(r) \in PaneRecs /\ EndSpawn(r).open = r.open /\ EndSpawn(r).session = r.session
           /\ EndSpawn(r).confirm = r.confirm /\ EndSpawn(r).state # "spawning"
           /\ r.state # "spawning" => EndSpawn(r).state = r.state
<1>. DEFINE st == IF r.state # "spawning" THEN r.state ELSE IF r.wasExited THEN "exited" ELSE "empty"
<1>1. EndSpawn(r) = [r EXCEPT !.keep = FALSE, !.state = st]
  BY DEF EndSpawn
<1>2. st \in States /\ st # "spawning" /\ (r.state # "spawning" => st = r.state) /\ (st = "attached" => st = r.state)
  BY DEF PaneRecs, Shapes, States
<1>. HIDE DEF st
<1>3. EndSpawn(r) \in Shapes /\ EndSpawn(r).state = st /\ EndSpawn(r).bar = r.bar
  BY <1>1, <1>2 DEF PaneRecs, Shapes
<1>4. EndSpawn(r).open = r.open /\ EndSpawn(r).session = r.session /\ EndSpawn(r).confirm = r.confirm
  BY <1>1, <1>2 DEF PaneRecs, Shapes
<1>. QED  BY <1>2, <1>3, <1>4 DEF PaneRecs

\* A start that failed leaves the terminal that was there.
LEMMA SpawnFailedEnds ==
    ASSUME NEW r \in PaneRecs
    PROVE  /\ SpawnFailed(r) \in PaneRecs /\ SpawnFailed(r).open = r.open /\ SpawnFailed(r).session = r.session
           /\ SpawnFailed(r).confirm = None /\ SpawnFailed(r).state # "spawning"
           /\ r.state # "spawning" => SpawnFailed(r).state = r.state
<1>1. Gentle(EndSpawn(r), ShowNotice(EndSpawn(r))) /\ ShowNotice(EndSpawn(r)).confirm = None
      /\ ShowNotice(EndSpawn(r)).state = EndSpawn(r).state
  BY EndSpawnEnds, NoticeGentle
<1>. QED  BY <1>1, EndSpawnEnds DEF SpawnFailed, Gentle

\* renderRecovery takes the pane's terminal away.
LEMMA RecoveryOf ==
    ASSUME NEW r \in PaneRecs
    PROVE  /\ RenderRecovery(r) \in PaneRecs /\ RenderRecovery(r).open = r.open /\ RenderRecovery(r).session = None
           /\ RenderRecovery(r).confirm = r.confirm /\ RenderRecovery(r).state = "missing"
BY DEF RenderRecovery, PaneRecs, Shapes, Names, States

\* A terminal comes into a pane that is open; a closed one takes none.
LEMMA AttachShows ==
    ASSUME NEW r \in PaneRecs, NEW s \in Sessions, NEW known \in BOOLEAN, r.open
    PROVE  /\ Attach(r, s, known) \in PaneRecs /\ Attach(r, s, known).open /\ Attach(r, s, known).session = s
           /\ Attach(r, s, known).confirm = None /\ Attach(r, s, known).state = "attached"
<1>. DEFINE c == ClearRecovery(EndSpawn(r))
            t == [c EXCEPT !.session = s, !.state = "attached", !.known = known, !.wasExited = FALSE, !.bar = "none"]
<1>1. Gentle(EndSpawn(r), c)
  BY EndSpawnEnds, ClearGentle
<1>2. c \in PaneRecs /\ c.open
  BY <1>1, EndSpawnEnds DEF Gentle
<1>3. Attach(r, s, known) = Connect(t)
  BY DEF Attach
<1>. HIDE DEF c
<1>4. t \in PaneRecs /\ t.open /\ t.session = s /\ t.state = "attached"
  <2>1. s \in Names /\ "attached" \in States
    BY DEF Names, States
  <2>2. t \in PaneRecs
    BY <1>2, <2>1 DEF PaneRecs, Shapes
  <2>. QED  BY <1>2, <2>2 DEF PaneRecs, Shapes
<1>. HIDE DEF t
<1>5. Gentle(t, Connect(t)) /\ Connect(t).confirm = None /\ Connect(t).state = t.state
  BY <1>4, LineGentle
<1>. QED  BY <1>3, <1>4, <1>5 DEF Gentle

\* A bar is armed.
LEMMA ConfirmArms ==
    ASSUME NEW r \in PaneRecs, NEW label \in {"Kill", "Run"}, NEW of \in Names
    PROVE  /\ ConfirmAction(r, label, of) \in PaneRecs
           /\ ConfirmAction(r, label, of).open = r.open /\ ConfirmAction(r, label, of).session = r.session
           /\ ConfirmAction(r, label, of).state = r.state
           /\ ConfirmAction(r, label, of).confirm = [label |-> label, of |-> of, busy |-> FALSE]
<1>. DEFINE c == CancelConfirmation(r)
            k == [label |-> label, of |-> of, busy |-> FALSE]
<1>1. ConfirmAction(r, label, of) = [c EXCEPT !.timer = FALSE, !.bar = "confirm", !.confirm = k]
  BY DEF ConfirmAction
<1>2. k \in Confirms
  BY DEF Confirms
<1>3. Gentle(r, c) /\ c.state = r.state
  BY CancelGentle DEF CancelConfirmation, PaneRecs, Shapes
<1>. HIDE DEF c, k
<1>4. c \in PaneRecs /\ c.open = r.open /\ c.session = r.session
  BY <1>3 DEF Gentle
<1>5. ConfirmAction(r, label, of) \in PaneRecs
  BY <1>1, <1>2, <1>4 DEF PaneRecs, Shapes
<1>6. ConfirmAction(r, label, of).confirm = k
  BY <1>1, <1>4 DEF PaneRecs, Shapes
<1>7. ConfirmAction(r, label, of).open = c.open /\ ConfirmAction(r, label, of).session = c.session
      /\ ConfirmAction(r, label, of).state = c.state
  BY <1>1, <1>4 DEF PaneRecs, Shapes
<1>. QED  BY <1>3, <1>4, <1>5, <1>6, <1>7 DEF k

-----------------------------------------------------------------------------
(* What a step has to keep. *)

Named == \A j \in jobs' \ jobs : j.kind = "kill" => j.session = pane[j.pane].confirm.of
Kept == \A p \in Panes : pane[p].open /\ pane[p].state = "attached" /\ pane'[p].open =>
            pane'[p].session = pane[p].session /\ (pane'[p].state = "spawning" => queue' # queue)
Good == IInv' /\ Named /\ Kept

\* A confirmation that is armed was armed before, for the same terminal.
Follows(r, s) ==
    s.confirm # None => /\ r.confirm # None /\ s.confirm.label = r.confirm.label
                        /\ s.confirm.of = r.confirm.of /\ s.session = r.session

\* Panes whose confirmations follow from those before stay sound.
LEMMA PanesKeep ==
    ASSUME PaneInv, pane' \in [Panes -> PaneRecs], unborn' \subseteq unborn,
           focused' \in Panes,
           \A p \in Panes : Follows(pane[p], pane'[p]),
           \A p \in Panes : pane'[p].confirm # None => p = focused',
           \A p \in Panes : pane'[p].session = pane[p].session \/ pane'[p].session \notin unborn'
    PROVE  PaneInv'
BY DEF PaneInv, Shows, Follows

\* Starts that are under way stay sound when no start is added and their panes still wait.
LEMMA JobsKeep ==
    ASSUME JobsInv, unborn' \subseteq unborn, \A j \in jobs' \ jobs : Sound(j)' /\ j.kind # "spawn",
           \A i \in jobs' \cap jobs : i.kind = "spawn" /\ pane'[i.pane].open =>
               pane[i.pane].open /\ (pane[i.pane].state = "spawning" => pane'[i.pane].state = "spawning")
    PROVE  JobsInv'
<1>1. \A j \in jobs : Sound(j) => Sound(j)'
  BY DEF Sound
<1>2. \A j \in jobs' : Sound(j)' /\ Waits(j)'
  BY <1>1 DEF JobsInv, Waits
<1>3. \A i, j \in Of("spawn")' : i # j /\ i.pane = j.pane => ~ pane'[i.pane].open
  BY DEF JobsInv, Of
<1>. QED  BY <1>2, <1>3 DEF JobsInv

\* Doing nothing is gentle.
LEMMA GentleSelf == \A r \in PaneRecs : Gentle(r, r)
BY DEF Gentle

\* Panes that are treated gently, and requests that are no starts.
LEMMA QuietKeeps ==
    ASSUME IInv, pane' \in [Panes -> PaneRecs], \A p \in Panes : Gentle(pane[p], pane'[p]),
           focused' = focused, OwnersInv', unborn' \subseteq unborn,
           \A j \in jobs' \ jobs : Sound(j)' /\ j.kind # "spawn"
    PROVE  IInv' /\ Kept
<1>. USE DEF IInv
<1>1. PaneInv'
  <2>1. \A p \in Panes : Follows(pane[p], pane'[p]) /\ pane'[p].session = pane[p].session
    BY DEF Gentle, Follows
  <2>2. \A p \in Panes : pane'[p].confirm # None => p = focused
    BY DEF Gentle, PaneInv, Shows
  <2>3. focused' \in Panes
    BY DEF PaneInv
  <2>. QED  BY <2>1, <2>2, <2>3, PanesKeep
<1>2. JobsInv'
  <2>1. \A i \in jobs : i.kind = "spawn" => i.pane \in Panes
    BY DEF JobsInv, Sound
  <2>2. \A i \in jobs' \cap jobs : i.kind = "spawn" /\ pane'[i.pane].open =>
               pane[i.pane].open /\ (pane[i.pane].state = "spawning" => pane'[i.pane].state = "spawning")
    BY <2>1 DEF Gentle
  <2>. QED  BY <2>2, JobsKeep
<1>3. Kept
  BY DEF Kept, Gentle
<1>. QED  BY <1>1, <1>2, <1>3

\* The same where no kill is added either.
LEMMA QuietGood ==
    ASSUME IInv, pane' \in [Panes -> PaneRecs], \A p \in Panes : Gentle(pane[p], pane'[p]),
           focused' = focused, OwnersInv', unborn' \subseteq unborn,
           \A j \in jobs' \ jobs : Sound(j)' /\ j.kind \notin {"spawn", "kill"}
    PROVE  Good
BY QuietKeeps DEF Good, Named

\* Nothing but the requests and the owners change.
LEMMA StillGood ==
    ASSUME IInv, UNCHANGED <<pane, focused>>, OwnersInv', unborn' \subseteq unborn,
           \A j \in jobs' \ jobs : Sound(j)' /\ j.kind \notin {"spawn", "kill"}
    PROVE  Good
<1>1. pane' \in [Panes -> PaneRecs] /\ \A p \in Panes : Gentle(pane[p], pane'[p])
  BY GentleSelf DEF IInv, PaneInv
<1>. QED  BY <1>1, QuietGood

\* One pane is treated gently.
LEMMA OneGood ==
    ASSUME IInv, NEW p \in Panes, NEW r, Gentle(pane[p], r), pane' = [pane EXCEPT ![p] = r],
           UNCHANGED <<focused, jobs, queue, backend, owners>>
    PROVE  Good
<1>1. pane' \in [Panes -> PaneRecs] /\ \A x \in Panes : Gentle(pane[x], pane'[x])
  BY GentleSelf DEF IInv, PaneInv, Gentle
<1>2. OwnersInv' /\ unborn' \subseteq unborn
  BY DEF IInv, OwnersInv, backend, owners
<1>. QED  BY <1>1, <1>2, QuietGood

\* Leaving a pane drops its confirmation and leaves the panes as they are.
LEMMA UnfocusedCalm ==
    ASSUME PaneInv, NEW q \in Panes
    PROVE  /\ Unfocused(pane, q) \in [Panes -> PaneRecs]
           /\ \A p \in Panes : Gentle(pane[p], Unfocused(pane, q)[p])
           /\ \A p \in Panes : Unfocused(pane, q)[p].confirm # None => p = q
<1>1. CASE q = focused
  BY <1>1, GentleSelf DEF PaneInv, Shows, Unfocused
<1>2. CASE q # focused
  <2>1. Unfocused(pane, q) = [pane EXCEPT ![focused] = CancelConfirmation(pane[focused])]
    BY <1>2 DEF Unfocused
  <2>2. Gentle(pane[focused], CancelConfirmation(pane[focused])) /\ CancelConfirmation(pane[focused]).confirm = None
    BY CancelGentle DEF PaneInv
  <2>3. \A p \in Panes : p # focused => pane[p].confirm = None
    BY DEF PaneInv, Shows
  <2>. QED  BY <1>2, <2>1, <2>2, <2>3, GentleSelf DEF PaneInv, Gentle
<1>. QED  BY <1>1, <1>2

\* What is left of a pane that was closed.
LEMMA DisposedIs ==
    ASSUME NEW r \in PaneRecs
    PROVE  /\ Disposed(r) \in PaneRecs /\ ~ Disposed(r).open /\ Disposed(r).session = r.session
           /\ Disposed(r).confirm = None
<1>. DEFINE c == CancelConfirmation(r)
<1>1. Gentle(r, c) /\ c.confirm = None
  BY CancelGentle
<1>2. Disposed(r) = [c EXCEPT !.open = FALSE, !.line = "down", !.timer = FALSE]
  BY DEF Disposed
<1>. HIDE DEF c
<1>. QED  BY <1>1, <1>2 DEF Gentle, PaneRecs, Shapes

\* A closed pane that is used again belongs to no request.
LEMMA FreeIsUnused ==
    ASSUME NEW p \in Free
    PROVE  p \in Panes /\ p # focused /\ ~ pane[p].open /\ \A j \in jobs : j.pane # p
BY DEF Free, Open

\* A pane closes, and another one gets the keyboard.
LEMMA CloseGood ==
    ASSUME IInv, NEW p \in Panes, CloseIfOpen(p), OwnersInv', unborn' \subseteq unborn,
           \A j \in jobs' \ jobs : Sound(j)' /\ j.kind \notin {"spawn", "kill"}
    PROVE  Good
<1>1. CASE p \notin Open
  BY <1>1, StillGood DEF CloseIfOpen
<1>2. CASE p \in Open
  <2>1. PICK q \in After(p) : Closed(p, q)
    BY <1>2 DEF CloseIfOpen
  <2>2. q \in Panes /\ q # p /\ (Open = {p} => q \in Free) /\ (Open # {p} => q \in Open)
    BY <1>2, <2>1 DEF After, Free, Open
  <2>. DEFINE f == Unfocused(pane, q)
  <2>3. /\ f \in [Panes -> PaneRecs] /\ \A x \in Panes : Gentle(pane[x], f[x])
        /\ \A x \in Panes : f[x].confirm # None => x = q
    BY <2>2, UnfocusedCalm DEF IInv
  <2>. DEFINE d == IF <<"focus", p>> \in Queued THEN Disposed(f[p]) ELSE Absent
  <2>4. /\ pane' = [f EXCEPT ![p] = d, ![q] = IF Open = {p} THEN Fresh ELSE f[q]]
        /\ focused' = q
    BY <2>1, <2>2 DEF Closed
  <2>. HIDE DEF f
  <2>6. ~ Absent.open /\ Absent.confirm = None /\ Absent.session = None
        /\ Fresh.open /\ Fresh.confirm = None /\ Fresh.session = None
    BY DEF Absent, Fresh
  <2>17. d \in PaneRecs /\ ~ d.open /\ d.confirm = None /\ d.session \in {None, pane[p].session}
    <3>1. f[p] \in PaneRecs /\ f[p].session = pane[p].session
      BY <2>3 DEF Gentle
    <3>. QED  BY <2>6, <3>1, DisposedIs, FreshIsOne
  <2>. HIDE DEF d
  <2>5. /\ pane' \in [Panes -> PaneRecs] /\ pane'[p] = d
        /\ pane'[q] = IF Open = {p} THEN Fresh ELSE f[q]
        /\ \A x \in Panes : x # p /\ x # q => pane'[x] = f[x]
    BY <2>2, <2>3, <2>4, <2>17, FreshIsOne
  <2>7. None \notin unborn /\ None \notin unborn'
    BY DeskAssumption DEF IInv, OwnersInv
  <2>8. \A x \in Panes : Follows(pane[x], pane'[x])
    BY <2>3, <2>5, <2>6, <2>17 DEF Follows, Gentle
  <2>9. \A x \in Panes : pane'[x].confirm # None => x = focused'
    BY <2>3, <2>4, <2>5, <2>6, <2>17
  <2>10. \A x \in Panes : pane'[x].session = pane[x].session \/ pane'[x].session \notin unborn'
    BY <2>3, <2>5, <2>6, <2>7, <2>17 DEF Gentle
  <2>12. PaneInv'
    BY <2>2, <2>4, <2>5, <2>8, <2>9, <2>10, PanesKeep DEF IInv
  <2>13. \A i \in jobs' \cap jobs : i.kind = "spawn" /\ pane'[i.pane].open =>
               pane[i.pane].open /\ (pane[i.pane].state = "spawning" => pane'[i.pane].state = "spawning")
    <3>. SUFFICES ASSUME NEW i \in jobs, i.kind = "spawn", pane'[i.pane].open
                  PROVE  pane[i.pane].open /\ (pane[i.pane].state = "spawning" => pane'[i.pane].state = "spawning")
      OBVIOUS
    <3>1. i.pane \in Panes /\ i.pane # p
      BY <2>5, <2>17 DEF IInv, JobsInv, Sound
    <3>2. i.pane = q => Open # {p}
      BY <2>2, FreeIsUnused
    <3>3. pane'[i.pane] = f[i.pane]
      BY <2>5, <3>1, <3>2
    <3>. QED  BY <2>3, <3>1, <3>3 DEF Gentle
  <2>14. JobsInv'
    BY <2>13, JobsKeep DEF IInv
  <2>15. Kept
    <3>. SUFFICES ASSUME NEW x \in Panes, pane[x].open, pane[x].state = "attached", pane'[x].open
                  PROVE  pane'[x].session = pane[x].session /\ pane'[x].state # "spawning"
      BY DEF Kept
    <3>1. x # p /\ (x = q => Open # {p})
      BY <2>2, <2>5, <2>17 DEF Open
    <3>2. pane'[x] = f[x]
      BY <2>5, <3>1
    <3>. QED  BY <2>3, <3>2 DEF Gentle
  <2>16. Named
    BY DEF Named
  <2>. QED  BY <2>12, <2>14, <2>15, <2>16 DEF Good, IInv
<1>. QED  BY <1>1, <1>2

\* The request of a start.
LEMMA SpawnJobIs ==
    ASSUME NEW p \in Panes, NEW known \in BOOLEAN, NEW back \in BOOLEAN, NEW stage \in {"asked", "restore"}
    PROVE  /\ SpawnJob(p, known, back, stage) \in JobRecs
           /\ SpawnJob(p, known, back, stage).kind = "spawn"
           /\ SpawnJob(p, known, back, stage).pane = p
           /\ SpawnJob(p, known, back, stage).stage = stage
<1>. DEFINE b == Job("spawn", p, None, stage)
<1>1. b \in JobRecs /\ b.kind = "spawn" /\ b.pane = p /\ b.stage = stage
  BY DEF Job, JobRecs, Names, Stages
<1>2. SpawnJob(p, known, back, stage) = [b EXCEPT !.known = known, !.back = back]
  BY DEF SpawnJob
<1>. HIDE DEF b
<1>. QED  BY <1>1, <1>2 DEF JobRecs

\* A start in a pane nobody starts, which waits for its answer from now on.
LEMMA StartGood ==
    ASSUME IInv, NEW p \in Panes, NEW f \in [Panes -> PaneRecs], NEW g \in Panes,
           NEW known \in BOOLEAN, NEW back \in BOOLEAN, NEW stage \in {"asked", "restore"},
           Spawn(f, p, known, back, stage),
           \A x \in Panes : x # p => Gentle(pane[x], f[x]),
           \/ Gentle(pane[p], f[p])
           \/ f[p] = Fresh /\ ~ pane[p].open /\ \A j \in jobs : j.pane # p,
           \A x \in Panes : f[x].confirm # None => x = g,
           focused' = g,
           pane[p].open /\ pane[p].state = "attached" => queue' # queue,
           UNCHANGED unborn, OwnersInv'
    PROVE  Good
<1>1. Fresh.open /\ Fresh.confirm = None /\ Fresh.session = None /\ Fresh.state = "empty"
  BY DEF Fresh
<1>2. None \notin unborn
  BY DeskAssumption DEF IInv, OwnersInv
<1>3. Begins(f[p], BeginSpawn(f[p]))
  BY BeginSpawnBegins
<1>. DEFINE new == SpawnJob(p, known, back, stage)
<1>4. \/ Pending(f[p]) /\ pane' = f /\ jobs' = jobs
      \/ /\ ~ Pending(f[p]) /\ jobs' = jobs \cup {new}
         /\ pane' = [f EXCEPT ![p] = BeginSpawn(f[p])]
  BY DEF Spawn, Ask
<1>5. \A x \in Panes : x # p => pane'[x] = f[x]
  BY <1>4
<1>6. pane'[p] = IF Pending(f[p]) THEN f[p] ELSE BeginSpawn(f[p])
  BY <1>4
<1>7. pane' \in [Panes -> PaneRecs]
  BY <1>3, <1>4 DEF Begins
<1>8. PaneInv'
  <2>1. \A x \in Panes : Follows(pane[x], pane'[x])
    BY <1>1, <1>3, <1>5, <1>6 DEF Follows, Gentle, Begins
  <2>2. \A x \in Panes : pane'[x].confirm # None => x = focused'
    BY <1>3, <1>5, <1>6 DEF Begins
  <2>3. \A x \in Panes : pane'[x].session = pane[x].session \/ pane'[x].session \notin unborn'
    BY <1>1, <1>2, <1>3, <1>5, <1>6 DEF Gentle, Begins
  <2>. QED  BY <1>7, <2>1, <2>2, <2>3, PanesKeep DEF IInv
<1>9. \A i \in jobs : i.kind = "spawn" /\ pane'[i.pane].open =>
         pane[i.pane].open /\ (pane[i.pane].state = "spawning" => pane'[i.pane].state = "spawning")
  <2>. SUFFICES ASSUME NEW i \in jobs, i.kind = "spawn", pane'[i.pane].open
                PROVE  pane[i.pane].open /\ (pane[i.pane].state = "spawning" => pane'[i.pane].state = "spawning")
    OBVIOUS
  <2>1. i.pane \in Panes
    BY DEF IInv, JobsInv, Sound
  <2>. QED  BY <1>3, <1>5, <1>6, <2>1 DEF Gentle, Begins
<1>10. JobsInv'
  <2>1. CASE Pending(f[p])
    BY <1>4, <1>9, <2>1, JobsKeep DEF IInv
  <2>2. CASE ~ Pending(f[p])
    <3>1. Sound(new)' /\ new.kind = "spawn" /\ new.pane = p
      BY SpawnJobIs DEF Sound
    <3>. HIDE DEF new
    <3>2. pane'[p].open => pane'[p].state = "spawning"
      BY <1>3, <1>6, <2>2 DEF Begins
    <3>3. \A i \in jobs : i.kind = "spawn" /\ i.pane = p => ~ pane'[p].open
      <4>. SUFFICES ASSUME NEW i \in jobs, i.kind = "spawn", i.pane = p, pane'[p].open PROVE FALSE
        OBVIOUS
      <4>1. Gentle(pane[p], f[p]) /\ pane[p].open
        BY <1>9
      <4>2. pane[p].state = "spawning"
        BY <4>1 DEF IInv, JobsInv, Waits
      <4>. QED  BY <2>2, <4>1, <4>2 DEF Gentle, Pending
    <3>4. \A i \in jobs : Sound(i)' /\ Waits(i)'
      BY <1>9 DEF IInv, JobsInv, Sound, Waits
    <3>5. \A j \in jobs' : Sound(j)' /\ Waits(j)'
      BY <1>4, <2>2, <3>1, <3>2, <3>4 DEF Waits
    <3>6. \A i, j \in Of("spawn")' : i # j /\ i.pane = j.pane => ~ pane'[i.pane].open
      <4>1. \A i, j \in jobs : i.kind = "spawn" /\ j.kind = "spawn" /\ i # j /\ i.pane = j.pane => ~ pane'[i.pane].open
        BY <1>9 DEF IInv, JobsInv, Of
      <4>. QED  BY <1>4, <2>2, <3>1, <3>3, <4>1 DEF Of
    <3>. QED  BY <3>5, <3>6 DEF JobsInv
  <2>. QED  BY <2>1, <2>2
<1>11. Named
  <2>1. new.kind = "spawn"
    BY SpawnJobIs
  <2>. HIDE DEF new
  <2>. QED  BY <1>4, <2>1 DEF Named
<1>12. Kept
  <2>. SUFFICES ASSUME NEW x \in Panes, pane[x].open, pane[x].state = "attached"
                PROVE  pane'[x].session = pane[x].session /\ (pane'[x].state = "spawning" => queue' # queue)
    BY DEF Kept
  <2>. QED  BY <1>3, <1>5, <1>6 DEF Gentle, Begins
<1>. QED  BY <1>8, <1>10, <1>11, <1>12 DEF Good, IInv

\* Where a new terminal goes: the focused pane, or a fresh one.
LEMMA PlacedCalm ==
    ASSUME IInv, NEW p, p = focused \/ p \in Free
    PROVE  /\ p \in Panes /\ Placed(p) \in [Panes -> PaneRecs]
           /\ \A x \in Panes : x # p => Gentle(pane[x], Placed(p)[x])
           /\ \A x \in Panes : Placed(p)[x].confirm # None => x = p
           /\ \/ p = focused /\ Gentle(pane[p], Placed(p)[p])
              \/ Placed(p)[p] = Fresh /\ ~ pane[p].open /\ \A j \in jobs : j.pane # p
<1>. DEFINE u == Unfocused(pane, p)
<1>1. p \in Panes
  BY FreeIsUnused DEF IInv, PaneInv
<1>2. /\ u \in [Panes -> PaneRecs] /\ \A x \in Panes : Gentle(pane[x], u[x])
      /\ \A x \in Panes : u[x].confirm # None => x = p
  BY <1>1, UnfocusedCalm DEF IInv
<1>3. Placed(p) = [u EXCEPT ![p] = IF p = focused THEN u[p] ELSE Fresh]
  BY DEF Placed
<1>. HIDE DEF u
<1>4. Placed(p) \in [Panes -> PaneRecs] /\ Placed(p)[p] = (IF p = focused THEN u[p] ELSE Fresh)
      /\ \A x \in Panes : x # p => Placed(p)[x] = u[x]
  BY <1>1, <1>2, <1>3, FreshIsOne
<1>5. Fresh.confirm = None
  BY DEF Fresh
<1>. QED  BY <1>1, <1>2, <1>4, <1>5, FreeIsUnused

\* A terminal that was started is shown, in a pane that shows none.
LEMMA ShowGood ==
    ASSUME IInv, NEW p, Target(p), NEW s \in Sessions \ unborn,
           pane' = [Placed(p) EXCEPT ![p] = Attach(Placed(p)[p], s, FALSE)], focused' = p,
           UNCHANGED unborn, OwnersInv', jobs' \subseteq jobs
    PROVE  Good
<1>0. p = focused \/ p \in Free
  BY DEF Target
<1>1. /\ p \in Panes /\ Placed(p) \in [Panes -> PaneRecs]
      /\ \A x \in Panes : x # p => Gentle(pane[x], Placed(p)[x])
      /\ \A x \in Panes : Placed(p)[x].confirm # None => x = p
  BY <1>0, PlacedCalm
<1>2. pane[p].state \notin {"attached", "spawning"} \/ (~ pane[p].open /\ \A j \in jobs : j.pane # p)
  <2>1. CASE CanReplace(pane[focused])
    BY <2>1 DEF Target, CanReplace
  <2>2. CASE ~ CanReplace(pane[focused])
    <3>1. p \in Free
      BY <2>2 DEF Target
    <3>. QED  BY <3>1, FreeIsUnused
  <2>. QED  BY <2>1, <2>2
<1>3. PICK r \in PaneRecs : /\ pane' = [Placed(p) EXCEPT ![p] = r] /\ r.open = Placed(p)[p].open
                            /\ IF r.open THEN r.session = s /\ r.confirm = None ELSE r = Placed(p)[p]
  <2>1. Placed(p)[p] \in PaneRecs
    BY <1>1
  <2>. DEFINE o == Placed(p)[p]
              r == Attach(o, s, FALSE)
  <2>2. /\ r \in PaneRecs /\ r.open = o.open
        /\ IF r.open THEN r.session = s /\ r.confirm = None ELSE r = o
    <3>1. CASE o.open
      <4>1. r \in PaneRecs /\ r.open /\ r.session = s /\ r.confirm = None
        BY <2>1, <3>1, AttachShows
      <4>2. r.open \in BOOLEAN /\ o.open \in BOOLEAN
        BY <2>1, <4>1 DEF PaneRecs, Shapes
      <4>. QED  BY <3>1, <4>1, <4>2
    <3>2. CASE ~ o.open
      BY <2>1, <3>2 DEF Attach
    <3>. QED  BY <3>1, <3>2
  <2>. HIDE DEF r
  <2>. QED  BY <2>2 DEF r
<1>4. pane' \in [Panes -> PaneRecs] /\ pane'[p] = r /\ \A x \in Panes : x # p => pane'[x] = Placed(p)[x]
  BY <1>1, <1>3
<1>8. \/ p = focused /\ Gentle(pane[p], Placed(p)[p])
      \/ Placed(p)[p] = Fresh /\ ~ pane[p].open /\ \A j \in jobs : j.pane # p
  BY <1>0, PlacedCalm
<1>9. Fresh.open /\ Fresh.confirm = None
  BY DEF Fresh
<1>10. r.open => pane'[p].session = s
  BY <1>3, <1>4
<1>11. ~ r.open => Gentle(pane[p], pane'[p])
  BY <1>3, <1>4, <1>8, <1>9
<1>5. PaneInv'
  <2>1. \A x \in Panes : pane'[x].confirm # None => x = p
    BY <1>1, <1>3, <1>4
  <2>2. \A x \in Panes : pane'[x].session = pane[x].session \/ pane'[x].session \notin unborn'
    BY <1>1, <1>4, <1>10, <1>11 DEF Gentle
  <2>3. \A x \in Panes : Follows(pane[x], pane'[x])
    BY <1>3, <1>4, <1>11, <2>1 DEF Follows, Gentle
  <2>. QED  BY <1>1, <1>3, <1>4, <2>1, <2>2, <2>3, PanesKeep DEF IInv
<1>6. JobsInv'
  <2>1. \A i \in jobs : i.kind = "spawn" /\ pane'[i.pane].open =>
               pane[i.pane].open /\ (pane[i.pane].state = "spawning" => pane'[i.pane].state = "spawning")
    <3>. SUFFICES ASSUME NEW i \in jobs, i.kind = "spawn", pane'[i.pane].open
                  PROVE  pane[i.pane].open /\ (pane[i.pane].state = "spawning" => pane'[i.pane].state = "spawning")
      OBVIOUS
    <3>1. i.pane \in Panes
      BY DEF IInv, JobsInv, Sound
    <3>2. CASE i.pane = p
      BY <1>2, <1>3, <1>4, <1>8, <3>2 DEF Gentle
    <3>3. CASE i.pane # p
      BY <1>1, <1>4, <3>1, <3>3 DEF Gentle
    <3>. QED  BY <3>2, <3>3
  <2>. QED  BY <2>1, JobsKeep DEF IInv
<1>7. Kept
  BY <1>1, <1>2, <1>4 DEF Kept, Gentle
<1>. QED  BY <1>5, <1>6, <1>7 DEF Good, Named, IInv

\* The answer to a start: its pane was waiting for it, or is closed.
LEMMA EndedGood ==
    ASSUME IInv, NEW j \in jobs, j.kind = "spawn", NEW r \in PaneRecs, pane' = [pane EXCEPT ![j.pane] = r],
           r.open = pane[j.pane].open, r.confirm = None \/ r = pane[j.pane],
           r.session = pane[j.pane].session \/ r.session \notin unborn',
           jobs' = jobs \ {j}, focused' = focused, OwnersInv', unborn' \subseteq unborn
    PROVE  Good
<1>1. j.pane \in Panes /\ (pane[j.pane].open => pane[j.pane].state = "spawning")
  BY DEF IInv, JobsInv, Sound, Waits
<1>2. pane' \in [Panes -> PaneRecs] /\ pane'[j.pane] = r /\ \A x \in Panes : x # j.pane => pane'[x] = pane[x]
  BY <1>1 DEF IInv, PaneInv
<1>3. PaneInv'
  <2>1. \A x \in Panes : Follows(pane[x], pane'[x])
    BY <1>2 DEF Follows
  <2>2. \A x \in Panes : pane'[x].confirm # None => x = focused'
    BY <1>2 DEF IInv, PaneInv, Shows
  <2>3. focused' \in Panes
    BY DEF IInv, PaneInv
  <2>. QED  BY <1>2, <2>1, <2>2, <2>3, PanesKeep DEF IInv
<1>4. JobsInv'
  <2>1. \A i \in jobs' : i.kind = "spawn" /\ pane'[i.pane].open => i.pane # j.pane
    BY <1>2 DEF IInv, JobsInv, Of
  <2>2. \A i \in jobs' : i.kind = "spawn" => i.pane \in Panes
    BY DEF IInv, JobsInv, Sound
  <2>3. \A i \in jobs' \cap jobs : i.kind = "spawn" /\ pane'[i.pane].open =>
               pane[i.pane].open /\ (pane[i.pane].state = "spawning" => pane'[i.pane].state = "spawning")
    BY <1>2, <2>1, <2>2
  <2>. QED  BY <2>3, JobsKeep DEF IInv
<1>5. Kept
  BY <1>1, <1>2 DEF Kept
<1>. QED  BY <1>3, <1>4, <1>5 DEF Good, Named, IInv

\* A bar is armed on the pane the user is in.
LEMMA ArmGood ==
    ASSUME IInv, NEW label \in {"Kill", "Run"}, NEW of \in Names, label = "Kill" => of = pane[focused].session,
           pane' = [pane EXCEPT ![focused] = ConfirmAction(pane[focused], label, of)],
           UNCHANGED <<focused, jobs, queue, backend, owners>>
    PROVE  Good
<1>1. focused \in Panes /\ pane[focused] \in PaneRecs
  BY DEF IInv, PaneInv
<1>2. PICK r \in PaneRecs : /\ pane' = [pane EXCEPT ![focused] = r] /\ r.open = pane[focused].open
                            /\ r.session = pane[focused].session /\ r.state = pane[focused].state
                            /\ r.confirm = [label |-> label, of |-> of, busy |-> FALSE]
  BY <1>1, ConfirmArms
<1>3. pane' \in [Panes -> PaneRecs] /\ pane'[focused] = r /\ \A x \in Panes : x # focused => pane'[x] = pane[x]
  BY <1>1, <1>2 DEF IInv, PaneInv
<1>4. \A x \in Panes : /\ pane'[x].open = pane[x].open /\ pane'[x].state = pane[x].state
                       /\ pane'[x].session = pane[x].session
  BY <1>2, <1>3
<1>5. PaneInv'
  <2>1. r.confirm.label = label /\ r.confirm.of = of
    BY <1>2
  <2>2. \A x \in Panes : Shows(x)'
    BY <1>2, <1>3, <1>4, <2>1 DEF IInv, PaneInv, Shows, backend
  <2>. QED  BY <1>1, <1>3, <1>4, <2>2 DEF IInv, PaneInv
<1>6. JobsInv'
  <2>1. \A j \in jobs : j.kind = "spawn" => j.pane \in Panes
    BY DEF IInv, JobsInv, Sound
  <2>. QED  BY <1>4, <2>1, JobsKeep DEF IInv, backend
<1>7. Kept
  BY <1>4, <1>3, <1>2 DEF Kept, IInv, JobsInv
<1>8. OwnersInv'
  BY DEF IInv, OwnersInv, backend, owners
<1>. QED  BY <1>5, <1>6, <1>7, <1>8 DEF Good, Named, IInv

-----------------------------------------------------------------------------
(* The requests and the owners. *)

\* The fields of a request.
LEMMA JobIs ==
    ASSUME NEW kind \in {"detach", "kill", "drop", "move", "typed", "boot"}, NEW p \in Panes \cup {None},
           NEW s \in Names, NEW stage \in Stages
    PROVE  /\ Job(kind, p, s, stage) \in JobRecs /\ Job(kind, p, s, stage).kind = kind
           /\ Job(kind, p, s, stage).pane = p /\ Job(kind, p, s, stage).session = s
           /\ Job(kind, p, s, stage).stage = stage
BY DEF Job, JobRecs

\* A request that is neither a start nor a kill.
LEMMA AskSound ==
    ASSUME NEW kind \in {"detach", "drop", "move", "typed", "boot"}, NEW p \in Panes \cup {None},
           NEW s \in Names, NEW stage \in Stages, Ask(Job(kind, p, s, stage)),
           kind = "detach" => p \in Panes, kind = "move" => s \in Sessions \ unborn'
    PROVE  \A j \in jobs' \ jobs : Sound(j)' /\ j.kind \notin {"spawn", "kill"}
<1>. DEFINE k == Job(kind, p, s, stage)
<1>1. k \in JobRecs /\ k.kind = kind /\ k.pane = p /\ k.session = s /\ k.stage = stage
  BY JobIs
<1>2. jobs' = jobs \cup {k}
  BY DEF Ask
<1>. HIDE DEF k
<1>. QED  BY <1>1, <1>2 DEF Sound

\* A request that goes on is about what it was about.
LEMMA OnwardSound ==
    ASSUME NEW j, Sound(j), j.kind \notin {"spawn", "kill"}, NEW stage \in Stages, Onward(j, stage),
           unborn' \subseteq unborn
    PROVE  \A k \in jobs' \ jobs : Sound(k)' /\ k.kind \notin {"spawn", "kill"}
<1>. DEFINE k == [j EXCEPT !.stage = stage]
<1>1. k \in JobRecs /\ k.kind = j.kind /\ k.pane = j.pane /\ k.session = j.session
  BY DEF Sound, JobRecs
<1>2. jobs' = (jobs \ {j}) \cup {k}
  BY DEF Onward
<1>. HIDE DEF k
<1>. QED  BY <1>1, <1>2 DEF Sound

\* The owners' sets when a terminal ends: nothing is owned anew.
LEMMA OwnersStill ==
    ASSUME OwnersInv, UNCHANGED unborn, alive' \subseteq alive, UNCHANGED queue, UNCHANGED owners
    PROVE  OwnersInv'
BY DEF OwnersInv, owners

\* forgetSession takes a terminal out of both sets.
LEMMA ForgetKeeps ==
    ASSUME OwnersInv, NEW s, ForgetSession(s), UNCHANGED unborn, alive' \subseteq alive, UNCHANGED queue
    PROVE  OwnersInv'
BY DEF OwnersInv, ForgetSession

\* ownSession puts a terminal that was started into one of the sets.
LEMMA OwnKeeps ==
    ASSUME OwnersInv, NEW s \in Names \ unborn', OwnSession(s), unborn' \subseteq unborn,
           alive' \subseteq Sessions \ unborn', UNCHANGED queue
    PROVE  OwnersInv'
BY DEF OwnersInv, OwnSession

-----------------------------------------------------------------------------
(* The actions. *)

\* A new terminal goes to the focused pane or to one split off it.
LEMMA FillGood == ASSUME IInv, NEW known \in BOOLEAN, Fill(known) PROVE Good
<1>1. PICK p \in Panes : /\ Target(p) /\ Spawn(Placed(p), p, known, FALSE, "asked") /\ focused' = p
                        /\ UNCHANGED <<queue, backend, owners>>
  BY DEF Fill
<1>2. p = focused \/ p \in Free
  BY <1>1 DEF Target
<1>3. ~ (pane[p].open /\ pane[p].state = "attached")
  BY <1>1, FreeIsUnused DEF Target, CanReplace
<1>4. OwnersInv' /\ UNCHANGED unborn
  BY <1>1 DEF IInv, OwnersInv, backend, owners
<1>5. /\ p \in Panes /\ Placed(p) \in [Panes -> PaneRecs]
      /\ \A x \in Panes : x # p => Gentle(pane[x], Placed(p)[x])
      /\ \A x \in Panes : Placed(p)[x].confirm # None => x = p
      /\ \/ Gentle(pane[p], Placed(p)[p])
         \/ Placed(p)[p] = Fresh /\ ~ pane[p].open /\ \A j \in jobs : j.pane # p
  BY <1>2, PlacedCalm
<1>6. Spawn(Placed(p), p, known, FALSE, "asked") /\ focused' = p
  BY <1>1
<1>. DEFINE f == Placed(p)
<1>. HIDE DEF f
<1>7. /\ p \in Panes /\ f \in [Panes -> PaneRecs]
      /\ \A x \in Panes : x # p => Gentle(pane[x], f[x])
      /\ \A x \in Panes : f[x].confirm # None => x = p
      /\ \/ Gentle(pane[p], f[p])
         \/ f[p] = Fresh /\ ~ pane[p].open /\ \A j \in jobs : j.pane # p
      /\ Spawn(f, p, known, FALSE, "asked")
  BY <1>5, <1>6 DEF f
<1>. QED  BY <1>3, <1>4, <1>6, <1>7, StartGood

\* A split starts a terminal in a pane of its own.
LEMMA SplitGood == ASSUME IInv, SplitFocused PROVE Good
<1>1. PICK p \in Free : /\ Spawn(Placed(p), p, FALSE, FALSE, "asked") /\ focused' = p
                       /\ UNCHANGED <<queue, backend, owners>>
  BY DEF SplitFocused
<1>2. ~ pane[p].open
  BY FreeIsUnused
<1>3. OwnersInv' /\ UNCHANGED unborn
  BY <1>1 DEF IInv, OwnersInv, backend, owners
<1>. DEFINE f == Placed(p)
<1>4. /\ p \in Panes /\ f \in [Panes -> PaneRecs]
      /\ \A x \in Panes : x # p => Gentle(pane[x], f[x])
      /\ \A x \in Panes : f[x].confirm # None => x = p
      /\ \/ Gentle(pane[p], f[p])
         \/ f[p] = Fresh /\ ~ pane[p].open /\ \A j \in jobs : j.pane # p
      /\ Spawn(f, p, FALSE, FALSE, "asked") /\ focused' = p
  BY <1>1, PlacedCalm
<1>. HIDE DEF f
<1>. QED  BY <1>2, <1>3, <1>4, StartGood

\* The same launch again, in a pane whose terminal is gone.
LEMMA AgainGood ==
    ASSUME IInv, NEW p \in Panes, NEW f \in [Panes -> PaneRecs], NEW known \in BOOLEAN, NEW back \in BOOLEAN,
           Spawn(f, p, known, back, "asked"), \A x \in Panes : Gentle(pane[x], f[x]),
           \A x \in Panes : f[x].confirm # None => x = p, focused' = p,
           pane[p].state # "attached", UNCHANGED <<queue, backend, owners>>
    PROVE  Good
<1>1. OwnersInv' /\ UNCHANGED unborn
  BY DEF IInv, OwnersInv, backend, owners
<1>. QED  BY <1>1, StartGood

\* Restart: only a pane that shows no running terminal.
LEMMA RestartGood == ASSUME IInv, NEW p \in Panes, RestartTerminal(p) PROVE Good
<1>. DEFINE u == Unfocused(pane, p)
            k == (pane[p].state = "exited")
            f == [u EXCEPT ![p].keep = k]
<1>1. /\ u \in [Panes -> PaneRecs] /\ \A x \in Panes : Gentle(pane[x], u[x])
      /\ \A x \in Panes : u[x].confirm # None => x = p
  BY UnfocusedCalm DEF IInv
<1>2. /\ Spawn(f, p, TRUE, FALSE, "asked") /\ pane[p].state # "attached"
      /\ focused' = p /\ UNCHANGED <<queue, backend, owners>>
  BY DEF RestartTerminal, CanRestart
<1>3. k \in BOOLEAN
  OBVIOUS
<1>. HIDE DEF u, k
<1>4. f[p] = [u[p] EXCEPT !.keep = k] /\ \A x \in Panes : x # p => f[x] = u[x]
  BY <1>1
<1>5. Gentle(pane[p], f[p]) /\ (f[p].confirm # None => u[p].confirm # None)
  BY <1>1, <1>3, <1>4 DEF Gentle, PaneRecs, Shapes
<1>6. f \in [Panes -> PaneRecs]
  BY <1>1, <1>4, <1>5 DEF Gentle
<1>. HIDE DEF f
<1>7. \A x \in Panes : Gentle(pane[x], f[x])
  BY <1>1, <1>4, <1>5
<1>8. \A x \in Panes : f[x].confirm # None => x = p
  BY <1>1, <1>4
<1>. QED  BY <1>2, <1>6, <1>7, <1>8, AgainGood

\* A button of the recovery bar, which is over no terminal.
LEMMA RecoverGood == ASSUME IInv, NEW p \in Panes, NEW agent \in BOOLEAN, Recover(p, agent) PROVE Good
<1>. DEFINE f == Unfocused(pane, p)
            known == pane[p].known
<1>1. /\ f \in [Panes -> PaneRecs] /\ \A x \in Panes : Gentle(pane[x], f[x])
      /\ \A x \in Panes : f[x].confirm # None => x = p
  BY UnfocusedCalm DEF IInv
<1>2. /\ Spawn(f, p, known, TRUE, "asked")
      /\ focused' = p /\ UNCHANGED <<queue, backend, owners>>
  BY DEF Recover
<1>3. known \in BOOLEAN /\ pane[p].state # "attached"
  BY DEF IInv, PaneInv, PaneRecs, Shapes, Recover
<1>. HIDE DEF f, known
<1>. QED  BY <1>1, <1>2, <1>3, AgainGood

\* A pane gets the keyboard, and may be closed.
LEMMA FocusedGood ==
    ASSUME IInv, NEW p \in Panes, pane' = Unfocused(pane, p), focused' = p, UNCHANGED jobs,
           OwnersInv', UNCHANGED unborn
    PROVE  Good
<1>1. /\ pane' \in [Panes -> PaneRecs] /\ \A x \in Panes : Gentle(pane[x], pane'[x])
      /\ \A x \in Panes : pane'[x].confirm # None => x = p
  BY UnfocusedCalm DEF IInv
<1>2. PaneInv'
  <2>1. \A x \in Panes : Follows(pane[x], pane'[x]) /\ pane'[x].session = pane[x].session
    BY <1>1 DEF Follows, Gentle
  <2>. QED  BY <1>1, <2>1, PanesKeep DEF IInv
<1>3. JobsInv'
  <2>1. \A i \in jobs : i.kind = "spawn" => i.pane \in Panes
    BY DEF IInv, JobsInv, Sound
  <2>. QED  BY <1>1, <2>1, JobsKeep DEF IInv, Gentle
<1>4. Kept /\ Named
  BY <1>1 DEF Kept, Named, Gentle
<1>. QED  BY <1>2, <1>3, <1>4 DEF Good, IInv

\* The restore goes on to the pane it fills next.
LEMMA RestoreGood == ASSUME IInv, RestoreNext PROVE Good
<1>. DEFINE p == Head(queue)[2]
            Dues == {"fill", "focus"} \X Panes
<1>1. queue \in Seq(Dues) /\ queue # << >>
  BY DEF RestoreNext, RestoreDue, IInv, OwnersInv
<1>2. Head(queue) \in Dues /\ Tail(queue) \in Seq(Dues) /\ Len(Tail(queue)) # Len(queue)
  <2>. HIDE DEF Dues
  <2>. QED  BY <1>1
<1>3. queue' # queue /\ queue' \in Seq(Dues) /\ UNCHANGED <<backend, owners>>
  BY <1>2 DEF RestoreNext
<1>4. p \in Panes /\ Head(queue)[1] \in {"fill", "focus"}
  BY <1>2
<1>5. \/ Spawn(pane, p, FALSE, FALSE, "restore") /\ focused' = focused
      \/ pane' = Unfocused(pane, p) /\ focused' = p /\ UNCHANGED jobs
  BY <1>4 DEF RestoreNext
<1>. HIDE DEF p
<1>6. OwnersInv' /\ UNCHANGED unborn
  BY <1>3 DEF IInv, OwnersInv, backend, owners
<1>7. CASE Spawn(pane, p, FALSE, FALSE, "restore") /\ focused' = focused
  <2>1. /\ pane \in [Panes -> PaneRecs] /\ focused \in Panes
        /\ \A x \in Panes : Gentle(pane[x], pane[x])
        /\ \A x \in Panes : pane[x].confirm # None => x = focused
    BY GentleSelf DEF IInv, PaneInv, Shows
  <2>. QED  BY <1>3, <1>4, <1>6, <1>7, <2>1, StartGood
<1>8. CASE pane' = Unfocused(pane, p) /\ focused' = p /\ UNCHANGED jobs
  BY <1>4, <1>6, <1>8, FocusedGood
<1>. QED  BY <1>5, <1>7, <1>8

\* The answer to a start: its pane shows the terminal, when it is still open.
LEMMA SpawnedGood == ASSUME IInv, NEW j \in jobs, NEW s \in Sessions, Spawned(j, s) PROVE Good
<1>1. /\ j.kind = "spawn" /\ s \in unborn /\ jobs' = jobs \ {j} /\ focused' = focused
      /\ unborn' = unborn \ {s} /\ alive' = alive \cup {s} /\ queue' = queue
  BY DEF Spawned, Answered
<1>2. j.pane \in Panes /\ j.known \in BOOLEAN /\ pane[j.pane] \in PaneRecs
  BY <1>1 DEF IInv, PaneInv, JobsInv, Sound, JobRecs
<1>. DEFINE r == Attach(pane[j.pane], s, j.known)
<1>3. pane' = [pane EXCEPT ![j.pane] = r]
  BY DEF Spawned
<1>4. OwnersInv'
  <2>1. s \in Names \ unborn' /\ alive' \subseteq Sessions \ unborn' /\ unborn' \subseteq unborn
    BY <1>1 DEF Names, IInv, OwnersInv
  <2>. QED  BY <1>1, <2>1, OwnKeeps DEF Spawned, IInv
<1>5. ~ pane[j.pane].open => r = pane[j.pane]
  BY DEF Attach
<1>6. pane[j.pane].open => r \in PaneRecs /\ r.open /\ r.session = s /\ r.confirm = None
  BY <1>2, AttachShows
<1>7. \A x \in PaneRecs : x.open \in BOOLEAN
  BY DEF PaneRecs, Shapes
<1>. HIDE DEF r
<1>8. r \in PaneRecs /\ r.open = pane[j.pane].open
  BY <1>2, <1>5, <1>6, <1>7
<1>9. s \notin unborn' /\ unborn' \subseteq unborn
  BY <1>1
<1>. QED  BY <1>1, <1>3, <1>4, <1>5, <1>6, <1>8, <1>9, EndedGood

\* A start that failed.
LEMMA NotSpawnedGood == ASSUME IInv, NEW j \in jobs, NotSpawned(j) PROVE Good
<1>1. j.kind = "spawn" /\ jobs' = jobs \ {j} /\ focused' = focused /\ UNCHANGED <<queue, backend, owners>>
  BY DEF NotSpawned, Answered
<1>2. j.pane \in Panes /\ pane[j.pane] \in PaneRecs
  BY <1>1 DEF IInv, PaneInv, JobsInv, Sound
<1>. DEFINE o == pane[j.pane]
            r == IF ~ o.open /\ ~ Pending(o) THEN o ELSE IF j.back THEN RenderRecovery(SpawnFailed(o)) ELSE SpawnFailed(o)
<1>3. pane' = [pane EXCEPT ![j.pane] = r]
  BY DEF NotSpawned
<1>4. OwnersInv' /\ UNCHANGED unborn
  BY <1>1 DEF IInv, OwnersInv, backend, owners
<1>5. None \notin unborn
  BY DeskAssumption DEF IInv, OwnersInv
<1>6. SpawnFailed(o) \in PaneRecs /\ SpawnFailed(o).open = o.open /\ SpawnFailed(o).session = o.session
      /\ SpawnFailed(o).confirm = None
  BY <1>2, SpawnFailedEnds
<1>. DEFINE f == SpawnFailed(o)
<1>7. RenderRecovery(f) \in PaneRecs /\ RenderRecovery(f).open = f.open /\ RenderRecovery(f).session = None
      /\ RenderRecovery(f).confirm = f.confirm
  BY <1>6, RecoveryOf
<1>8. /\ r \in PaneRecs /\ r.open = o.open /\ (r.confirm = None \/ r = o)
      /\ (r.session = o.session \/ r.session = None)
  BY <1>2, <1>6, <1>7
<1>. HIDE DEF r
<1>. QED  BY <1>1, <1>3, <1>4, <1>5, <1>8, EndedGood

\* What a terminal does by itself.
LEMMA TerminalGood == ASSUME IInv, Terminal PROVE Good
<1>1. ASSUME NEW p \in Panes, Replayed(p) PROVE Good
  BY <1>1, OneGood, LineGentle DEF Replayed, IInv, PaneInv
<1>2. ASSUME NEW p \in Panes, Exits(p) PROVE Good
  BY <1>2, OneGood, LineGentle DEF Exits, IInv, PaneInv
<1>3. ASSUME NEW p \in Panes, LineLost(p) PROVE Good
  BY <1>3, OneGood, LineGentle DEF LineLost, IInv, PaneInv
<1>4. ASSUME NEW p \in Panes, Reconnect(p) PROVE Good
  BY <1>4, OneGood, LineGentle DEF Reconnect, IInv, PaneInv
<1>5. ASSUME NEW p \in Panes, NoticeTimer(p) PROVE Good
  BY <1>5, OneGood, NoticeEndsGentle DEF NoticeTimer, IInv, PaneInv
<1>6. ASSUME NEW s \in Sessions, Dies(s) PROVE Good
  <2>1. OwnersInv'
    BY <1>6, OwnersStill DEF Dies, IInv
  <2>. QED  BY <1>6, <2>1, StillGood DEF Dies
<1>. QED  BY <1>1, <1>2, <1>3, <1>4, <1>5, <1>6 DEF Terminal

\* The commands that only change a bar.
LEMMA BarGood ==
    ASSUME IInv, NoRoom \/ KillFocusedSession \/ CancelBar \/ SendSnippet \/ AcceptRun \/ Types
    PROVE  Good
<1>0. focused \in Panes /\ pane[focused] \in PaneRecs
  BY DEF IInv, PaneInv
<1>. DEFINE r == pane[focused]
<1>1. CASE NoRoom
  BY <1>0, <1>1, OneGood, FlashGentle DEF NoRoom
<1>2. CASE KillFocusedSession
  <2>1. CASE r.session = None
    <3>1. pane' = [pane EXCEPT ![focused] = FlashNotice(r)] /\ UNCHANGED <<focused, jobs, queue, backend, owners>>
      BY <1>2, <2>1 DEF KillFocusedSession
    <3>. QED  BY <1>0, <3>1, OneGood, FlashGentle
  <2>2. CASE r.session # None
    <3>1. pane' = [pane EXCEPT ![focused] = ConfirmAction(r, "Kill", r.session)]
          /\ UNCHANGED <<focused, jobs, queue, backend, owners>>
      BY <1>2, <2>2 DEF KillFocusedSession
    <3>2. r.session \in Names
      BY <1>0 DEF PaneRecs, Shapes
    <3>. QED  BY <3>1, <3>2, ArmGood
  <2>. QED  BY <2>1, <2>2
<1>3. CASE CancelBar
  BY <1>0, <1>3, OneGood, CancelGentle DEF CancelBar
<1>4. CASE SendSnippet
  <2>1. CASE pane' = [pane EXCEPT ![focused] = ConfirmAction(r, "Run", None)]
    <3>1. None \in Names
      BY DEF Names
    <3>. QED  BY <1>4, <2>1, <3>1, ArmGood DEF SendSnippet
  <2>2. CASE pane' = [pane EXCEPT ![focused] = Wrote(r)]
    BY <1>0, <1>4, <2>2, OneGood, WroteGentle DEF SendSnippet
  <2>. QED  BY <1>4, <2>1, <2>2 DEF SendSnippet
<1>5. CASE AcceptRun
  BY <1>0, <1>5, OneGood, WroteGentle DEF AcceptRun
<1>6. CASE Types
  <2>1. pane' = [pane EXCEPT ![focused] = [r EXCEPT !.wrote = TRUE]]
        /\ UNCHANGED <<focused, jobs, queue, backend, owners>>
    BY <1>6 DEF Types
  <2>2. Gentle(r, [r EXCEPT !.wrote = TRUE])
    BY <1>0 DEF Gentle, PaneRecs, Shapes
  <2>. QED  BY <1>0, <2>1, <2>2, OneGood
<1>. QED  BY <1>1, <1>2, <1>3, <1>4, <1>5, <1>6

\* A kill is sent for what the pane shows, which is what the bar named.
LEMMA AcceptKillGood == ASSUME IInv, AcceptKill PROVE Good
<1>. DEFINE r == pane[focused]
            c == [r.confirm EXCEPT !.busy = TRUE]
<1>1. /\ r.confirm # None /\ r.confirm.label = "Kill" /\ focused' = focused
      /\ jobs' = jobs \cup {Job("kill", focused, r.session, "sent")}
      /\ UNCHANGED <<queue, backend, owners>>
  BY DEF AcceptKill, Ask
<1>2. focused \in Panes /\ r \in PaneRecs /\ r.confirm \in Confirms
  BY <1>1 DEF IInv, PaneInv, PaneRecs, Shapes
<1>3. pane' = [pane EXCEPT ![focused] = [r EXCEPT !.confirm = c]]
  BY DEF AcceptKill
<1>4. c \in Confirms /\ c.label = r.confirm.label /\ c.of = r.confirm.of
  BY <1>2 DEF Confirms
<1>. HIDE DEF c
<1>5. Gentle(r, [r EXCEPT !.confirm = c])
  BY <1>1, <1>2, <1>4 DEF Gentle, PaneRecs, Shapes
<1>6. pane' \in [Panes -> PaneRecs] /\ \A x \in Panes : Gentle(pane[x], pane'[x])
  BY <1>2, <1>3, <1>5, GentleSelf DEF IInv, PaneInv, Gentle
<1>7. PICK k \in JobRecs : /\ k.kind = "kill" /\ k.pane = focused /\ k.session = r.session
                           /\ k.stage = "sent" /\ jobs' = jobs \cup {k}
  <2>1. r.session \in Names /\ "sent" \in Stages
    BY <1>2 DEF PaneRecs, Shapes, Stages
  <2>. QED  BY <1>1, <1>2, <2>1, JobIs
<1>8. OwnersInv' /\ UNCHANGED unborn
  BY <1>1 DEF IInv, OwnersInv, backend, owners
<1>9. Sound(k)'
  BY <1>2, <1>7 DEF Sound
<1>10. IInv' /\ Kept
  BY <1>1, <1>6, <1>7, <1>8, <1>9, QuietKeeps
<1>11. r.session = r.confirm.of
  BY <1>1, <1>2 DEF IInv, PaneInv, Shows
<1>12. Named
  BY <1>1, <1>7, <1>11 DEF Named
<1>. QED  BY <1>10, <1>12 DEF Good

\* Closing a pane, at once or when its terminal is retained.
LEMMA ClosePaneGood == ASSUME IInv, ClosePane PROVE Good
<1>1. UNCHANGED <<queue, backend, owners>> /\ focused \in Panes /\ pane[focused].session \in Names
  BY DEF ClosePane, IInv, PaneInv, PaneRecs, Shapes
<1>2. OwnersInv' /\ UNCHANGED unborn
  BY <1>1 DEF IInv, OwnersInv, backend, owners
<1>3. CASE pane[focused].session = None
  BY <1>1, <1>2, <1>3, CloseGood DEF ClosePane
<1>4. CASE pane[focused].session # None
  <2>1. Ask(Job("detach", focused, pane[focused].session, "retain")) /\ UNCHANGED <<pane, focused>>
    BY <1>4 DEF ClosePane
  <2>2. \A j \in jobs' \ jobs : Sound(j)' /\ j.kind \notin {"spawn", "kill"}
    <3>1. "retain" \in Stages
      BY DEF Stages
    <3>. QED  BY <1>1, <2>1, <3>1, AskSound
  <2>. QED  BY <1>2, <2>1, <2>2, StillGood
<1>. QED  BY <1>3, <1>4

\* The answer to a retain closes the pane it was asked for.
LEMMA RetainedGood ==
    ASSUME IInv, NEW j \in jobs, NEW answer \in {"ok", "gone", "failed"}, Retained(j, answer)
    PROVE  Good
<1>1. /\ j.kind = "detach" /\ UNCHANGED <<queue, alive, unborn>> /\ Sound(j) /\ j.pane \in Panes
  BY DEF Retained, IInv, JobsInv, Sound
<1>. DEFINE r == FlashNotice(pane[j.pane])
            refused == /\ pane' = [pane EXCEPT ![j.pane] = r]
                       /\ Answered(j) /\ UNCHANGED <<focused, owners>>
<1>2. \/ refused
      \/ CloseIfOpen(j.pane) /\ ForgetSession(j.session) /\ Answered(j)
      \/ CloseIfOpen(j.pane) /\ Answered(j) /\ UNCHANGED owners
      \/ Onward(j, "list") /\ UNCHANGED <<pane, focused, owners>>
  BY DEF Retained
<1>3. CASE refused
  <2>1. Gentle(pane[j.pane], r)
    BY <1>1, FlashGentle, GentleSelf DEF IInv, PaneInv
  <2>. HIDE DEF r
  <2>2. pane' \in [Panes -> PaneRecs] /\ \A x \in Panes : Gentle(pane[x], pane'[x])
    BY <1>1, <1>3, <2>1, GentleSelf DEF IInv, PaneInv, Gentle
  <2>3. OwnersInv'
    BY <1>1, <1>3, OwnersStill DEF IInv
  <2>. QED  BY <1>1, <1>3, <2>2, <2>3, QuietGood DEF Answered
<1>4. CASE CloseIfOpen(j.pane) /\ ForgetSession(j.session) /\ Answered(j)
  <2>1. OwnersInv'
    BY <1>1, <1>4, ForgetKeeps DEF IInv
  <2>. QED  BY <1>1, <1>4, <2>1, CloseGood DEF Answered
<1>5. CASE CloseIfOpen(j.pane) /\ Answered(j) /\ UNCHANGED owners
  <2>1. OwnersInv'
    BY <1>1, <1>5, OwnersStill DEF IInv
  <2>. QED  BY <1>1, <1>5, <2>1, CloseGood DEF Answered
<1>6. CASE Onward(j, "list") /\ UNCHANGED <<pane, focused, owners>>
  <2>1. OwnersInv'
    BY <1>1, <1>6, OwnersStill DEF IInv
  <2>2. \A k \in jobs' \ jobs : Sound(k)' /\ k.kind \notin {"spawn", "kill"}
    <3>1. "list" \in Stages
      BY DEF Stages
    <3>. QED  BY <1>1, <1>6, <3>1, OnwardSound
  <2>. QED  BY <1>1, <1>6, <2>1, <2>2, StillGood
<1>. QED  BY <1>2, <1>3, <1>4, <1>5, <1>6

\* The answer to a kill closes the pane it was asked for.
LEMMA KilledGood ==
    ASSUME IInv, NEW j \in jobs, NEW answer \in {"ok", "gone", "failed"}, Killed(j, answer)
    PROVE  Good
<1>1. /\ j.pane \in Panes /\ Answered(j) /\ UNCHANGED <<queue, unborn, retained>>
  BY DEF Killed, IInv, JobsInv, Sound
<1>2. CASE answer = "failed"
  <2>. DEFINE o == pane[j.pane]
              c == IF o.confirm = None \/ ~ o.open THEN o.confirm ELSE [o.confirm EXCEPT !.busy = FALSE]
              r == [o EXCEPT !.confirm = c]
  <2>1. pane' = [pane EXCEPT ![j.pane] = r] /\ UNCHANGED <<focused, alive, owners>>
    BY <1>2 DEF Killed
  <2>2. o \in PaneRecs /\ (o.confirm # None => o.confirm \in Confirms)
    BY <1>1 DEF IInv, PaneInv, PaneRecs, Shapes
  <2>3. /\ c \in Confirms \cup {None}
        /\ c # None => o.confirm # None /\ c.label = o.confirm.label /\ c.of = o.confirm.of
    BY <2>2 DEF Confirms
  <2>. HIDE DEF c
  <2>4. Gentle(o, r)
    BY <2>2, <2>3 DEF Gentle, PaneRecs, Shapes
  <2>. HIDE DEF r
  <2>5. pane' \in [Panes -> PaneRecs] /\ \A x \in Panes : Gentle(pane[x], pane'[x])
    BY <1>1, <2>1, <2>4, GentleSelf DEF IInv, PaneInv, Gentle
  <2>6. OwnersInv'
    BY <1>1, <2>1, OwnersStill DEF IInv
  <2>. QED  BY <1>1, <2>1, <2>5, <2>6, QuietGood DEF Answered
<1>3. CASE answer # "failed"
  <2>1. alive' = alive \ {j.session} /\ ForgetSession(j.session) /\ CloseIfOpen(j.pane)
    BY <1>3 DEF Killed
  <2>2. OwnersInv'
    BY <1>1, <2>1, ForgetKeeps DEF IInv
  <2>. QED  BY <1>1, <2>1, <2>2, CloseGood DEF Answered
<1>. QED  BY <1>2, <1>3

\* A request that leaves everything else as it is.
LEMMA AskGood ==
    ASSUME IInv, NEW kind \in {"drop", "move", "typed", "boot"}, NEW s \in Names, NEW stage \in Stages,
           Ask(Job(kind, None, s, stage)), kind = "move" => s \in Sessions \ unborn,
           UNCHANGED <<pane, focused, queue, backend, owners>>
    PROVE  Good
<1>1. UNCHANGED unborn /\ OwnersInv'
  BY DEF IInv, OwnersInv, backend, owners
<1>2. \A j \in jobs' \ jobs : Sound(j)' /\ j.kind \notin {"spawn", "kill"}
  BY <1>1, AskSound
<1>. QED  BY <1>1, <1>2, StillGood

\* The commands and the events that only ask the backend.
LEMMA AsksGood ==
    ASSUME IInv, \/ \E s \in Sessions : KillSessionById(s) \/ DetachSessionById(s) \/ MoveSessionHere(s)
                 \/ MaybeAdoptScratch \/ BootAdopts
    PROVE  Good
<1>0. Stages = {"asked", "restore", "retain", "list", "claim", "sent", "kill", "keep", "forget", "look", "attach"}
      /\ Names = Sessions \cup {None}
  BY DEF Stages, Names
<1>1. ASSUME NEW s \in Sessions, KillSessionById(s) PROVE Good
  BY <1>0, <1>1, AskGood DEF KillSessionById
<1>2. ASSUME NEW s \in Sessions, DetachSessionById(s) PROVE Good
  <2>1. PICK stage \in {"keep", "forget"} : Ask(Job("drop", None, s, stage))
    BY <1>2 DEF DetachSessionById
  <2>. QED  BY <1>0, <1>2, <2>1, AskGood DEF DetachSessionById
<1>3. ASSUME NEW s \in Sessions, MoveSessionHere(s) PROVE Good
  BY <1>0, <1>3, AskGood DEF MoveSessionHere
<1>4. CASE MaybeAdoptScratch
  BY <1>0, <1>4, AskGood DEF MaybeAdoptScratch
<1>5. CASE BootAdopts
  BY <1>0, <1>5, AskGood DEF BootAdopts
<1>. QED  BY <1>1, <1>2, <1>3, <1>4, <1>5

\* The sidebar's kills and detaches close a pane that shows the terminal now.
LEMMA DroppedGood ==
    ASSUME IInv, NEW j \in jobs, NEW answer \in {"ok", "gone", "failed"}, Dropped(j, answer)
    PROVE  Good
<1>1. Answered(j) /\ UNCHANGED <<queue, unborn>>
  BY DEF Dropped
<1>2. OwnersInv' /\ alive' \subseteq alive
  <2>1. alive' \subseteq alive
    BY DEF Dropped
  <2>2. CASE UNCHANGED owners
    BY <1>1, <2>1, <2>2, OwnersStill DEF IInv
  <2>3. CASE ForgetSession(j.session)
    BY <1>1, <2>1, <2>3, ForgetKeeps DEF IInv
  <2>. QED  BY <2>1, <2>2, <2>3 DEF Dropped
<1>3. UNCHANGED <<pane, focused>> \/ \E p \in Showing(j.session) : CloseIfOpen(p)
  BY DEF Dropped
<1>4. CASE UNCHANGED <<pane, focused>>
  BY <1>1, <1>2, <1>4, StillGood DEF Answered
<1>5. CASE \E p \in Showing(j.session) : CloseIfOpen(p)
  <2>1. PICK p \in Panes : CloseIfOpen(p)
    BY <1>5 DEF Showing, Open
  <2>. QED  BY <1>1, <1>2, <2>1, CloseGood DEF Answered
<1>. QED  BY <1>3, <1>4, <1>5

\* The end of a request that had the view adopted, or not.
LEMMA EnsuredGood ==
    ASSUME IInv, NEW j \in jobs, j.kind \notin {"spawn", "kill"}, NEW adopted \in BOOLEAN, Ensured(j, adopted),
           UNCHANGED unborn, OwnersInv'
    PROVE  Good
<1>1. Sound(j)
  BY DEF IInv, JobsInv
<1>2. CASE j.kind = "detach"
  BY <1>1, <1>2, CloseGood DEF Ensured, Answered, Sound
<1>3. CASE Onward(j, "attach") /\ UNCHANGED <<pane, focused>>
  <2>1. \A k \in jobs' \ jobs : Sound(k)' /\ k.kind \notin {"spawn", "kill"}
    <3>1. "attach" \in Stages
      BY DEF Stages
    <3>. QED  BY <1>1, <1>3, <3>1, OnwardSound
  <2>. QED  BY <1>3, <2>1, StillGood
<1>4. CASE Answered(j) /\ UNCHANGED <<pane, focused>>
  BY <1>4, StillGood DEF Answered
<1>. QED  BY <1>2, <1>3, <1>4 DEF Ensured

\* Scratch is not adopted.
LEMMA NotEnsuredGood ==
    ASSUME IInv, NEW j \in jobs, j.kind \notin {"spawn", "kill"}, NotEnsured(j), UNCHANGED <<queue, backend>>
    PROVE  Good
<1>1. OwnersInv'
  BY DEF IInv, OwnersInv, NotEnsured, backend
<1>. QED  BY <1>1, EnsuredGood DEF NotEnsured, backend

\* The steps of ensureScratchWorkspace.
LEMMA AdoptionGood ==
    ASSUME IInv, NEW j \in jobs, ListsNames(j) \/ ClaimRefused(j) \/ Adopts(j)
    PROVE  Good
<1>1. j.kind \notin {"spawn", "kill"} /\ Sound(j)
  BY DEF IInv, JobsInv, Sound, ListsNames, ClaimRefused, Adopts
<1>2. CASE ListsNames(j)
  <2>1. CASE onDisk
    BY <1>1, <1>2, <2>1, NotEnsuredGood DEF ListsNames
  <2>2. CASE ~ onDisk
    <3>1. OwnersInv' /\ UNCHANGED unborn
      BY <1>2, <2>2 DEF ListsNames, IInv, OwnersInv, backend, owners
    <3>2. Onward(j, "claim") /\ UNCHANGED <<pane, focused>>
      BY <1>2, <2>2 DEF ListsNames
    <3>3. \A k \in jobs' \ jobs : Sound(k)' /\ k.kind \notin {"spawn", "kill"}
      <4>1. "claim" \in Stages
        BY DEF Stages
      <4>. QED  BY <1>1, <3>1, <3>2, <4>1, OnwardSound
    <3>. QED  BY <3>1, <3>2, <3>3, StillGood
  <2>. QED  BY <2>1, <2>2
<1>3. CASE ClaimRefused(j)
  BY <1>1, <1>3, NotEnsuredGood DEF ClaimRefused
<1>4. CASE Adopts(j)
  <2>1. Attached \subseteq Names \ unborn
    BY DEF IInv, PaneInv, PaneRecs, Shapes, Shows, Attached, Open
  <2>2. OwnersInv' /\ UNCHANGED unborn
    BY <1>4, <2>1 DEF Adopts, IInv, OwnersInv, backend
  <2>3. Ensured(j, TRUE)
    BY <1>4 DEF Adopts
  <2>. QED  BY <1>1, <2>2, <2>3, EnsuredGood
<1>. QED  BY <1>2, <1>3, <1>4

\* The first save of an adopted view.
LEMMA SavedGood == ASSUME IInv, Saved PROVE Good
<1>1. OwnersInv' /\ UNCHANGED unborn
  BY DEF Saved, IInv, OwnersInv, backend
<1>. QED  BY <1>1, StillGood DEF Saved

\* A terminal that is shown becomes the workspace's.
LEMMA ShowSessionGood ==
    ASSUME IInv, NEW s \in Sessions \ unborn, ShowSession(s), UNCHANGED <<queue, backend>>, jobs' \subseteq jobs
    PROVE  Good
<1>1. PICK p \in Panes : /\ Target(p) /\ pane' = [Placed(p) EXCEPT ![p] = Attach(Placed(p)[p], s, FALSE)]
                        /\ focused' = p
  BY DEF ShowSession
<1>2. UNCHANGED <<queue, unborn, alive>>
  BY DEF backend
<1>3. OwnersInv'
  BY <1>2, OwnKeeps DEF ShowSession, IInv, OwnersInv, Names
<1>. QED  BY <1>1, <1>2, <1>3, ShowGood

\* A terminal moves into the view.
LEMMA MovesGood == ASSUME IInv, NEW j \in jobs, Moves(j) \/ MovedHere(j) PROVE Good
<1>1. Sound(j) /\ j.kind = "move" /\ j.session \in Sessions \ unborn
  BY DEF IInv, JobsInv, Sound, Moves, MovedHere
<1>2. CASE Moves(j)
  <2>1. UNCHANGED <<pane, focused, queue, backend>> /\ UNCHANGED <<unborn, alive>>
    BY <1>2 DEF Moves, backend
  <2>2. CASE j.session \notin alive
    <3>1. ForgetSession(j.session) /\ Answered(j)
      BY <1>2, <2>2 DEF Moves
    <3>2. OwnersInv'
      BY <2>1, <3>1, ForgetKeeps DEF IInv
    <3>. QED  BY <2>1, <3>1, <3>2, StillGood DEF Answered
  <2>3. CASE j.session \in alive
    <3>1. PICK stage \in {"list", "attach"} : Onward(j, stage) /\ UNCHANGED owners
      BY <1>2, <2>3 DEF Moves
    <3>2. OwnersInv'
      BY <2>1, <3>1, OwnersStill DEF IInv
    <3>3. \A k \in jobs' \ jobs : Sound(k)' /\ k.kind \notin {"spawn", "kill"}
      <4>1. stage \in Stages
        BY DEF Stages
      <4>. QED  BY <1>1, <2>1, <3>1, <4>1, OnwardSound
    <3>. QED  BY <2>1, <3>2, <3>3, StillGood
  <2>. QED  BY <2>2, <2>3
<1>3. CASE MovedHere(j)
  BY <1>1, <1>3, ShowSessionGood DEF MovedHere, Answered
<1>. QED  BY <1>2, <1>3

\* The user goes to another pane.
LEMMA FocusGood == ASSUME IInv, NEW p \in Panes, FocusPane(p) PROVE Good
<1>1. OwnersInv' /\ UNCHANGED unborn
  BY DEF FocusPane, IInv, OwnersInv, backend, owners
<1>. QED  BY <1>1, FocusedGood DEF FocusPane

-----------------------------------------------------------------------------
(* The theorems. *)

\* Whatever the user commands.
LEMMA CommandGood == ASSUME IInv, Command PROVE Good
<1>1. CASE RunProfile \/ RunWithOptions \/ RunSystemTerminal \/ NewTerminal \/ StartLaunch
  BY <1>1, FillGood DEF RunProfile, RunWithOptions, RunSystemTerminal, NewTerminal, StartLaunch
<1>2. CASE \E s \in Sessions : AttachSession(s)
  <2>1. PICK s \in Sessions : AttachSession(s)
    BY <1>2
  <2>. QED  BY <2>1, ShowSessionGood DEF AttachSession
<1>3. CASE \E p \in Panes : FocusPane(p) \/ RestartTerminal(p) \/ \E agent \in BOOLEAN : Recover(p, agent)
  BY <1>3, FocusGood, RestartGood, RecoverGood
<1>. QED  BY <1>1, <1>2, <1>3, SplitGood, ClosePaneGood, AcceptKillGood, BarGood, AsksGood DEF Command

\* Whatever the backend answers.
LEMMA AnswerGood == ASSUME IInv, Answer PROVE Good
BY NotSpawnedGood, AdoptionGood, MovesGood, SpawnedGood, RetainedGood, KilledGood, DroppedGood DEF Answer

\* Every step of the view.
LEMMA NextGood == ASSUME IInv, Next PROVE Good
BY RestoreGood, CommandGood, AnswerGood, TerminalGood, AsksGood, SavedGood DEF Next

\* Nothing happens.
LEMMA StutterGood == ASSUME IInv, UNCHANGED vars PROVE Good
<1>1. OwnersInv' /\ UNCHANGED <<pane, focused, jobs, unborn>>
  BY DEF vars, IInv, OwnersInv, backend, owners
<1>. QED  BY <1>1, StillGood

\* A restored pane shows the terminal that still runs, or none.
LEMMA RestoredIs ==
    ASSUME NEW fate \in {"live", "gone", "gone agent", "start"}
    PROVE  /\ Restored(fate) \in PaneRecs /\ Restored(fate).open
           /\ Restored(fate).session \in {Elsewhere, None} /\ Restored(fate).confirm = None
<1>0. Fresh \in PaneRecs /\ Fresh.open /\ Fresh.session = None /\ Fresh.confirm = None
  BY FreshIsOne DEF Fresh
<1>1. CASE fate = "live"
  <2>. DEFINE t == Attach(Fresh, Elsewhere, FALSE)
  <2>1. t \in PaneRecs /\ t.open /\ t.session = Elsewhere /\ t.confirm = None
    <3>1. Elsewhere \in Sessions
      BY DeskAssumption
    <3>. QED  BY <1>0, <3>1, AttachShows
  <2>2. Restored(fate) = t
    BY <1>1 DEF Restored
  <2>. HIDE DEF t
  <2>. QED  BY <2>1, <2>2
<1>2. CASE fate = "gone"
  BY <1>0, <1>2, RecoveryOf DEF Restored
<1>3. CASE fate = "gone agent"
  <2>. DEFINE k == [Fresh EXCEPT !.known = TRUE]
  <2>1. k \in PaneRecs /\ k.open /\ k.confirm = None
    BY <1>0 DEF PaneRecs, Shapes
  <2>2. Restored(fate) = RenderRecovery(k)
    BY <1>3 DEF Restored
  <2>. HIDE DEF k
  <2>. QED  BY <2>1, <2>2, RecoveryOf
<1>4. CASE fate = "start"
  BY <1>0, <1>4 DEF Restored
<1>. QED  BY <1>1, <1>2, <1>3, <1>4

\* The view that has just opened.
LEMMA InitGood == Init => IInv
<1>. SUFFICES ASSUME Init PROVE IInv
  OBVIOUS
<1>0. /\ jobs = {} /\ scratchIds = {} /\ alive = {Elsewhere} /\ unborn = Sessions \ {Elsewhere}
      /\ Elsewhere \in Sessions /\ None \notin Sessions
  BY DeskAssumption DEF Init
<1>1. PICK first \in Panes, second \in Panes :
        /\ first # second /\ focused = first
        /\ \/ \E a \in {"live", "start"}, b \in {"gone", "gone agent", "start"} :
                /\ pane = [p \in Panes |-> IF p = first THEN Restored(a)
                                           ELSE IF p = second THEN Restored(b) ELSE Absent]
                /\ queue = IF "start" \notin {a, b} THEN << >>
                           ELSE (IF a = "start" THEN <<<<"fill", first>>>> ELSE << >>)
                             \o (IF b = "start" THEN <<<<"fill", second>>>> ELSE << >>)
                             \o <<<<"focus", first>>>>
                /\ current = "named"
                /\ wsIds = IF a = "live" THEN {Elsewhere} ELSE {}
           \/ /\ pane = [p \in Panes |-> IF p = first THEN Fresh ELSE Absent]
              /\ \/ current \in {"none", "named"} /\ queue = <<<<"fill", first>>, <<"focus", first>>>>
                 \/ current = "none" /\ queue = <<<<"fill", first>>>>
              /\ wsIds = {}
  BY DEF Init
<1>2. Fresh.open /\ Fresh.session = None /\ Fresh.confirm = None /\ Absent.session = None /\ Absent.confirm = None
  BY DEF Fresh, Absent
<1>3. /\ pane \in [Panes -> PaneRecs]
      /\ \A p \in Panes : pane[p].session \in {Elsewhere, None} /\ pane[p].confirm = None
  <2>1. CASE \E a \in {"live", "start"}, b \in {"gone", "gone agent", "start"} :
               pane = [p \in Panes |-> IF p = first THEN Restored(a)
                                       ELSE IF p = second THEN Restored(b) ELSE Absent]
    <3>1. PICK a \in {"live", "start"}, b \in {"gone", "gone agent", "start"} :
             pane = [p \in Panes |-> IF p = first THEN Restored(a)
                                     ELSE IF p = second THEN Restored(b) ELSE Absent]
      BY <2>1
    <3>. DEFINE x == Restored(a)
                y == Restored(b)
    <3>2. /\ x \in PaneRecs /\ x.open /\ x.session \in {Elsewhere, None} /\ x.confirm = None
          /\ y \in PaneRecs /\ y.session \in {Elsewhere, None} /\ y.confirm = None
      BY RestoredIs
    <3>. HIDE DEF x, y
    <3>3. pane = [p \in Panes |-> IF p = first THEN x ELSE IF p = second THEN y ELSE Absent]
      BY <3>1 DEF x, y
    <3>. QED  BY <1>1, <1>2, <3>2, <3>3, FreshIsOne
  <2>2. CASE pane = [p \in Panes |-> IF p = first THEN Fresh ELSE Absent]
    BY <1>1, <1>2, <2>2, FreshIsOne
  <2>. QED  BY <1>1, <2>1, <2>2
<1>4. PaneInv
  BY <1>0, <1>1, <1>3 DEF PaneInv, Shows
<1>5. queue \in Seq({"fill", "focus"} \X Panes)
  <2>. DEFINE D == {"fill", "focus"} \X Panes
              f1 == <<"fill", first>>
              f2 == <<"fill", second>>
              k == <<"focus", first>>
  <2>1. f1 \in D /\ f2 \in D /\ k \in D
    OBVIOUS
  <2>2. \/ queue = << >> \/ queue = <<f1>> \/ queue = <<f1, k>>
        \/ \E a, b : queue = (IF a = "start" THEN <<f1>> ELSE << >>) \o (IF b = "start" THEN <<f2>> ELSE << >>) \o <<k>>
    BY <1>1
  <2>. HIDE DEF D, f1, f2, k
  <2>3. <<f1>> \in Seq(D) /\ <<f2>> \in Seq(D) /\ <<k>> \in Seq(D) /\ << >> \in Seq(D) /\ <<f1, k>> \in Seq(D)
    BY <2>1
  <2>4. \A x, y \in Seq(D) : x \o y \in Seq(D)
    OBVIOUS
  <2>5. \A a, b : (IF a = "start" THEN <<f1>> ELSE << >>) \o (IF b = "start" THEN <<f2>> ELSE << >>) \o <<k>> \in Seq(D)
    BY <2>3, <2>4
  <2>6. queue \in Seq(D)
    BY <2>2, <2>3, <2>5
  <2>. QED  BY <2>6 DEF D
<1>6. OwnersInv
  <2>1. wsIds \subseteq {Elsewhere} /\ current \in {"none", "scratch", "named"}
    BY <1>1
  <2>. QED  BY <1>0, <1>5, <2>1 DEF OwnersInv, Names
<1>. QED  BY <1>0, <1>4, <1>6 DEF IInv, JobsInv, Of

\* The panes, the owners and the requests that are under way stay what the code takes
\* them for: a pane that waits for an answer waits for one only, what a pane shows was
\* started, and an armed bar is the focused pane's and names what it shows.
THEOREM DeskInductive == Spec => []IInv
<1>1. IInv /\ [Next]_vars => IInv'
  BY NextGood, StutterGood DEF Good
<1>. QED  BY <1>1, InitGood, PTL DEF Spec

\* An armed confirmation is on the pane the user is in (setFocused, closePane and the
\* commands of pane_commands.js), for any number of panes, terminals and requests.
THEOREM ArmedFocused == Spec => []ArmedIsFocused
<1>1. IInv => ArmedIsFocused
  <2>. SUFFICES ASSUME IInv PROVE ArmedIsFocused
    OBVIOUS
  <2>1. focused \in Panes /\ \A p \in Panes : pane[p].confirm # None => p = focused
    BY DEF IInv, PaneInv, Shows, Open
  <2>2. \A p \in Panes : pane[p] \in Shapes
    BY DEF IInv, PaneInv, PaneRecs
  <2>3. alive \cap unborn = {} /\ wsIds \cap unborn = {} /\ scratchIds \cap unborn = {}
        /\ current \in {"none", "scratch", "named"}
    BY DEF IInv, OwnersInv
  <2>4. TypeOK
    BY <2>1, <2>2, <2>3 DEF TypeOK, Shapes, States, Names
  <2>. QED  BY <2>1, <2>4 DEF ArmedIsFocused
<1>. QED  BY <1>1, DeskInductive, PTL

\* A confirmed kill goes to the terminal its bar named (killFocusedSession reads the
\* pane again when the button is pressed), whatever happened under the bar meanwhile.
THEOREM KillNamed == Spec => KillsWhatItNamed
<1>1. IInv /\ [Next]_vars => [\A j \in jobs' \ jobs : j.kind = "kill" => j.session = pane[j.pane].confirm.of]_vars
  BY NextGood DEF Good, Named
<1>. QED  BY <1>1, DeskInductive, PTL DEF Spec, KillsWhatItNamed

\* No late answer (spawner.js) and no command puts a terminal over another, nor does one
\* start over a terminal that shows, the restore of a workspace excepted.
THEOREM NothingDisplaced == Spec => NoTerminalIsDisplaced
<1>1. IInv /\ [Next]_vars =>
        [\A p \in Open : (pane[p].state = "attached" /\ pane'[p].open) =>
            /\ pane'[p].session = pane[p].session
            /\ pane'[p].state = "spawning" => queue' # queue]_vars
  BY NextGood DEF Good, Kept, Open
<1>. QED  BY <1>1, DeskInductive, PTL DEF Spec, NoTerminalIsDisplaced

=============================================================================
