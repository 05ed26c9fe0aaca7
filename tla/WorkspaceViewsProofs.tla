------------------------ MODULE WorkspaceViewsProofs ------------------------
(***************************************************************************)
(* For any number of views and workspaces, and whatever sleeps, saves and      *)
(* recoveries interleave: a workspace has one owner, a view that waited for     *)
(* its grants writes the one it owns, and while every save is the owner's, no   *)
(* save takes anything away that an earlier one wrote.                          *)
(***************************************************************************)
EXTENDS WorkspaceViews, TLAPS

-----------------------------------------------------------------------------
(* The strengthening. *)

\* A registration that is under way, or was refused, is one of a view without an entry.
Unregistered(v) == recover[v].at \in {"sent", "refused"} => claim[v] = Absent

\* A document that boots has asked for nothing yet.
Fresh(v) == pc[v] = "boots" => recover[v].at = "none" /\ rename[v].at = "none"

\* What a view owns, by how far its rename is.  A recovery that was granted is for
\* the name it was sent for, and its answer finds out whether that is still shown.
OwnsByRename(v) ==
    /\ rename[v].at = "granted" => claim[v] = rename[v].name
    /\ rename[v].at = "back" => current[v] = rename[v].name
    /\ rename[v].at \notin {"granted", "back"} /\ (recover[v].at = "ok" => current[v] = recover[v].name)
         => claim[v] = current[v]
Settled(v) == pc[v] # "closed" /\ claim[v] # Absent /\ ~astray[v] => OwnsByRename(v)

\* Only a rename that went on has a PUT of its own, until the document is gone.
Saving(v) == pc[v] # "closed" /\ save[v]["rename"].at # "none" => rename[v].at = "saves"

OneOwner == \A v, w \in Views : v # w /\ claim[v] = claim[w] => claim[v] \in {NoName, Absent}

Keeps(v) == Unregistered(v) /\ Fresh(v) /\ Settled(v)
Holds(v) == Keeps(v) /\ Saving(v)
IInv == TypeOK /\ OneOwner /\ \A v \in Views : Holds(v)

-----------------------------------------------------------------------------
(* Types. *)

\* The values the code starts from and goes back to.
LEMMA Members ==
    /\ NoSave \in Saves /\ NoCall \in Recovers /\ NoCall \in Renames
    /\ 0 \in Edits /\ NoName \in Owned /\ Names \subseteq Owned
BY ViewsAssumption DEF NoSave, NoCall, Saves, Recovers, Renames, Edits, Owned

\* One more of what is counted, while its bound is not reached.
LEMMA CountKeeps ==
    ASSUME TypeOK, NEW what \in {"edits", "renames", "faults"}, Count(what),
           what = "edits" => done.edits < MaxEdits,
           what = "renames" => done.renames < MaxRenames,
           what = "faults" => done.faults < MaxFaults
    PROVE  done' \in Counts
<1>1. done \in Counts /\ done' = [done EXCEPT ![what] = done[what] + 1]
  BY DEF TypeOK, Count
<1>. QED  BY <1>1, ViewsAssumption DEF Counts

\* A PUT that is sent has the record of one.
LEMMA PutKeeps ==
    ASSUME TypeOK, NEW v \in Views, NEW k \in Kinds, NEW n \in Owned, Put(v, k, n)
    PROVE  save' \in [Views -> [Kinds -> Saves]]
<1>1. [at |-> "sent", to |-> n, what |-> layout[v], after |-> InFlight(v, n)] \in Saves
  BY DEF TypeOK, Saves, InFlight
<1>. QED  BY <1>1 DEF TypeOK, Put

\* A PUT that is answered leaves a record of the kind.
LEMMA AnsweredKeeps ==
    ASSUME TypeOK, NEW v \in Views, NEW k \in Kinds, NEW at \in {"landed", "failed"}, Answered(v, k, at)
    PROVE  save' \in [Views -> [Kinds -> Saves]]
<1>1. \A j \in Kinds : save[v][j] \in Saves
  BY DEF TypeOK
<1>2. \A j \in Kinds : [save[v][j] EXCEPT !.after = @ \ {k}] \in Saves
  BY <1>1 DEF Saves
<1>3. [save[v][k] EXCEPT !.at = at] \in Saves
  BY <1>1 DEF Saves
<1>. DEFINE answered == [j \in Kinds |->
        IF j # k THEN [save[v][j] EXCEPT !.after = @ \ {k}]
        ELSE IF pc[v] = "closed" THEN NoSave ELSE [save[v][k] EXCEPT !.at = at]]
<1>4. answered \in [Kinds -> Saves]
  BY <1>2, <1>3, Members
<1>5. save' = [save EXCEPT ![v] = answered]
  BY DEF Answered
<1>. HIDE DEF answered
<1>. QED  BY <1>4, <1>5 DEF TypeOK

\* A save that is done with.
LEMMA NoSaveKeeps ==
    ASSUME TypeOK, NEW v \in Views, NEW k \in Kinds, save' = [save EXCEPT ![v][k] = NoSave]
    PROVE  save' \in [Views -> [Kinds -> Saves]]
BY Members DEF TypeOK

\* A call that is answered keeps its name.
LEMMA CallKeeps ==
    ASSUME TypeOK, NEW v \in Views
    PROVE  /\ \A at \in {"sent", "ok", "refused"} : [recover[v] EXCEPT !.at = at] \in Recovers
           /\ \A at \in {"sent", "granted", "refused", "saves", "back"} : [rename[v] EXCEPT !.at = at] \in Renames
           /\ recover[v].name \in Owned /\ rename[v].name \in Owned
<1>1. recover[v] \in Recovers /\ rename[v] \in Renames
  BY DEF TypeOK
<1>2. \A at \in {"sent", "ok", "refused"} : [recover[v] EXCEPT !.at = at] \in Recovers
  BY <1>1 DEF Recovers
<1>3. \A at \in {"sent", "granted", "refused", "saves", "back"} : [rename[v] EXCEPT !.at = at] \in Renames
  BY <1>1 DEF Renames
<1>4. recover[v].name \in Owned /\ rename[v].name \in Owned
  BY <1>1 DEF Recovers, Renames
<1>. QED  BY <1>2, <1>3, <1>4

\* The timers of one view change.
LEMMA TimersAt ==
    ASSUME TypeOK, NEW v \in Views, NEW T, T \subseteq {"save", "retry", "soon"},
           timers' = [timers EXCEPT ![v] = T]
    PROVE  timers' \in [Views -> SUBSET {"save", "retry", "soon"}]
BY DEF TypeOK

\* Fewer of them run, or another one.
LEMMA TimersOf ==
    ASSUME TypeOK, NEW v \in Views
    PROVE  /\ \A S : timers[v] \ S \subseteq {"save", "retry", "soon"}
           /\ \A S : \A t \in {"save", "retry", "soon"} : (timers[v] \ S) \cup {t} \subseteq {"save", "retry", "soon"}
           /\ \A t \in {"save", "retry", "soon"} : timers[v] \cup {t} \subseteq {"save", "retry", "soon"}
<1>1. timers[v] \subseteq {"save", "retry", "soon"}
  BY DEF TypeOK
<1>. QED  BY <1>1

\* The first state has the types.
LEMMA TypeInit == Init => TypeOK
<1>. SUFFICES ASSUME Init PROVE TypeOK
  OBVIOUS
<1>1. save \in [Views -> [Kinds -> Saves]] /\ recover \in [Views -> Recovers] /\ rename \in [Views -> Renames]
  BY Members DEF Init
<1>2. file \in [Names -> SUBSET Edits] /\ done \in Counts
  BY Members, ViewsAssumption DEF Init, Counts
<1>. QED  BY <1>1, <1>2, Members DEF Init, TypeOK

\* A view that stays open autosaves again.
LEMMA StaysKeeps ==
    ASSUME TypeOK, NEW v \in Views, StaysOpen(v)
    PROVE  /\ pc' \in [Views -> {"closed", "boots", "loads", "live", "closing", "leaving"}]
           /\ timers' \in [Views -> SUBSET {"save", "retry", "soon"}]
           /\ pending' \in [Views -> BOOLEAN]
<1>1. timers' = timers \/ timers' = [timers EXCEPT ![v] = (timers[v] \ {"retry"}) \cup {"save"}]
  BY DEF StaysOpen
<1>2. timers' \in [Views -> SUBSET {"save", "retry", "soon"}]
  <2>1. (timers[v] \ {"retry"}) \cup {"save"} \subseteq {"save", "retry", "soon"}
    BY TimersOf
  <2>. QED  BY <1>1, <2>1, TimersAt DEF TypeOK
<1>3. pending' \in [Views -> BOOLEAN]
  BY DEF TypeOK, StaysOpen
<1>4. pc' \in [Views -> {"closed", "boots", "loads", "live", "closing", "leaving"}]
  BY DEF TypeOK, StaysOpen
<1>. QED  BY <1>2, <1>3, <1>4

\* What a step of a view may be.
Steps(v) ==
    \/ Due(v) \/ Served(v)
    \/ Expire(v) \/ Edit(v) \/ Close(v) \/ CloseFails(v)
    \/ \E n \in Owned : Open(v, n)
    \/ \E n \in Names : Rename(v, n)
    \/ \E k \in Kinds : SaveFails(v, k)

\* Every step of a view keeps the types.
LEMMA TypeStep ==
    ASSUME TypeOK, NEW v \in Views, Steps(v)
    PROVE  TypeOK'
<1>. USE DEF registry, autosave, calls, history
<1>1. ASSUME Expire(v) PROVE TypeOK'
  <2>1. done' \in Counts
    BY <1>1, CountKeeps DEF Expire, TypeOK
  <2>. QED  BY <1>1, <2>1 DEF Expire, TypeOK
<1>2. ASSUME NEW n \in Owned, Open(v, n) PROVE TypeOK'
  BY <1>2 DEF Open, TypeOK
<1>3. ASSUME Boot(v) PROVE TypeOK'
  BY <1>3, Members DEF Boot, TypeOK
<1>4. ASSUME Load(v) PROVE TypeOK'
  <2>1. layout' \in [Views -> SUBSET Edits]
    <3>1. current[v] # NoName => current[v] \in Names
      BY DEF TypeOK, Owned
    <3>. QED  BY <1>4, <3>1, Members DEF Load, TypeOK
  <2>2. timers' \in [Views -> SUBSET {"save", "retry", "soon"}] /\ pending' \in [Views -> BOOLEAN]
    <3>1. timers' = timers \/ timers' = [timers EXCEPT ![v] = {"save"}]
      BY <1>4 DEF Load
    <3>2. timers' \in [Views -> SUBSET {"save", "retry", "soon"}]
      <4>1. \E T : T \subseteq {"save", "retry", "soon"} /\ (timers' = timers \/ timers' = [timers EXCEPT ![v] = T])
        BY <3>1, TimersOf
      <4>. QED  BY <4>1, TimersAt DEF TypeOK
    <3>3. pending' \in [Views -> BOOLEAN]
      BY <1>4 DEF Load, TypeOK
    <3>. QED  BY <3>2, <3>3
  <2>3. stale' \in [Views -> BOOLEAN]
    <3>1. (claim[v] # current[v]) \in BOOLEAN
      OBVIOUS
    <3>. QED  BY <1>4, <3>1 DEF Load, TypeOK
  <2>. QED  BY <1>4, <2>1, <2>2, <2>3 DEF Load, TypeOK
<1>5. ASSUME Edit(v) PROVE TypeOK'
  <2>1. done' \in Counts
    BY <1>5, CountKeeps DEF Edit
  <2>2. layout' \in [Views -> SUBSET Edits]
    <3>1. done.edits + 1 \in Edits
      BY <1>5, ViewsAssumption DEF Edit, TypeOK, Counts, Edits
    <3>. QED  BY <1>5, <3>1 DEF Edit, TypeOK
  <2>3. timers' \in [Views -> SUBSET {"save", "retry", "soon"}] /\ pending' \in [Views -> BOOLEAN]
    <3>1. timers' = timers \/ timers' = [timers EXCEPT ![v] = (timers[v] \ {"retry"}) \cup {"save"}]
      BY <1>5 DEF Edit
    <3>2. timers' \in [Views -> SUBSET {"save", "retry", "soon"}]
      <4>1. \E T : T \subseteq {"save", "retry", "soon"} /\ (timers' = timers \/ timers' = [timers EXCEPT ![v] = T])
        BY <3>1, TimersOf
      <4>. QED  BY <4>1, TimersAt DEF TypeOK
    <3>3. pending' \in [Views -> BOOLEAN]
      BY <1>5 DEF Edit, TypeOK
    <3>. QED  BY <3>2, <3>3
  <2>. QED  BY <1>5, <2>1, <2>2, <2>3 DEF Edit, TypeOK
<1>6. ASSUME NEW t \in {"save", "retry", "soon"}, Persist(v, t) PROVE TypeOK'
  <2>1. save' \in [Views -> [Kinds -> Saves]]
    <3>1. save' = save \/ Put(v, "auto", current[v])
      BY <1>6 DEF Persist
    <3>2. "auto" \in Kinds /\ current[v] \in Owned
      BY DEF Kinds, TypeOK
    <3>. QED  BY <3>1, <3>2, PutKeeps DEF TypeOK
  <2>2. timers' \in [Views -> SUBSET {"save", "retry", "soon"}] /\ pending' \in [Views -> BOOLEAN]
    <3>1. timers' = [timers EXCEPT ![v] = timers[v] \ {t}] \/ timers' = [timers EXCEPT ![v] = timers[v] \ {t, "save", "retry"}]
      BY <1>6 DEF Persist
    <3>2. timers' \in [Views -> SUBSET {"save", "retry", "soon"}]
      <4>1. \E T : T \subseteq {"save", "retry", "soon"} /\ (timers' = timers \/ timers' = [timers EXCEPT ![v] = T])
        BY <3>1, TimersOf
      <4>. QED  BY <4>1, TimersAt DEF TypeOK
    <3>3. pending' \in [Views -> BOOLEAN]
      BY <1>6 DEF Persist, TypeOK
    <3>. QED  BY <3>2, <3>3
  <2>. QED  BY <1>6, <2>1, <2>2 DEF Persist, TypeOK
<1>7. ASSUME NEW k \in Kinds, SaveLands(v, k) PROVE TypeOK'
  <2>1. save' \in [Views -> [Kinds -> Saves]]
    BY <1>7, AnsweredKeeps DEF SaveLands
  <2>2. file' \in [Names -> SUBSET Edits]
    <3>1. save[v][k] \in Saves
      BY DEF TypeOK
    <3>2. save[v][k].what \in SUBSET Edits
      BY <3>1 DEF Saves
    <3>. QED  BY <1>7, <3>2 DEF SaveLands, TypeOK
  <2>3. trespass' \in BOOLEAN
    BY <1>7 DEF SaveLands, TypeOK
  <2>. QED  BY <1>7, <2>1, <2>2, <2>3 DEF SaveLands, TypeOK
<1>8. ASSUME NEW k \in Kinds, SaveFails(v, k) PROVE TypeOK'
  <2>1. save' \in [Views -> [Kinds -> Saves]] /\ done' \in Counts
    BY <1>8, AnsweredKeeps, CountKeeps DEF SaveFails
  <2>. QED  BY <1>8, <2>1 DEF SaveFails, TypeOK
<1>9. ASSUME AutoSaved(v) PROVE TypeOK'
  <2>1. save' \in [Views -> [Kinds -> Saves]]
    BY <1>9, NoSaveKeeps DEF AutoSaved, Kinds
  <2>2. timers' \in [Views -> SUBSET {"save", "retry", "soon"}]
    <3>1. timers' = timers \/ timers' = [timers EXCEPT ![v] = timers[v]] \/ timers' = [timers EXCEPT ![v] = timers[v] \cup {"soon"}] \/ timers' = [timers EXCEPT ![v] = timers[v] \cup {"retry"}]
      BY <1>9 DEF AutoSaved
    <3>2. timers' \in [Views -> SUBSET {"save", "retry", "soon"}]
      <4>1. \E T : T \subseteq {"save", "retry", "soon"} /\ (timers' = timers \/ timers' = [timers EXCEPT ![v] = T])
        BY <3>1, TimersOf
      <4>. QED  BY <4>1, TimersAt DEF TypeOK
    <3>. QED  BY <3>2
  <2>3. pending' \in [Views -> BOOLEAN]
    <3>1. (pending[v] \/ current[v] = save[v]["auto"].to) \in BOOLEAN
      OBVIOUS
    <3>. QED  BY <1>9, <3>1 DEF AutoSaved, TypeOK
  <2>. QED  BY <1>9, <2>1, <2>2, <2>3 DEF AutoSaved, TypeOK
<1>10. ASSUME Beat(v) PROVE TypeOK'
  <2>1. [at |-> "sent", name |-> current[v]] \in Recovers
    BY DEF TypeOK, Recovers
  <2>. QED  BY <1>10, <2>1 DEF Beat, TypeOK
<1>11. ASSUME RecoverServed(v) PROVE TypeOK'
  <2>1. recover' \in [Views -> Recovers]
    <3>1. \E r \in Recovers : recover' = [recover EXCEPT ![v] = r]
      BY <1>11, CallKeeps, Members DEF RecoverServed
    <3>. QED  BY <3>1 DEF TypeOK
  <2>2. claim' \in [Views -> Owned \cup {Absent}]
    BY <1>11, CallKeeps DEF RecoverServed, TypeOK
  <2>3. astray' \in [Views -> BOOLEAN]
    <3>1. (astray[v] \/ rename[v] # NoCall) \in BOOLEAN
      OBVIOUS
    <3>. QED  BY <1>11, <3>1 DEF RecoverServed, TypeOK
  <2>. QED  BY <1>11, <2>1, <2>2, <2>3 DEF RecoverServed, TypeOK
<1>12. ASSUME Recovered(v) PROVE TypeOK'
  <2>1. recover' \in [Views -> Recovers] /\ current' \in [Views -> Owned]
    BY <1>12, Members DEF Recovered, TypeOK
  <2>2. astray' \in [Views -> BOOLEAN]
    <3>1. (astray[v] \/ current[v] # recover[v].name) \in BOOLEAN
      OBVIOUS
    <3>. QED  BY <1>12, <3>1 DEF Recovered, TypeOK
  <2>3. timers' \in [Views -> SUBSET {"save", "retry", "soon"}]
    <3>1. timers' = timers \/ timers' = [timers EXCEPT ![v] = timers[v] \ {"save"}]
      BY <1>12 DEF Recovered
    <3>2. timers' \in [Views -> SUBSET {"save", "retry", "soon"}]
      <4>1. \E T : T \subseteq {"save", "retry", "soon"} /\ (timers' = timers \/ timers' = [timers EXCEPT ![v] = T])
        BY <3>1, TimersOf
      <4>. QED  BY <4>1, TimersAt DEF TypeOK
    <3>. QED  BY <3>2
  <2>. QED  BY <1>12, <2>1, <2>2, <2>3 DEF Recovered, TypeOK
<1>13. ASSUME NEW n \in Names, Rename(v, n) PROVE TypeOK'
  <2>1. [at |-> "sent", name |-> n] \in Renames
    BY Members DEF Renames
  <2>2. done' \in Counts
    <3>1. CASE Count("renames")
      BY <1>13, <3>1, CountKeeps DEF Rename
    <3>2. CASE done.faults < MaxFaults /\ done' = [done EXCEPT !.renames = @ + 1, !.faults = @ + 1]
      <4>1. done \in Counts /\ done.renames < MaxRenames
        BY <1>13 DEF Rename, TypeOK
      <4>2. done.edits \in 0 .. MaxEdits /\ done.renames + 1 \in 0 .. MaxRenames /\ done.faults + 1 \in 0 .. MaxFaults
        BY <3>2, <4>1, ViewsAssumption DEF Counts
      <4>. QED  BY <3>2, <4>1, <4>2 DEF Counts
    <3>. QED  BY <1>13, <3>1, <3>2 DEF Rename
  <2>. QED  BY <1>13, <2>1, <2>2 DEF Rename, TypeOK
<1>14. ASSUME ClaimServed(v) PROVE TypeOK'
  <2>1. rename' \in [Views -> Renames]
    BY <1>14, CallKeeps, Members DEF ClaimServed, TypeOK
  <2>2. claim' \in [Views -> Owned \cup {Absent}]
    BY <1>14, CallKeeps DEF ClaimServed, TypeOK
  <2>3. stale' \in [Views -> BOOLEAN]
    BY <1>14 DEF ClaimServed, TypeOK
  <2>4. astray' \in [Views -> BOOLEAN]
    <3>1. (astray[v] \/ claim[v] = Absent) \in BOOLEAN
      OBVIOUS
    <3>. QED  BY <1>14, <3>1 DEF ClaimServed, TypeOK
  <2>. QED  BY <1>14, <2>1, <2>2, <2>3, <2>4 DEF ClaimServed, TypeOK
<1>15. ASSUME RenameGoesOn(v) PROVE TypeOK'
  <2>1. save' \in [Views -> [Kinds -> Saves]]
    BY <1>15, PutKeeps, CallKeeps DEF RenameGoesOn, Kinds
  <2>2. [at |-> "saves", name |-> current[v]] \in Renames
    BY DEF TypeOK, Renames
  <2>3. current' \in [Views -> Owned] /\ rename' \in [Views -> Renames]
    BY <1>15, <2>2, CallKeeps DEF RenameGoesOn, TypeOK
  <2>4. stale' \in [Views -> BOOLEAN]
    BY <1>15 DEF RenameGoesOn, TypeOK
  <2>5. timers' \in [Views -> SUBSET {"save", "retry", "soon"}]
    BY <1>15 DEF RenameGoesOn, TypeOK
  <2>. QED  BY <1>15, <2>1, <2>3, <2>4, <2>5 DEF RenameGoesOn, TypeOK
<1>16. ASSUME RenameStops(v) PROVE TypeOK'
  BY <1>16, Members DEF RenameStops, TypeOK
<1>17. ASSUME RenameSaved(v) PROVE TypeOK'
  <2>1. save' \in [Views -> [Kinds -> Saves]]
    BY <1>17, NoSaveKeeps DEF RenameSaved, Kinds
  <2>2. rename' \in [Views -> Renames] /\ current' \in [Views -> Owned]
    <3>1. \E r \in Renames : rename' = [rename EXCEPT ![v] = r]
      BY <1>17, CallKeeps, Members DEF RenameSaved
    <3>2. current' = current \/ current' = [current EXCEPT ![v] = rename[v].name]
      BY <1>17 DEF RenameSaved
    <3>3. rename' \in [Views -> Renames]
      BY <3>1 DEF TypeOK
    <3>4. current' \in [Views -> Owned]
      BY <3>2, CallKeeps DEF TypeOK
    <3>. QED  BY <3>3, <3>4
  <2>. QED  BY <1>17, <2>1, <2>2 DEF RenameSaved, TypeOK
<1>18. ASSUME ClaimsBack(v) PROVE TypeOK'
  <2>1. rename' \in [Views -> Renames] /\ claim' \in [Views -> Owned \cup {Absent}]
    BY <1>18, CallKeeps, Members DEF ClaimsBack, TypeOK
  <2>2. stale' \in [Views -> BOOLEAN]
    <3>1. (stale[v] \/ rename[v].name \notin {NoName, claim[v]}) \in BOOLEAN
      OBVIOUS
    <3>. QED  BY <1>18, <3>1 DEF ClaimsBack, TypeOK
  <2>3. astray' \in [Views -> BOOLEAN]
    BY <1>18 DEF ClaimsBack, TypeOK
  <2>. QED  BY <1>18, <2>1, <2>2, <2>3 DEF ClaimsBack, TypeOK
<1>19. ASSUME Close(v) PROVE TypeOK'
  <2>1. save' \in [Views -> [Kinds -> Saves]]
    <3>1. save' = save \/ Put(v, "close", current[v])
      BY <1>19 DEF Close
    <3>2. "close" \in Kinds /\ current[v] \in Owned
      BY DEF Kinds, TypeOK
    <3>. QED  BY <3>1, <3>2, PutKeeps DEF TypeOK
  <2>2. timers' \in [Views -> SUBSET {"save", "retry", "soon"}]
    BY <1>19 DEF Close, TypeOK
  <2>3. pc' \in [Views -> {"closed", "boots", "loads", "live", "closing", "leaving"}]
    BY <1>19 DEF Close, TypeOK
  <2>. QED  BY <1>19, <2>1, <2>2, <2>3 DEF Close, TypeOK
<1>20. ASSUME CloseSaved(v) PROVE TypeOK'
  <2>1. save' \in [Views -> [Kinds -> Saves]]
    BY <1>20, NoSaveKeeps DEF CloseSaved, Kinds
  <2>2. /\ pc' \in [Views -> {"closed", "boots", "loads", "live", "closing", "leaving"}]
        /\ timers' \in [Views -> SUBSET {"save", "retry", "soon"}]
        /\ pending' \in [Views -> BOOLEAN]
    BY <1>20, StaysKeeps DEF CloseSaved, TypeOK
  <2>. QED  BY <1>20, <2>1, <2>2 DEF CloseSaved, TypeOK
<1>21. ASSUME CloseFails(v) PROVE TypeOK'
  <2>1. done' \in Counts
    BY <1>21, CountKeeps DEF CloseFails
  <2>. QED  BY <1>21, <2>1, StaysKeeps DEF CloseFails, TypeOK
<1>22. ASSUME Leave(v) PROVE TypeOK'
  <2>1. save' \in [Views -> [Kinds -> Saves]]
    <3>. DEFINE left == [k \in Kinds |-> IF save[v][k].at = "sent" THEN save[v][k] ELSE NoSave]
    <3>1. left \in [Kinds -> Saves]
      BY Members DEF TypeOK
    <3>2. save' = [save EXCEPT ![v] = left]
      BY <1>22 DEF Leave
    <3>. HIDE DEF left
    <3>. QED  BY <3>1, <3>2 DEF TypeOK
  <2>2. recover' \in [Views -> Recovers] /\ rename' \in [Views -> Renames]
    BY <1>22, Members DEF Leave, TypeOK
  <2>. QED  BY <1>22, <2>1, <2>2, Members DEF Leave, TypeOK
<1>. QED
  BY <1>1, <1>2, <1>3, <1>4, <1>5, <1>6, <1>7, <1>8, <1>9, <1>10, <1>11, <1>12, <1>13, <1>14, <1>15, <1>16, <1>17,
     <1>18, <1>19, <1>20, <1>21, <1>22 DEF Steps, Due, Served

-----------------------------------------------------------------------------
(* One owner. *)

\* A name that is granted was nobody else's.
LEMMA GrantKeeps ==
    ASSUME TypeOK, OneOwner, NEW v \in Views, NEW n \in Owned \cup {Absent}, n = Absent \/ Free(v, n),
           claim' = [claim EXCEPT ![v] = n]
    PROVE  OneOwner'
BY DEF TypeOK, OneOwner, Free

\* No step of a view gives it a workspace another one owns: every grant is of a name that is free.
LEMMA OwnerStep ==
    ASSUME TypeOK, OneOwner, NEW v \in Views, Steps(v)
    PROVE  OneOwner'
<1>1. CASE claim' = claim
  BY <1>1 DEF OneOwner
<1>2. CASE Expire(v) \/ Leave(v)
  <2>1. claim' = [claim EXCEPT ![v] = Absent]
    BY <1>2 DEF Expire, Leave
  <2>. QED  BY <2>1, GrantKeeps
<1>3. ASSUME NEW n \in Owned, Open(v, n) PROVE OneOwner'
  BY <1>3, GrantKeeps DEF Open
<1>4. CASE Boot(v)
  <2>1. current[v] \in Owned /\ NoName \in Owned /\ Free(v, NoName)
    BY DEF TypeOK, Owned, Free
  <2>2. \E n \in Owned : Free(v, n) /\ claim' = [claim EXCEPT ![v] = n]
    BY <1>4, <2>1 DEF Boot
  <2>. QED  BY <2>2, GrantKeeps
<1>5. CASE RecoverServed(v) /\ claim' # claim
  <2>1. Free(v, recover[v].name) /\ claim' = [claim EXCEPT ![v] = recover[v].name] /\ recover[v].name \in Owned
    BY <1>5, CallKeeps DEF RecoverServed
  <2>. QED  BY <2>1, GrantKeeps
<1>6. CASE (ClaimServed(v) \/ ClaimsBack(v)) /\ claim' # claim
  <2>1. Free(v, rename[v].name) /\ claim' = [claim EXCEPT ![v] = rename[v].name] /\ rename[v].name \in Owned
    BY <1>6, CallKeeps DEF ClaimServed, ClaimsBack
  <2>. QED  BY <2>1, GrantKeeps
\* Every other step leaves the registry alone.
<1>7. CASE UNCHANGED claim
  BY <1>1, <1>7
<1>8. \/ UNCHANGED claim \/ Expire(v) \/ Leave(v) \/ Boot(v) \/ RecoverServed(v) \/ ClaimServed(v) \/ ClaimsBack(v)
      \/ \E n \in Owned : Open(v, n)
  BY DEF Steps, Due, Served, registry, Load, AutoSaved, Beat, Recovered, RenameGoesOn, RenameStops, RenameSaved, CloseSaved,
         Persist, SaveLands, SaveFails, Edit, Close, CloseFails, Rename
<1>. QED  BY <1>2, <1>3, <1>4, <1>5, <1>6, <1>7, <1>8

-----------------------------------------------------------------------------
(* What a view owns. *)

\* A step of one view touches nothing of another.
LEMMA OthersKeep ==
    ASSUME TypeOK, NEW v \in Views, Steps(v), NEW w \in Views, w # v
    PROVE  /\ claim'[w] = claim[w] /\ pc'[w] = pc[w] /\ current'[w] = current[w]
           /\ recover'[w] = recover[w] /\ rename'[w] = rename[w] /\ astray'[w] = astray[w]
           /\ save'[w] = save[w]
BY DEF TypeOK, Steps, Due, Served, registry, autosave, calls, history, Put, Answered, Boot, Load, AutoSaved, Beat, Recovered, RenameGoesOn,
       RenameStops, RenameSaved, CloseSaved, StaysOpen, Leave, Persist, RecoverServed, ClaimServed, ClaimsBack, SaveLands,
       SaveFails, Expire, Edit, Close, CloseFails, Open, Rename

\* A step that leaves what the relation is about.
LEMMA KeepsStays ==
    ASSUME NEW v \in Views, Keeps(v), UNCHANGED <<claim, current, recover, rename, astray>>,
           pc' = pc \/ (pc'[v] # "boots" /\ pc[v] # "closed")
    PROVE  Keeps(v)'
BY DEF Keeps, Unregistered, Fresh, Settled, OwnsByRename

\* A step of a view keeps what its rename and its recovery say of its entry.
LEMMA KeepsStep ==
    ASSUME TypeOK, NEW v \in Views, Holds(v), Steps(v)
    PROVE  Keeps(v)'
<1>. USE DEF registry, autosave, calls, history
<1>. SUFFICES ASSUME Keeps(v), Saving(v) PROVE Keeps(v)'
  BY DEF Holds
<1>1. CASE Expire(v)
  BY <1>1 DEF Expire, TypeOK, Keeps, Unregistered, Fresh, Settled, OwnsByRename
<1>2. ASSUME NEW n \in Owned, Open(v, n) PROVE Keeps(v)'
  BY <1>2 DEF Open, NoCall, TypeOK, Keeps, Unregistered, Fresh, Settled, OwnsByRename
<1>3. CASE Boot(v)
  BY <1>3 DEF Boot, TypeOK, Keeps, Unregistered, Fresh, Settled, OwnsByRename
<1>4. CASE Beat(v)
  BY <1>4 DEF Beat, OnScreen, TypeOK, Keeps, Unregistered, Fresh, Settled, OwnsByRename
<1>5. CASE RecoverServed(v)
  <2>1. /\ recover'[v] = IF pc[v] = "closed" THEN NoCall
                         ELSE [recover[v] EXCEPT !.at = IF Free(v, recover[v].name) THEN "ok" ELSE "refused"]
        /\ claim'[v] = IF Free(v, recover[v].name) THEN recover[v].name ELSE claim[v]
        /\ astray'[v] = (astray[v] \/ rename[v] # NoCall)
        /\ UNCHANGED <<pc, current, rename>> /\ recover[v].at = "sent"
    BY <1>5 DEF RecoverServed, TypeOK
  <2>2. /\ recover'[v].at = IF pc[v] = "closed" THEN "none" ELSE IF Free(v, recover[v].name) THEN "ok" ELSE "refused"
        /\ pc[v] # "closed" => recover'[v].name = recover[v].name
    BY <2>1 DEF NoCall, TypeOK, Recovers
  <2>3. claim[v] = Absent
    BY <2>1 DEF Keeps, Unregistered
  <2>4. ASSUME rename[v] # NoCall PROVE Settled(v)'
    <3>1. astray'[v] = TRUE
      BY <2>1, <2>4, Zenon
    <3>. QED  BY <3>1, Zenon DEF Settled
  <2>7. ASSUME rename[v] = NoCall PROVE Settled(v)'
    <3>1. rename'[v].at = "none"
      BY <2>1, <2>7 DEF NoCall
    <3>. QED  BY <2>1, <2>2, <2>3, <3>1 DEF Settled, OwnsByRename
  <2>5. Unregistered(v)' /\ Fresh(v)'
    BY <2>1, <2>2, <2>3 DEF Keeps, Unregistered, Fresh
  <2>6. Settled(v)'
    BY <2>4, <2>7
  <2>. QED  BY <2>5, <2>6 DEF Keeps
<1>6. CASE Recovered(v)
  BY <1>6 DEF Recovered, OnScreen, NoCall, TypeOK, Recovers, Keeps, Unregistered, Fresh, Settled, OwnsByRename
<1>7. ASSUME NEW n \in Names, Rename(v, n) PROVE Keeps(v)'
  BY <1>7 DEF Rename, TypeOK, Keeps, Unregistered, Fresh, Settled, OwnsByRename
<1>8. CASE ClaimServed(v)
  BY <1>8 DEF ClaimServed, NoCall, TypeOK, Renames, Keeps, Unregistered, Fresh, Settled, OwnsByRename
<1>9. CASE RenameGoesOn(v)
  BY <1>9 DEF RenameGoesOn, OnScreen, TypeOK, Keeps, Unregistered, Fresh, Settled, OwnsByRename
<1>10. CASE RenameStops(v)
  BY <1>10 DEF RenameStops, OnScreen, NoCall, TypeOK, Keeps, Unregistered, Fresh, Settled, OwnsByRename
<1>11. CASE RenameSaved(v)
  <2>1. /\ \/ rename'[v] = NoCall /\ current'[v] = current[v]
           \/ rename'[v] = [rename[v] EXCEPT !.at = "back"] /\ current'[v] = rename[v].name
        /\ UNCHANGED <<pc, claim, recover, astray>> /\ pc[v] \notin {"boots", "closed"}
        /\ save[v]["rename"].at # "none"
    BY <1>11 DEF RenameSaved, OnScreen, TypeOK
  <2>2. rename[v].at = "saves"
    BY <2>1 DEF Saving
  <2>3. \/ rename'[v].at = "none" /\ current'[v] = current[v]
        \/ rename'[v].at = "back" /\ current'[v] = rename'[v].name
    BY <2>1 DEF NoCall, TypeOK, Renames
  <2>4. Unregistered(v)' /\ Fresh(v)'
    BY <2>1 DEF Keeps, Unregistered, Fresh
  <2>5. Settled(v)'
    BY <2>1, <2>2, <2>3 DEF Keeps, Settled, OwnsByRename
  <2>. QED  BY <2>4, <2>5 DEF Keeps
<1>12. CASE ClaimsBack(v)
  <2>1. /\ rename'[v].at = "none" /\ rename[v].at = "back"
        /\ UNCHANGED <<pc, current, recover>>
        /\ \/ claim'[v] = rename[v].name /\ claim[v] # Absent /\ astray'[v] = astray[v]
           \/ claim'[v] = claim[v] /\ astray'[v] = (astray[v] \/ rename[v].name # NoName)
              /\ ~(claim[v] # Absent /\ Free(v, rename[v].name))
    BY <1>12 DEF ClaimsBack, NoCall, TypeOK
  <2>2. rename[v].name = NoName => Free(v, rename[v].name)
    BY DEF Free
  <2>. QED  BY <2>1, <2>2 DEF Keeps, Unregistered, Fresh, Settled, OwnsByRename
<1>13. CASE Leave(v)
  BY <1>13 DEF Leave, NoCall, TypeOK, Keeps, Unregistered, Fresh, Settled, OwnsByRename
<1>14. CASE Load(v) \/ Close(v) \/ CloseSaved(v) \/ CloseFails(v)
  BY <1>14, KeepsStays DEF Load, Close, CloseSaved, CloseFails, StaysOpen, TypeOK
<1>15. CASE AutoSaved(v) \/ Edit(v) \/ (\E t \in {"save", "retry", "soon"} : Persist(v, t))
             \/ (\E k \in Kinds : SaveLands(v, k) \/ SaveFails(v, k))
  BY <1>15, KeepsStays DEF AutoSaved, Edit, Persist, SaveLands, SaveFails
<1>. QED
  BY <1>1, <1>2, <1>3, <1>4, <1>5, <1>6, <1>7, <1>8, <1>9, <1>10, <1>11, <1>12, <1>13, <1>14, <1>15 DEF Steps, Due, Served

\* What a step does to the PUT of the rename.
LEMMA SavingStep ==
    ASSUME TypeOK, NEW v \in Views, Holds(v), Steps(v)
    PROVE  Saving(v)'
<1>. USE DEF registry, autosave, calls, history
<1>. SUFFICES ASSUME Saving(v) PROVE Saving(v)'
  BY DEF Holds
<1>1. CASE UNCHANGED <<save, rename>> /\ (pc[v] = "closed" => pc'[v] = "closed")
  BY <1>1 DEF Saving
<1>2. CASE Expire(v) \/ Boot(v) \/ Load(v) \/ Beat(v) \/ RecoverServed(v) \/ Recovered(v) \/ Edit(v) \/ CloseFails(v)
  BY <1>1, <1>2 DEF Expire, Boot, Load, Beat, RecoverServed, Recovered, Edit, CloseFails, StaysOpen, OnScreen, TypeOK
<1>3. ASSUME NEW n \in Owned, Open(v, n) PROVE Saving(v)'
  BY <1>3 DEF Open, NoSave, Kinds, Saving
<1>4. CASE AutoSaved(v) \/ CloseSaved(v)
  BY <1>4 DEF AutoSaved, CloseSaved, OnScreen, StaysOpen, Kinds, TypeOK, Saving
<1>5. CASE Close(v) \/ \E t \in {"save", "retry", "soon"} : Persist(v, t)
  BY <1>5 DEF Close, Persist, Put, OnScreen, Kinds, TypeOK, Saving
<1>6. ASSUME NEW n \in Names, Rename(v, n) PROVE Saving(v)'
  BY <1>6 DEF Rename, TypeOK, Saving
<1>7. CASE ClaimServed(v) \/ ClaimsBack(v)
  BY <1>7 DEF ClaimServed, ClaimsBack, TypeOK, Saving
<1>8. CASE RenameGoesOn(v)
  BY <1>8 DEF RenameGoesOn, TypeOK, Saving
<1>9. CASE RenameStops(v)
  BY <1>9 DEF RenameStops, OnScreen, TypeOK, Saving
<1>10. CASE RenameSaved(v)
  BY <1>10 DEF RenameSaved, NoSave, Kinds, TypeOK, Saving
<1>11. CASE Leave(v)
  BY <1>11 DEF Leave, TypeOK, Saving
<1>12. ASSUME NEW k \in Kinds, SaveLands(v, k) \/ SaveFails(v, k) PROVE Saving(v)'
  <2>1. /\ UNCHANGED <<pc, rename>> /\ save[v][k].at = "sent"
        /\ \E at \in {"landed", "failed"} : Answered(v, k, at)
    BY <1>12 DEF SaveLands, SaveFails
  <2>2. save'[v]["rename"].at # "none" => save[v]["rename"].at # "none"
    <3>1. CASE k = "rename"
      BY <2>1, <3>1
    <3>2. CASE k # "rename"
      <4>1. save'[v]["rename"] = [save[v]["rename"] EXCEPT !.after = @ \ {k}]
        BY <2>1, <3>2 DEF Answered, Kinds, TypeOK
      <4>2. save[v]["rename"] \in Saves
        BY DEF TypeOK, Kinds
      <4>. QED  BY <4>1, <4>2 DEF Saves
    <3>. QED  BY <3>1, <3>2
  <2>. QED  BY <2>1, <2>2 DEF Saving
<1>. QED
  BY <1>2, <1>3, <1>4, <1>5, <1>6, <1>7, <1>8, <1>9, <1>10, <1>11, <1>12 DEF Steps, Due, Served

-----------------------------------------------------------------------------
(* The invariant, and what follows from it. *)

\* The strengthening holds at the start and of every step.
THEOREM Invariance == Spec => []IInv
<1>1. Init => IInv
  <2>. SUFFICES ASSUME Init PROVE IInv
    OBVIOUS
  <2>1. OneOwner /\ \A v \in Views : Holds(v)
    BY DEF Init, OneOwner, Holds, Saving, Keeps, Unregistered, Fresh, Settled, NoCall
  <2>. QED  BY <2>1, TypeInit DEF IInv
<1>2. IInv /\ [Next]_vars => IInv'
  <2>. SUFFICES ASSUME IInv, [Next]_vars PROVE IInv'
    OBVIOUS
  <2>1. CASE UNCHANGED vars
    BY <2>1 DEF vars, registry, autosave, calls, history, IInv, TypeOK, OneOwner, Holds, Saving, Keeps, Unregistered, Fresh, Settled,
                OwnsByRename
  <2>2. ASSUME NEW v \in Views, Steps(v) PROVE IInv'
    <3>1. TypeOK' /\ OneOwner' /\ Holds(v)'
      BY <2>2, TypeStep, OwnerStep, KeepsStep, SavingStep DEF IInv, Holds
    <3>2. ASSUME NEW w \in Views, w # v PROVE Holds(w)'
      <4>1. Holds(w) /\ TypeOK
        BY DEF IInv
      <4>2. /\ claim'[w] = claim[w] /\ pc'[w] = pc[w] /\ current'[w] = current[w]
            /\ recover'[w] = recover[w] /\ rename'[w] = rename[w] /\ astray'[w] = astray[w]
            /\ save'[w] = save[w]
        BY <2>2, <3>2, <4>1, OthersKeep
      <4>3. Saving(w)' /\ Unregistered(w)' /\ Fresh(w)'
        BY <4>1, <4>2 DEF Holds, Saving, Keeps, Unregistered, Fresh
      <4>4. Settled(w)'
        BY <4>1, <4>2 DEF Holds, Keeps, Settled, OwnsByRename
      <4>. QED  BY <4>3, <4>4 DEF Holds, Keeps
    <3>. QED  BY <3>1, <3>2 DEF IInv
  <2>. QED  BY <2>1, <2>2 DEF Next, Steps
<1>. QED  BY <1>1, <1>2, PTL DEF Spec

\* Every variable keeps its type, however many views there are.
THEOREM TypeCorrect == Spec => []TypeOK
<1>1. IInv => TypeOK
  BY DEF IInv
<1>. QED  BY <1>1, Invariance, PTL

\* No two views own one workspace ("Two windows must never own the same workspace").
THEOREM Exclusive == Spec => []OneOwner
<1>1. IInv => OneOwner
  BY DEF IInv
<1>. QED  BY <1>1, Invariance, PTL

\* A settled view the registry knows writes what it owns.
THEOREM WritersOwn == Spec => []WriterOwns
<1>1. IInv => WriterOwns
  BY DEF IInv, WriterOwns, Holds, Keeps, Settled, OwnsByRename, OnScreen
<1>. QED  BY <1>1, Invariance, PTL

-----------------------------------------------------------------------------
(* What is in flight: the strengthening for SavedIsKept. *)

Sent(v, k) == save[v][k].at = "sent"

\* What is sent, or will be by a rename, is for a workspace that has a name.
Named(v) ==
    /\ \A k \in Kinds : Sent(v, k) => save[v][k].to \in Names
    /\ rename[v].at \in {"sent", "granted"} => rename[v].name \in Names

\* A document sends nothing before it has loaded, and a close only while it closes.
Sends(v) ==
    /\ pc[v] \in {"boots", "loads"} => \A k \in Kinds : save[v][k].at = "none"
    /\ pc[v] # "closing" => save[v]["close"].at = "none"

\* Its PUTs for one workspace are chained, and each has all the one before it had.
Grows(v) == \A j, k \in Kinds :
    Sent(v, k) /\ j \in save[v][k].after => Sent(v, j) /\ save[v][j].what \subseteq save[v][k].what
Chained(v) == \A j, k \in Kinds :
    j # k /\ Sent(v, j) /\ Sent(v, k) /\ save[v][j].to = save[v][k].to
      => j \in save[v][k].after \/ k \in save[v][j].after

\* The screen has all that was sent; while the view has its workspace, what was sent
\* is for it, and has all that its file has, as the screen does.
Covers(v) == OnScreen(v) => \A k \in Kinds : Sent(v, k) => save[v][k].what \subseteq layout[v]
Owns(v) == OnScreen(v) /\ ~stale[v] =>
    claim[v] # Absent /\ \A k \in Kinds : Sent(v, k) => save[v][k].to = current[v]
Extends(v) == ~trespass /\ OnScreen(v) /\ ~stale[v] /\ claim[v] \in Names =>
    /\ file[claim[v]] \subseteq layout[v]
    /\ \A k \in Kinds : Sent(v, k) /\ save[v][k].to = claim[v] => file[claim[v]] \subseteq save[v][k].what

\* A view that has closed left nothing behind: its last PUT waited for the others.
Empties(v) ==
    /\ ~stale[v] /\ pc[v] \in {"leaving", "closed"} => \A k \in Kinds : ~Sent(v, k)
    /\ ~stale[v] /\ pc[v] = "closing" => \A k \in Kinds :
         Sent(v, k) => k = "close" \/ (Sent(v, "close") /\ k \in save[v]["close"].after)

InOrder(v) == Named(v) /\ Sends(v) /\ Grows(v) /\ Chained(v) /\ Covers(v)
Safe(v) == InOrder(v) /\ Owns(v) /\ Extends(v) /\ Empties(v)
SInv == \A v \in Views : Safe(v)

-----------------------------------------------------------------------------
(* What a step does to the PUTs that are in flight. *)

\* They are the same,
SentSame(v) == \A k \in Kinds : (Sent(v, k)' <=> Sent(v, k)) /\ (Sent(v, k) => save'[v][k] = save[v][k])

\* one more is sent,
PutSent(v, k, n) ==
    /\ ~Sent(v, k) /\ Sent(v, k)' /\ OnScreen(v)
    /\ save'[v][k].to = n /\ save'[v][k].what = layout[v] /\ save'[v][k].after = InFlight(v, n)
    /\ \A j \in Kinds \ {k} : save'[v][j] = save[v][j]

\* or the first of them is answered.
PutGone(v, k) ==
    /\ Sent(v, k) /\ save[v][k].after = {} /\ ~Sent(v, k)'
    /\ \A j \in Kinds \ {k} :
          /\ Sent(v, j)' <=> Sent(v, j)
          /\ Sent(v, j) => /\ save'[v][j].to = save[v][j].to /\ save'[v][j].what = save[v][j].what
                           /\ save'[v][j].after = save[v][j].after \ {k}

\* A PUT, sent for a kind that has none.
LEMMA PutSends ==
    ASSUME TypeOK, NEW v \in Views, NEW k \in Kinds, NEW n, save[v][k].at = "none", OnScreen(v), Put(v, k, n)
    PROVE  PutSent(v, k, n)
<1>1. save'[v][k] = [at |-> "sent", to |-> n, what |-> layout[v], after |-> InFlight(v, n)]
  BY DEF Put, TypeOK
<1>2. \A j \in Kinds \ {k} : save'[v][j] = save[v][j]
  BY DEF Put, TypeOK
<1>. QED  BY <1>1, <1>2 DEF PutSent, Sent

\* An answer.
LEMMA AnsweredGone ==
    ASSUME TypeOK, NEW v \in Views, NEW k \in Kinds, NEW at \in {"landed", "failed"}, Sent(v, k), First(v, k),
           Answered(v, k, at)
    PROVE  PutGone(v, k)
<1>1. save'[v] = [j \in Kinds |->
        IF j # k THEN [save[v][j] EXCEPT !.after = @ \ {k}]
        ELSE IF pc[v] = "closed" THEN NoSave ELSE [save[v][k] EXCEPT !.at = at]]
  BY DEF Answered, TypeOK
<1>2. \A j \in Kinds : save[v][j] \in Saves
  BY DEF TypeOK
<1>3. ~Sent(v, k)'
  <2>1. save'[v][k] = IF pc[v] = "closed" THEN NoSave ELSE [save[v][k] EXCEPT !.at = at]
    BY <1>1
  <2>. QED  BY <1>2, <2>1 DEF NoSave, Saves, Sent
<1>4. ASSUME NEW j \in Kinds \ {k}
      PROVE  /\ save'[v][j].at = save[v][j].at /\ save'[v][j].to = save[v][j].to
             /\ save'[v][j].what = save[v][j].what /\ save'[v][j].after = save[v][j].after \ {k}
  <2>1. save'[v][j] = [save[v][j] EXCEPT !.after = @ \ {k}]
    BY <1>1
  <2>. QED  BY <1>2, <2>1 DEF Saves
<1>. QED  BY <1>3, <1>4 DEF PutGone, Sent, First

\* A save that is over is forgotten.
LEMMA ClearedSame ==
    ASSUME TypeOK, NEW v \in Views, NEW k \in Kinds, ~Sent(v, k), save' = [save EXCEPT ![v][k] = NoSave]
    PROVE  SentSame(v)
BY DEF TypeOK, SentSame, Sent, NoSave

\* A save is the same when all of them are.
LEMMA SameSent ==
    ASSUME NEW v \in Views, save'[v] = save[v]
    PROVE  SentSame(v)
BY DEF SentSame, Sent

\* What the steps of a view that touch its PUTs do to them.
LEMMA SentStep ==
    ASSUME TypeOK, NEW v \in Views, Saving(v), Named(v), Sends(v), Steps(v)
    PROVE  \/ SentSame(v)
           \/ \E n \in Names : PutSent(v, "auto", n) /\ n = current[v] /\ pc[v] = "live" /\ UNCHANGED <<pc, current>>
           \/ PutSent(v, "rename", rename[v].name) /\ rename[v].name \in Names /\ RenameGoesOn(v)
           \/ \E n \in Names : PutSent(v, "close", n) /\ n = current[v] /\ Close(v)
           \/ \E k \in Kinds : PutGone(v, k) /\ (SaveLands(v, k) \/ SaveFails(v, k))
<1>. USE DEF registry, autosave, calls, history
<1>0. current[v] = NoName \/ current[v] \in Names
  BY DEF TypeOK, Owned
<1>1. CASE UNCHANGED save
  BY <1>1, SameSent
<1>2. CASE Expire(v) \/ Boot(v) \/ Load(v) \/ Edit(v) \/ Beat(v) \/ RecoverServed(v) \/ Recovered(v) \/ ClaimServed(v)
           \/ RenameStops(v) \/ ClaimsBack(v) \/ CloseFails(v) \/ (\E n \in Owned : Open(v, n)) \/ (\E n \in Names : Rename(v, n))
  <2>. UNCHANGED save
    BY <1>2 DEF Expire, Boot, Load, Edit, Beat, RecoverServed, Recovered, ClaimServed, RenameStops, ClaimsBack, CloseFails, Open,
                Rename
  <2>. QED  BY <1>1
<1>3. ASSUME NEW t \in {"save", "retry", "soon"}, Persist(v, t), save' # save
      PROVE  \E n \in Names : PutSent(v, "auto", n) /\ n = current[v] /\ pc[v] = "live" /\ UNCHANGED <<pc, current>>
  <2>1. /\ pc[v] = "live" /\ current[v] # NoName /\ save[v]["auto"].at = "none" /\ Put(v, "auto", current[v])
        /\ UNCHANGED <<pc, current>>
    BY <1>3 DEF Persist
  <2>2. PutSent(v, "auto", current[v])
    BY <2>1, PutSends DEF Kinds, OnScreen
  <2>. QED  BY <1>0, <2>1, <2>2
<1>4. ASSUME AutoSaved(v) PROVE SentSame(v)
  BY <1>4, ClearedSame DEF AutoSaved, Kinds, Sent
<1>5. ASSUME RenameSaved(v) PROVE SentSame(v)
  BY <1>5, ClearedSame DEF RenameSaved, Kinds, Sent
<1>6. ASSUME CloseSaved(v) PROVE SentSame(v)
  BY <1>6, ClearedSame DEF CloseSaved, Kinds, Sent
<1>7. ASSUME RenameGoesOn(v) PROVE PutSent(v, "rename", rename[v].name) /\ rename[v].name \in Names
  <2>1. OnScreen(v) /\ rename[v].at = "granted" /\ Put(v, "rename", rename[v].name)
    BY <1>7 DEF RenameGoesOn
  <2>2. save[v]["rename"].at = "none"
    BY <2>1 DEF Saving, OnScreen
  <2>. QED  BY <2>1, <2>2, PutSends DEF Kinds, Named
<1>8. ASSUME Close(v), save' # save PROVE \E n \in Names : PutSent(v, "close", n) /\ n = current[v]
  <2>1. pc[v] = "live" /\ current[v] # NoName /\ Put(v, "close", current[v])
    BY <1>8 DEF Close
  <2>2. save[v]["close"].at = "none"
    BY <2>1 DEF Sends
  <2>. QED  BY <1>0, <2>1, <2>2, PutSends DEF Kinds, OnScreen
<1>9. ASSUME Leave(v) PROVE SentSame(v)
  <2>1. \A k \in Kinds : save'[v][k] = IF Sent(v, k) THEN save[v][k] ELSE NoSave
    BY <1>9 DEF Leave, Sent, TypeOK
  <2>. QED  BY <2>1 DEF SentSame, Sent, NoSave
<1>10. ASSUME NEW k \in Kinds, SaveLands(v, k) \/ SaveFails(v, k) PROVE PutGone(v, k)
  BY <1>10, AnsweredGone DEF SaveLands, SaveFails, Sent
<1>. QED  BY <1>1, <1>2, <1>3, <1>4, <1>5, <1>6, <1>7, <1>8, <1>9, <1>10 DEF Steps, Due, Served

\* In short: the same, one more, or one less.
LEMMA SentEffect ==
    ASSUME TypeOK, NEW v \in Views, Saving(v), Named(v), Sends(v), Steps(v)
    PROVE  \/ SentSame(v)
           \/ \E k \in Kinds, n \in Names : PutSent(v, k, n)
           \/ \E k \in Kinds : PutGone(v, k)
<1>. "auto" \in Kinds /\ "rename" \in Kinds /\ "close" \in Kinds
  BY DEF Kinds
<1>. QED  BY SentStep

\* Only named workspaces are sent, by a document that has loaded.
LEMMA NamedStep ==
    ASSUME TypeOK, NEW v \in Views, Saving(v), Named(v), Sends(v), Steps(v)
    PROVE  Named(v)'
<1>1. \A k \in Kinds : Sent(v, k)' => save'[v][k].to \in Names
  <2>1. CASE SentSame(v)
    BY <2>1 DEF Named, SentSame
  <2>2. ASSUME NEW k \in Kinds, NEW n \in Names, PutSent(v, k, n) PROVE \A j \in Kinds : Sent(v, j)' => save'[v][j].to \in Names
    BY <2>2 DEF Named, PutSent, Sent
  <2>3. ASSUME NEW k \in Kinds, PutGone(v, k) PROVE \A j \in Kinds : Sent(v, j)' => save'[v][j].to \in Names
    BY <2>3 DEF Named, PutGone
  <2>. QED  BY <2>1, <2>2, <2>3, SentEffect
<1>2. rename'[v].at \in {"sent", "granted"} => rename'[v].name \in Names
  <2>. USE DEF registry, autosave, calls, history
  <2>1. CASE UNCHANGED rename
    BY <2>1 DEF Named
  <2>2. ASSUME NEW n \in Names, Rename(v, n) PROVE rename'[v].name \in Names
    BY <2>2 DEF Rename, TypeOK
  <2>3. CASE ClaimServed(v)
    BY <2>3 DEF ClaimServed, NoCall, Named, TypeOK, Renames
  <2>4. CASE RenameGoesOn(v) \/ RenameStops(v) \/ RenameSaved(v) \/ ClaimsBack(v)
    BY <2>4 DEF RenameGoesOn, RenameStops, RenameSaved, ClaimsBack, NoCall, TypeOK, Renames
  <2>5. CASE Leave(v)
    BY <2>5 DEF Leave, NoCall, Named, TypeOK
  <2>6. \/ UNCHANGED rename \/ (\E n \in Names : Rename(v, n)) \/ ClaimServed(v) \/ RenameGoesOn(v) \/ RenameStops(v)
        \/ RenameSaved(v) \/ ClaimsBack(v) \/ Leave(v)
    BY DEF Steps, Due, Served, Boot, Load, AutoSaved, Beat, Recovered, CloseSaved, Persist, RecoverServed, SaveLands, SaveFails,
           Expire, Edit, Close, CloseFails, Open
  <2>. QED  BY <2>1, <2>2, <2>3, <2>4, <2>5, <2>6
<1>. QED  BY <1>1, <1>2 DEF Named

\* What is sent when.
LEMMA SendsStep ==
    ASSUME TypeOK, NEW v \in Views, Sends(v), Steps(v)
    PROVE  Sends(v)'
<1>. USE DEF registry, autosave, calls, history
<1>1. CASE UNCHANGED save /\ (pc'[v] = pc[v] \/ (pc[v] = "loads" /\ pc'[v] = "live") \/ (pc[v] = "boots" /\ pc'[v] = "loads")
                              \/ (pc[v] = "leaving" /\ pc'[v] = "live"))
  BY <1>1 DEF Sends
<1>2. CASE Expire(v) \/ Boot(v) \/ Load(v) \/ Edit(v) \/ Beat(v) \/ RecoverServed(v) \/ Recovered(v) \/ ClaimServed(v)
           \/ RenameStops(v) \/ ClaimsBack(v) \/ CloseFails(v) \/ (\E n \in Names : Rename(v, n))
  BY <1>1, <1>2 DEF Expire, Boot, Load, Edit, Beat, RecoverServed, Recovered, ClaimServed, RenameStops, ClaimsBack, CloseFails,
                    StaysOpen, Rename, TypeOK
<1>3. ASSUME NEW n \in Owned, Open(v, n) PROVE Sends(v)'
  BY <1>3 DEF Open, NoSave, Sends, TypeOK, Kinds
<1>4. CASE \E t \in {"save", "retry", "soon"} : Persist(v, t)
  <2>1. UNCHANGED pc /\ OnScreen(v) /\ (UNCHANGED save \/ Put(v, "auto", current[v]))
    BY <1>4 DEF Persist
  <2>. QED  BY <2>1 DEF Sends, Put, OnScreen, Kinds, TypeOK
<1>5. CASE AutoSaved(v)
  BY <1>5 DEF AutoSaved, Sends, OnScreen, Kinds, TypeOK
<1>6. CASE RenameSaved(v)
  BY <1>6 DEF RenameSaved, Sends, OnScreen, Kinds, TypeOK
<1>7. CASE RenameGoesOn(v)
  BY <1>7 DEF RenameGoesOn, Put, Sends, OnScreen, Kinds, TypeOK
<1>8. CASE Close(v)
  <2>1. \/ pc'[v] = "leaving" /\ UNCHANGED save
        \/ pc'[v] = "closing"
    BY <1>8 DEF Close, TypeOK
  <2>2. pc[v] = "live"
    BY <1>8 DEF Close
  <2>. QED  BY <2>1, <2>2 DEF Sends
<1>9. CASE CloseSaved(v)
  <2>1. save'[v]["close"] = NoSave /\ (pc'[v] = "leaving" \/ pc'[v] = "live")
    BY <1>9 DEF CloseSaved, StaysOpen, Kinds, TypeOK
  <2>. QED  BY <2>1 DEF Sends, NoSave
<1>10. CASE Leave(v)
  <2>1. pc[v] = "leaving" /\ pc'[v] = "closed" /\ save'[v]["close"] = IF save[v]["close"].at = "sent" THEN save[v]["close"] ELSE NoSave
    BY <1>10 DEF Leave, Kinds, TypeOK
  <2>. QED  BY <2>1 DEF Sends, NoSave
<1>11. ASSUME NEW k \in Kinds, SaveLands(v, k) \/ SaveFails(v, k) PROVE Sends(v)'
  <2>1. /\ UNCHANGED pc /\ Sent(v, k) /\ \E at \in {"landed", "failed"} : Answered(v, k, at)
    BY <1>11 DEF SaveLands, SaveFails, Sent
  <2>2. pc[v] \notin {"boots", "loads"} /\ (pc[v] # "closing" => k # "close")
    BY <2>1 DEF Sends, Sent
  <2>3. k # "close" => save'[v]["close"].at = save[v]["close"].at
    <3>1. k # "close" => save'[v]["close"] = [save[v]["close"] EXCEPT !.after = @ \ {k}]
      BY <2>1 DEF Answered, Kinds, TypeOK
    <3>2. save[v]["close"] \in Saves
      BY DEF TypeOK, Kinds
    <3>. QED  BY <3>1, <3>2 DEF Saves
  <2>. QED  BY <2>1, <2>2, <2>3 DEF Sends
<1>. QED  BY <1>2, <1>3, <1>4, <1>5, <1>6, <1>7, <1>8, <1>9, <1>10, <1>11 DEF Steps, Due, Served

\* The chain of a document's PUTs for one workspace, through a PUT more or less.
LEMMA ChainStep ==
    ASSUME TypeOK, NEW v \in Views, Saving(v), Named(v), Sends(v), Grows(v), Chained(v), Covers(v), Steps(v)
    PROVE  Grows(v)' /\ Chained(v)'
<1>1. CASE SentSame(v)
  <2>1. Grows(v)'
    BY <1>1 DEF SentSame, Grows
  <2>2. Chained(v)'
    BY <1>1 DEF SentSame, Chained
  <2>. QED  BY <2>1, <2>2
<1>2. ASSUME NEW k \in Kinds, NEW n, PutSent(v, k, n) PROVE Grows(v)' /\ Chained(v)'
  <2>1. /\ ~Sent(v, k) /\ Sent(v, k)' /\ OnScreen(v)
        /\ save'[v][k].to = n /\ save'[v][k].what = layout[v] /\ save'[v][k].after = InFlight(v, n)
        /\ \A j \in Kinds \ {k} : save'[v][j] = save[v][j] /\ (Sent(v, j)' <=> Sent(v, j))
    BY <1>2 DEF PutSent, Sent
  <2>2. \A j \in InFlight(v, n) : j \in Kinds \ {k} /\ Sent(v, j) /\ save[v][j].to = n
    BY <2>1 DEF InFlight, Sent
  <2>3. \A j \in Kinds \ {k} : Sent(v, j) /\ save[v][j].to = n => j \in InFlight(v, n)
    BY DEF InFlight, Sent
  <2>4. Grows(v)'
    <3>. SUFFICES ASSUME NEW i \in Kinds, NEW j \in Kinds, Sent(v, j)', i \in save'[v][j].after
                  PROVE  Sent(v, i)' /\ save'[v][i].what \subseteq save'[v][j].what
      BY DEF Grows
    <3>1. CASE j = k
      <4>1. i \in Kinds \ {k} /\ Sent(v, i)
        BY <2>1, <2>2, <3>1
      <4>. QED  BY <2>1, <3>1, <4>1 DEF Covers
    <3>2. CASE j # k
      <4>1. Sent(v, j) /\ i \in save[v][j].after
        BY <2>1, <3>2
      <4>2. Sent(v, i) /\ save[v][i].what \subseteq save[v][j].what
        BY <4>1 DEF Grows
      <4>. QED  BY <2>1, <3>2, <4>2
    <3>. QED  BY <3>1, <3>2
  <2>5. Chained(v)'
    BY <2>1, <2>3 DEF Chained
  <2>. QED  BY <2>4, <2>5
<1>3. ASSUME NEW k \in Kinds, PutGone(v, k) PROVE Grows(v)' /\ Chained(v)'
  <2>1. Grows(v)'
    BY <1>3 DEF PutGone, Grows
  <2>2. Chained(v)'
    BY <1>3 DEF PutGone, Chained
  <2>. QED  BY <2>1, <2>2
<1>. QED  BY <1>1, <1>2, <1>3, SentEffect

\* The screen has all that is in flight.
LEMMA CoversStep ==
    ASSUME TypeOK, NEW v \in Views, Saving(v), Named(v), Sends(v), Covers(v), Steps(v)
    PROVE  Covers(v)'
<1>. USE DEF registry, autosave, calls, history
<1>1. \/ UNCHANGED <<pc, layout>>
      \/ Load(v) /\ UNCHANGED save /\ pc[v] = "loads"
      \/ Edit(v) /\ UNCHANGED <<save, pc>> /\ layout[v] \subseteq layout'[v]
      \/ UNCHANGED layout /\ OnScreen(v)
      \/ pc'[v] \in {"closed", "boots", "loads"}
  BY DEF Steps, Due, Served, Boot, Load, AutoSaved, Beat, Recovered, CloseSaved, Persist, RecoverServed, SaveLands, SaveFails,
         Expire, Edit, Close, CloseFails, Open, Rename, RenameGoesOn, RenameStops, RenameSaved, StaysOpen, Leave, ClaimServed,
         ClaimsBack, OnScreen, TypeOK
<1>2. CASE UNCHANGED layout /\ (OnScreen(v)' => OnScreen(v))
  <2>1. CASE SentSame(v)
    BY <1>2, <2>1 DEF Covers, SentSame
  <2>2. ASSUME NEW k \in Kinds, NEW n \in Names, PutSent(v, k, n) PROVE Covers(v)'
    BY <1>2, <2>2 DEF Covers, PutSent, Sent
  <2>3. ASSUME NEW k \in Kinds, PutGone(v, k) PROVE Covers(v)'
    BY <1>2, <2>3 DEF Covers, PutGone
  <2>. QED  BY <2>1, <2>2, <2>3, SentEffect
<1>3. CASE UNCHANGED save /\ pc[v] = "loads"
  BY <1>3 DEF Sends, Sent, Covers
<1>4. CASE UNCHANGED <<save, pc>> /\ layout[v] \subseteq layout'[v]
  BY <1>4 DEF Covers, Sent, OnScreen
<1>5. CASE pc'[v] \in {"closed", "boots", "loads"}
  BY <1>5 DEF Covers, OnScreen
<1>. QED  BY <1>1, <1>2, <1>3, <1>4, <1>5 DEF OnScreen

\* All of these together.
LEMMA OrderStep ==
    ASSUME TypeOK, NEW v \in Views, Saving(v), InOrder(v), Steps(v)
    PROVE  InOrder(v)'
BY NamedStep, SendsStep, ChainStep, CoversStep DEF InOrder

-----------------------------------------------------------------------------
(* What a step does to the screen, the entry and the file. *)

\* A view on the screen was there before, or has just loaded; what it lost it does not get back.
LEMMA HistoryStep ==
    ASSUME TypeOK, NEW v \in Views, Steps(v)
    PROVE  /\ Load(v) \/ (OnScreen(v)' => OnScreen(v))
           /\ Load(v) \/ (stale[v] => stale'[v])
           /\ trespass => trespass'
<1>. USE DEF registry, autosave, calls, history
<1>1. Load(v) \/ (OnScreen(v)' => OnScreen(v))
  BY DEF Steps, Due, Served, Boot, AutoSaved, Beat, Recovered, CloseSaved, Persist, RecoverServed, SaveLands, SaveFails,
         Expire, Edit, Close, CloseFails, Open, Rename, RenameGoesOn, RenameStops, RenameSaved, StaysOpen, Leave, ClaimServed,
         ClaimsBack, OnScreen, TypeOK
<1>2. Load(v) \/ (stale[v] => stale'[v])
  BY DEF Steps, Due, Served, Boot, AutoSaved, Beat, Recovered, CloseSaved, Persist, RecoverServed, SaveLands, SaveFails,
         Expire, Edit, Close, CloseFails, Open, Rename, RenameGoesOn, RenameStops, RenameSaved, StaysOpen, Leave, ClaimServed,
         ClaimsBack, TypeOK
<1>3. trespass => trespass'
  BY DEF Steps, Due, Served, Boot, Load, AutoSaved, Beat, Recovered, CloseSaved, Persist, RecoverServed, SaveLands, SaveFails,
         Expire, Edit, Close, CloseFails, Open, Rename, RenameGoesOn, RenameStops, RenameSaved, StaysOpen, Leave, ClaimServed,
         ClaimsBack
<1>. QED  BY <1>1, <1>2, <1>3

\* A view that has its workspace has an entry, and all it has sent is for what it shows.
LEMMA OwnsStep ==
    ASSUME TypeOK, NEW v \in Views, Holds(v), InOrder(v), Owns(v), Steps(v)
    PROVE  Owns(v)'
<1>. USE DEF registry, autosave, calls, history
<1>0. Saving(v) /\ Unregistered(v) /\ Named(v) /\ Sends(v) /\ claim[v] \in Owned \cup {Absent} /\ current[v] \in Owned
      /\ NoName \notin Names /\ Absent \notin Owned /\ rename[v].name \in Owned
  BY CallKeeps, ViewsAssumption DEF Holds, Keeps, InOrder, TypeOK, Owned
<1>1. CASE Load(v)
  <2>1. UNCHANGED <<save, claim, current>> /\ stale'[v] = (claim[v] # current[v]) /\ pc[v] = "loads"
    BY <1>1 DEF Load, TypeOK
  <2>. QED  BY <1>0, <2>1 DEF Owns, Sends, Sent
<1>. SUFFICES ASSUME ~Load(v), OnScreen(v)', ~stale'[v]
              PROVE  claim'[v] # Absent /\ \A k \in Kinds : Sent(v, k)' => save'[v][k].to = current'[v]
  BY <1>1 DEF Owns
<1>2. OnScreen(v) /\ ~stale[v] /\ claim[v] # Absent /\ \A k \in Kinds : Sent(v, k) => save[v][k].to = current[v]
  BY HistoryStep DEF Owns
<1>3. claim'[v] # Absent
  <2>1. CASE UNCHANGED claim
    BY <1>2, <2>1
  <2>2. CASE Expire(v)
    BY <1>2, <2>2 DEF Expire, OnScreen, TypeOK
  <2>3. CASE Leave(v)
    BY <2>3 DEF Leave, OnScreen, TypeOK
  <2>4. CASE RecoverServed(v)
    BY <1>0, <1>2, <2>4 DEF RecoverServed, Unregistered
  <2>5. CASE ClaimServed(v) \/ ClaimsBack(v)
    BY <1>0, <1>2, <2>5 DEF ClaimServed, ClaimsBack, TypeOK
  <2>6. \/ UNCHANGED claim \/ Expire(v) \/ Leave(v) \/ RecoverServed(v) \/ ClaimServed(v) \/ ClaimsBack(v)
    BY <1>2 DEF Steps, Due, Served, Boot, Load, AutoSaved, Beat, Recovered, CloseSaved, Persist, SaveLands, SaveFails,
         Edit, Close, CloseFails, Open, Rename, RenameGoesOn, RenameStops, RenameSaved, OnScreen
  <2>. QED  BY <2>1, <2>2, <2>3, <2>4, <2>5, <2>6
<1>4. \A k \in Kinds : Sent(v, k)' => save'[v][k].to = current'[v]
  <2>1. ASSUME UNCHANGED current, ~RenameGoesOn(v) PROVE \A k \in Kinds : Sent(v, k)' => save'[v][k].to = current'[v]
    <3>1. CASE SentSame(v)
      BY <1>2, <2>1, <3>1 DEF SentSame
    <3>2. ASSUME NEW k \in Kinds, PutSent(v, k, current[v])
          PROVE  \A j \in Kinds : Sent(v, j)' => save'[v][j].to = current'[v]
      BY <1>2, <2>1, <3>2 DEF PutSent, Sent
    <3>3. ASSUME NEW k \in Kinds, PutGone(v, k) PROVE \A j \in Kinds : Sent(v, j)' => save'[v][j].to = current'[v]
      BY <1>2, <2>1, <3>3 DEF PutGone
    <3>4. "auto" \in Kinds /\ "close" \in Kinds
      BY DEF Kinds
    <3>. QED  BY <1>0, <2>1, <3>1, <3>2, <3>3, <3>4, SentStep
  <2>2. CASE RenameGoesOn(v)
    <3>1. PutSent(v, "rename", rename[v].name)
      <4>1. OnScreen(v) /\ rename[v].at = "granted" /\ Put(v, "rename", rename[v].name)
        BY <2>2 DEF RenameGoesOn
      <4>2. save[v]["rename"].at = "none"
        BY <1>0, <4>1 DEF Saving, OnScreen
      <4>. QED  BY <4>1, <4>2, PutSends DEF Kinds
    <3>2. current'[v] = rename[v].name /\ (current[v] = rename[v].name \/ InFlight(v, current[v]) = {})
      BY <2>2 DEF RenameGoesOn, TypeOK
    <3>3. CASE current[v] = rename[v].name
      BY <1>2, <3>1, <3>2, <3>3 DEF PutSent, Sent, Kinds
    <3>4. CASE InFlight(v, current[v]) = {}
      <4>1. \A k \in Kinds : ~Sent(v, k)
        BY <1>2, <3>4 DEF InFlight, Sent
      <4>. QED  BY <4>1, <3>1, <3>2 DEF PutSent, Sent, Kinds
    <3>. QED  BY <3>2, <3>3, <3>4
  <2>3. CASE RenameSaved(v) /\ ~UNCHANGED current
    <3>1. /\ current'[v] = rename[v].name /\ (current[v] = rename[v].name \/ InFlight(v, current[v]) = {})
          /\ SentSame(v)
      BY <2>3, ClearedSame DEF RenameSaved, TypeOK, Sent, Kinds
    <3>2. CASE current[v] = rename[v].name
      BY <1>2, <3>1, <3>2 DEF SentSame
    <3>3. CASE InFlight(v, current[v]) = {}
      BY <1>2, <3>1, <3>3 DEF InFlight, Sent, SentSame
    <3>. QED  BY <3>1, <3>2, <3>3
  <2>4. CASE Recovered(v)
    <3>1. recover[v].at = "ok"
      BY <1>0, <1>2, <2>4 DEF Recovered, Unregistered
    <3>2. UNCHANGED <<current, save>>
      BY <2>4, <3>1 DEF Recovered
    <3>. QED  BY <1>2, <3>2 DEF Sent
  <2>5. CASE Leave(v)
    BY <2>5 DEF Leave, OnScreen, TypeOK
  <2>6. \/ UNCHANGED current \/ RenameGoesOn(v) \/ RenameSaved(v) \/ Recovered(v) \/ Leave(v)
    BY <1>2 DEF Steps, Due, Served, Boot, AutoSaved, Beat, CloseSaved, Persist, SaveLands, SaveFails,
         Edit, Close, CloseFails, Open, Rename, RenameStops, OnScreen, Expire, RecoverServed, ClaimServed, ClaimsBack
  <2>. QED  BY <2>1, <2>2, <2>3, <2>4, <2>5, <2>6
<1>. QED  BY <1>3, <1>4

\* A view that closes leaves nothing behind.
LEMMA EmptiesStep ==
    ASSUME TypeOK, NEW v \in Views, Holds(v), InOrder(v), Owns(v), Empties(v), Steps(v)
    PROVE  Empties(v)'
<1>. USE DEF registry, autosave, calls, history
<1>. SUFFICES ASSUME ~stale'[v], pc'[v] \in {"closing", "leaving", "closed"}
              PROVE  \A k \in Kinds : Sent(v, k)' =>
                        /\ pc'[v] = "closing"
                        /\ k = "close" \/ (Sent(v, "close")' /\ k \in save'[v]["close"].after)
  BY DEF Empties
<1>0. Saving(v) /\ Named(v) /\ Sends(v) /\ current[v] \in Owned /\ NoName \notin Names
      /\ "close" \in Kinds /\ "auto" \in Kinds /\ "rename" \in Kinds
  BY ViewsAssumption DEF Holds, Keeps, InOrder, TypeOK, Owned, Kinds
<1>1. ~Load(v) /\ ~stale[v]
  <2>1. ~Load(v)
    BY DEF Load, TypeOK
  <2>. QED  BY <2>1, HistoryStep
<1>2. ~RenameGoesOn(v)
  <2>. SUFFICES ASSUME RenameGoesOn(v) PROVE FALSE
    OBVIOUS
  <2>. QED  BY DEF RenameGoesOn, TypeOK
<1>3. CASE UNCHANGED pc
  <2>1. \A k \in Kinds : Sent(v, k) =>
            /\ pc[v] = "closing"
            /\ k = "close" \/ (Sent(v, "close") /\ k \in save[v]["close"].after)
    BY <1>1, <1>3 DEF Empties
  <2>2. CASE SentSame(v)
    BY <1>0, <1>3, <2>1, <2>2 DEF SentSame
  <2>3. ASSUME NEW k \in Kinds, PutGone(v, k) PROVE \A j \in Kinds : Sent(v, j)' =>
            /\ pc'[v] = "closing"
            /\ j = "close" \/ (Sent(v, "close")' /\ j \in save'[v]["close"].after)
    <3>1. CASE k = "close"
      BY <1>0, <1>3, <2>1, <2>3, <3>1 DEF PutGone
    <3>2. CASE k # "close"
      BY <1>0, <1>3, <2>1, <2>3, <3>2 DEF PutGone
    <3>. QED  BY <3>1, <3>2
  <2>4. ~Close(v) /\ pc[v] # "live"
    BY <1>3 DEF Close, TypeOK
  <2>. QED  BY <1>0, <1>2, <2>2, <2>3, <2>4, SentStep
<1>4. CASE Close(v)
  <2>1. \A k \in Kinds : Sent(v, k) => save[v][k].to = current[v]
    BY <1>1, <1>4 DEF Owns, Close, OnScreen
  <2>2. CASE current[v] = NoName
    BY <1>0, <1>4, <2>1, <2>2 DEF Close, Named, Sent
  <2>3. CASE current[v] # NoName
    <3>1. Put(v, "close", current[v]) /\ pc'[v] = "closing" /\ pc[v] = "live"
      BY <1>4, <2>3 DEF Close, TypeOK
    <3>2. PutSent(v, "close", current[v])
      BY <1>0, <3>1, PutSends DEF Sends, OnScreen
    <3>3. \A k \in Kinds : Sent(v, k) => k \in InFlight(v, current[v])
      BY <2>1 DEF InFlight, Sent
    <3>. QED  BY <1>0, <3>1, <3>2, <3>3 DEF PutSent, Sent
  <2>. QED  BY <2>2, <2>3
<1>5. CASE CloseSaved(v) /\ pc'[v] = "leaving"
  <2>1. pc[v] = "closing" /\ ~Sent(v, "close")
    BY <1>5 DEF CloseSaved, Sent
  <2>2. \A k \in Kinds : ~Sent(v, k)
    BY <1>1, <2>1 DEF Empties
  <2>3. SentSame(v)
    BY <1>0, <1>5, <2>1, ClearedSame DEF CloseSaved
  <2>. QED  BY <2>2, <2>3 DEF SentSame
<1>6. CASE Leave(v)
  <2>1. pc[v] = "leaving"
    BY <1>6 DEF Leave
  <2>2. \A k \in Kinds : ~Sent(v, k)
    BY <1>1, <2>1 DEF Empties
  <2>3. \A k \in Kinds : save'[v][k] = IF Sent(v, k) THEN save[v][k] ELSE NoSave
    BY <1>6 DEF Leave, Sent, TypeOK
  <2>. QED  BY <2>2, <2>3 DEF Sent, NoSave
<1>7. \/ UNCHANGED pc \/ Close(v) \/ (CloseSaved(v) /\ pc'[v] = "leaving") \/ Leave(v)
  BY <1>1 DEF Steps, Due, Served, Boot, AutoSaved, Beat, Recovered, CloseSaved, Persist, RecoverServed, SaveLands, SaveFails,
         Expire, Edit, CloseFails, Open, Rename, RenameStops, RenameSaved, RenameGoesOn, StaysOpen, ClaimServed,
         ClaimsBack, TypeOK
<1>. QED  BY <1>3, <1>4, <1>5, <1>6, <1>7

\* The file a PUT lands in has, from then on, no more than the PUTs behind it.
LEMMA LandsBefore ==
    ASSUME TypeOK, NEW v \in Views, InOrder(v), NEW k \in Kinds, SaveLands(v, k)
    PROVE  /\ save[v][k].to \in Names
           /\ file' = [file EXCEPT ![save[v][k].to] = save[v][k].what]
           /\ \A j \in Kinds : Sent(v, j)' /\ save'[v][j].to = save[v][k].to => save[v][k].what \subseteq save'[v][j].what
<1>1. Sent(v, k) /\ First(v, k) /\ Answered(v, k, "landed") /\ file' = [file EXCEPT ![save[v][k].to] = save[v][k].what]
  BY DEF SaveLands, Sent
<1>2. PutGone(v, k)
  BY <1>1, AnsweredGone
<1>3. save[v][k].to \in Names
  BY <1>1 DEF InOrder, Named
<1>4. ASSUME NEW j \in Kinds, Sent(v, j)', save'[v][j].to = save[v][k].to
      PROVE  save[v][k].what \subseteq save'[v][j].what
  <2>1. j # k /\ Sent(v, j) /\ save'[v][j].to = save[v][j].to /\ save'[v][j].what = save[v][j].what /\ save[v][k].after = {}
    BY <1>2, <1>4 DEF PutGone
  <2>2. k \in save[v][j].after
    BY <1>1, <1>4, <2>1 DEF InOrder, Chained
  <2>. QED  BY <2>1, <2>2 DEF InOrder, Grows
<1>. QED  BY <1>1, <1>3, <1>4

\* While a view has its workspace, the screen and what is in flight have all that its file has.
LEMMA ExtendsStep ==
    ASSUME TypeOK, NEW v \in Views, Holds(v), Safe(v), Steps(v)
    PROVE  Extends(v)'
<1>. USE DEF registry, autosave, calls, history
<1>0. Saving(v) /\ Unregistered(v) /\ Named(v) /\ Sends(v) /\ claim[v] \in Owned \cup {Absent}
      /\ InOrder(v) /\ Owns(v) /\ Extends(v) /\ Covers(v)
      /\ NoName \notin Names /\ Absent \notin Owned /\ rename[v].name \in Owned
  BY CallKeeps, ViewsAssumption DEF Holds, Keeps, Safe, InOrder, TypeOK, Owned
<1>1. CASE Load(v)
  <2>1. UNCHANGED <<save, claim, file>> /\ stale'[v] = (claim[v] # current[v]) /\ pc[v] = "loads"
        /\ (current[v] # NoName => layout'[v] = file[current[v]])
    BY <1>1 DEF Load, TypeOK
  <2>2. \A k \in Kinds : ~Sent(v, k)'
    BY <1>0, <2>1 DEF Sends, Sent
  <2>. QED  BY <1>0, <2>1, <2>2 DEF Extends
<1>. SUFFICES ASSUME ~Load(v), OnScreen(v)', ~stale'[v], ~trespass', claim'[v] \in Names
              PROVE  /\ file'[claim'[v]] \subseteq layout'[v]
                     /\ \A k \in Kinds : Sent(v, k)' /\ save'[v][k].to = claim'[v] => file'[claim'[v]] \subseteq save'[v][k].what
  BY <1>1 DEF Extends
<1>2. OnScreen(v) /\ ~stale[v] /\ ~trespass /\ claim[v] # Absent
  BY <1>0, HistoryStep DEF Owns
<1>3. claim[v] \in Names =>
        /\ file[claim[v]] \subseteq layout[v]
        /\ \A k \in Kinds : Sent(v, k) /\ save[v][k].to = claim[v] => file[claim[v]] \subseteq save[v][k].what
  BY <1>0, <1>2 DEF Extends
<1>4. CASE UNCHANGED <<claim, file>> /\ layout[v] \subseteq layout'[v]
  <2>1. CASE SentSame(v)
    BY <1>3, <1>4, <2>1 DEF SentSame
  <2>2. ASSUME NEW k \in Kinds, NEW n \in Names, PutSent(v, k, n)
        PROVE  \A j \in Kinds : Sent(v, j)' /\ save'[v][j].to = claim'[v] => file'[claim'[v]] \subseteq save'[v][j].what
    BY <1>3, <1>4, <2>2 DEF PutSent, Sent
  <2>3. ASSUME NEW k \in Kinds, PutGone(v, k)
        PROVE  \A j \in Kinds : Sent(v, j)' /\ save'[v][j].to = claim'[v] => file'[claim'[v]] \subseteq save'[v][j].what
    BY <1>3, <1>4, <2>3 DEF PutGone
  <2>. QED  BY <1>0, <1>3, <1>4, <2>1, <2>2, <2>3, SentEffect
<1>5. ASSUME NEW k \in Kinds, SaveLands(v, k)
      PROVE  /\ file'[claim'[v]] \subseteq layout'[v]
             /\ \A j \in Kinds : Sent(v, j)' /\ save'[v][j].to = claim'[v] => file'[claim'[v]] \subseteq save'[v][j].what
  <2>1. UNCHANGED <<claim, layout>> /\ claim[v] = save[v][k].to /\ Sent(v, k)
    BY <1>2, <1>5 DEF SaveLands, OnScreen, Sent
  <2>2. file'[claim'[v]] = save[v][k].what
    BY <1>0, <1>5, <2>1, LandsBefore DEF TypeOK
  <2>3. save[v][k].what \subseteq layout[v]
    BY <1>0, <1>2, <2>1 DEF Covers
  <2>. QED  BY <1>0, <1>5, <2>1, <2>2, <2>3, LandsBefore
<1>6. CASE ClaimServed(v)
  <2>1. UNCHANGED <<file, layout, save>>
    BY <1>6 DEF ClaimServed
  <2>2. claim'[v] = claim[v] \/ file[claim'[v]] = {}
    <3>1. Free(v, rename[v].name) /\ claim[v] # rename[v].name => file[rename[v].name] = {}
      BY <1>6 DEF ClaimServed, TypeOK
    <3>2. claim'[v] = claim[v] \/ (claim'[v] = rename[v].name /\ Free(v, rename[v].name))
      BY <1>6 DEF ClaimServed, TypeOK
    <3>. QED  BY <3>1, <3>2
  <2>. QED  BY <1>3, <2>1, <2>2 DEF Sent
<1>7. CASE ClaimsBack(v)
  <2>1. UNCHANGED <<file, layout, save>>
    BY <1>7 DEF ClaimsBack
  <2>2. claim'[v] = claim[v]
    <3>1. rename[v].name \in {NoName, claim[v]}
      BY <1>7 DEF ClaimsBack, TypeOK
    <3>. QED  BY <1>0, <1>7, <3>1 DEF ClaimsBack, TypeOK
  <2>. QED  BY <1>3, <2>1, <2>2 DEF Sent
<1>8. ~RecoverServed(v) /\ ~Expire(v) /\ ~Leave(v)
  <2>1. ~RecoverServed(v)
    BY <1>0, <1>2 DEF RecoverServed, Unregistered
  <2>2. ~Expire(v)
    BY <1>2 DEF Expire, OnScreen, TypeOK
  <2>3. ~Leave(v)
    BY DEF Leave, OnScreen, TypeOK
  <2>. QED  BY <2>1, <2>2, <2>3
<1>9. \/ UNCHANGED <<claim, file>> /\ layout[v] \subseteq layout'[v]
      \/ (\E k \in Kinds : SaveLands(v, k)) \/ ClaimServed(v) \/ ClaimsBack(v)
  BY <1>2, <1>8 DEF Steps, Due, Served, Boot, AutoSaved, Beat, Recovered, CloseSaved, Persist, SaveFails,
         Edit, Close, CloseFails, Open, Rename, RenameGoesOn, RenameStops, RenameSaved, StaysOpen, OnScreen, TypeOK
<1>. QED  BY <1>4, <1>5, <1>6, <1>7, <1>9

\* A view whose PUT lands, without trespass, is the one that owns the workspace.
LEMMA LandsAtOwner ==
    ASSUME TypeOK, NEW v \in Views, Safe(v), NEW k \in Kinds, SaveLands(v, k), ~trespass'
    PROVE  ~stale[v] /\ OnScreen(v) /\ claim[v] = save[v][k].to /\ ~trespass /\ claim[v] \in Names
<1>1. Sent(v, k) /\ ~stale[v] /\ ~trespass /\ (pc[v] # "closed" => claim[v] = save[v][k].to)
  BY DEF SaveLands, Sent
<1>2. pc[v] # "closed"
  BY <1>1 DEF Safe, Empties
<1>3. pc[v] \notin {"boots", "loads"}
  BY <1>1 DEF Safe, InOrder, Sends, Sent
<1>4. OnScreen(v)
  BY <1>2, <1>3 DEF OnScreen, TypeOK
<1>. QED  BY <1>1, <1>2, <1>4 DEF Safe, InOrder, Named

\* The step of one view leaves what holds of another.
LEMMA OthersSafe ==
    ASSUME TypeOK, OneOwner, NEW v \in Views, Safe(v), Steps(v), NEW w \in Views, w # v, Safe(w)
    PROVE  Safe(w)'
<1>1. /\ claim'[w] = claim[w] /\ pc'[w] = pc[w] /\ current'[w] = current[w] /\ rename'[w] = rename[w] /\ save'[w] = save[w]
  BY OthersKeep
<1>2. layout'[w] = layout[w] /\ stale'[w] = stale[w]
  BY DEF TypeOK, Steps, Due, Served, registry, autosave, calls, history, Boot, Load, AutoSaved, Beat, Recovered, RenameGoesOn,
       RenameStops, RenameSaved, CloseSaved, StaysOpen, Leave, Persist, RecoverServed, ClaimServed, ClaimsBack, SaveLands,
       SaveFails, Expire, Edit, Close, CloseFails, Open, Rename
<1>3. OnScreen(w)' <=> OnScreen(w)
  BY <1>1 DEF OnScreen
<1>4. \A k \in Kinds : Sent(w, k)' <=> Sent(w, k)
  BY <1>1 DEF Sent
<1>5. InOrder(w)'
  <2>1. Named(w)' /\ Sends(w)'
    BY <1>1, <1>4 DEF Safe, InOrder, Named, Sends
  <2>2. Grows(w)' /\ Chained(w)'
    BY <1>1, <1>4 DEF Safe, InOrder, Grows, Chained
  <2>3. Covers(w)'
    BY <1>1, <1>2, <1>3, <1>4 DEF Safe, InOrder, Covers
  <2>. QED  BY <2>1, <2>2, <2>3 DEF InOrder
<1>6. Owns(w)' /\ Empties(w)'
  <2>1. Owns(w)'
    BY <1>1, <1>2, <1>3, <1>4 DEF Safe, Owns
  <2>2. Empties(w)'
    <3>1. \A k \in Kinds : (Sent(w, k)' <=> Sent(w, k)) /\ (k \in save'[w]["close"].after <=> k \in save[w]["close"].after)
      BY <1>1, <1>4
    <3>2. (Sent(w, "close")' <=> Sent(w, "close")) /\ (stale'[w] <=> stale[w]) /\ pc'[w] = pc[w]
      BY <1>1, <1>2, <1>4 DEF Kinds
    <3>3. Empties(w)
      BY DEF Safe
    <3>4. ~stale'[w] /\ pc'[w] \in {"leaving", "closed"} => \A k \in Kinds : ~Sent(w, k)'
      BY ONLY <3>1, <3>2, <3>3 DEF Empties
    <3>5. ~stale'[w] /\ pc'[w] = "closing" => \A k \in Kinds :
            Sent(w, k)' => k = "close" \/ (Sent(w, "close")' /\ k \in save'[w]["close"].after)
      BY ONLY <3>1, <3>2, <3>3 DEF Empties
    <3>. QED  BY ONLY <3>4, <3>5 DEF Empties
  <2>. QED  BY <2>1, <2>2
<1>7. Extends(w)'
  <2>. SUFFICES ASSUME ~trespass', OnScreen(w), ~stale[w], claim[w] \in Names
                PROVE  /\ file'[claim[w]] \subseteq layout[w]
                       /\ \A k \in Kinds : Sent(w, k) /\ save[w][k].to = claim[w] => file'[claim[w]] \subseteq save[w][k].what
    BY <1>1, <1>2, <1>3, <1>4 DEF Extends
  <2>1. ~trespass
    BY HistoryStep
  <2>2. file'[claim[w]] = file[claim[w]]
    <3>1. CASE UNCHANGED file
      BY <3>1
    <3>2. ASSUME NEW k \in Kinds, SaveLands(v, k) PROVE file'[claim[w]] = file[claim[w]]
      <4>1. claim[v] = save[v][k].to /\ claim[v] \in Names
        BY <3>2, LandsAtOwner
      <4>2. claim[w] # save[v][k].to
        BY <4>1, ViewsAssumption DEF OneOwner
      <4>. QED  BY <3>2, <4>2 DEF SaveLands, TypeOK
    <3>3. UNCHANGED file \/ \E k \in Kinds : SaveLands(v, k)
      BY DEF Steps, Due, Served, registry, autosave, calls, history, Boot, Load, AutoSaved, Beat, Recovered, RenameGoesOn,
       RenameStops, RenameSaved, CloseSaved, StaysOpen, Leave, Persist, RecoverServed, ClaimServed, ClaimsBack,
       SaveFails, Expire, Edit, Close, CloseFails, Open, Rename
    <3>. QED  BY <3>1, <3>2, <3>3
  <2>. QED  BY <2>1, <2>2 DEF Safe, Extends
<1>. QED  BY <1>5, <1>6, <1>7 DEF Safe

-----------------------------------------------------------------------------
(* The second invariant, on top of the first, and what follows from it. *)

\* What is in flight, on the screens and in the files stays in this order.
THEOREM SafeHolds == Spec => []SInv
<1>1. Init => SInv
  <2>. SUFFICES ASSUME Init, NEW v \in Views PROVE Safe(v)
    BY DEF SInv
  <2>1. pc[v] = "closed" /\ rename[v].at = "none" /\ \A k \in Kinds : save[v][k].at = "none"
    BY DEF Init, NoSave, NoCall
  <2>2. ~OnScreen(v) /\ \A k \in Kinds : ~Sent(v, k)
    BY <2>1 DEF OnScreen, Sent
  <2>3. InOrder(v)
    BY <2>1, <2>2 DEF InOrder, Named, Sends, Grows, Chained, Covers, Kinds
  <2>. QED  BY <2>1, <2>2, <2>3 DEF Safe, Owns, Extends, Empties
<1>2. IInv /\ SInv /\ [Next]_vars => SInv'
  <2>. SUFFICES ASSUME IInv, SInv, [Next]_vars, NEW w \in Views PROVE Safe(w)'
    BY DEF SInv
  <2>1. TypeOK /\ OneOwner /\ Holds(w) /\ Safe(w) /\ (\A v \in Views : Safe(v))
    BY DEF IInv, SInv
  <2>2. CASE UNCHANGED vars
    BY <2>1, <2>2 DEF vars, registry, autosave, calls, history, Safe, InOrder, Named, Sends, Grows, Chained, Covers, Owns, Extends, Empties,
        Sent, OnScreen
  <2>3. CASE Steps(w)
    <3>1. InOrder(w) /\ Owns(w) /\ Empties(w) /\ Saving(w)
      BY <2>1 DEF Safe, Holds
    <3>. QED  BY <2>1, <2>3, <3>1, OrderStep, OwnsStep, ExtendsStep, EmptiesStep DEF Safe
  <2>4. ASSUME NEW v \in Views, v # w, Steps(v) PROVE Safe(w)'
    BY <2>1, <2>4, OthersSafe
  <2>. QED  BY <2>2, <2>3, <2>4 DEF Next, Steps
<1>. QED  BY <1>1, <1>2, Invariance, PTL DEF Spec

\* No save takes away what an earlier one wrote, unless somebody saved what was not its own.
THEOREM SavedStaysSaved == Spec => SavedIsKept
<1>1. IInv /\ SInv /\ [Next]_vars => [~trespass' => \A n \in Names : file[n] \subseteq file'[n]]_vars
  <2>. SUFFICES ASSUME IInv, SInv, Next, ~trespass' PROVE \A n \in Names : file[n] \subseteq file'[n]
    BY DEF vars, registry
  <2>1. PICK v \in Views : Steps(v)
    BY DEF Next, Steps
  <2>2. TypeOK /\ Safe(v)
    BY DEF IInv, SInv
  <2>3. CASE UNCHANGED file
    BY <2>3
  <2>4. ASSUME NEW k \in Kinds, SaveLands(v, k) PROVE \A n \in Names : file[n] \subseteq file'[n]
    <3>1. ~stale[v] /\ OnScreen(v) /\ claim[v] = save[v][k].to /\ ~trespass /\ claim[v] \in Names
      BY <2>2, <2>4, LandsAtOwner
    <3>2. file[claim[v]] \subseteq save[v][k].what
      BY <2>2, <2>4, <3>1 DEF Safe, Extends, SaveLands, Sent
    <3>. QED  BY <2>2, <2>4, <3>1, <3>2 DEF SaveLands, TypeOK
  <2>5. UNCHANGED file \/ \E k \in Kinds : SaveLands(v, k)
      BY <2>1 DEF Steps, Due, Served, registry, autosave, calls, history, Boot, Load, AutoSaved, Beat, Recovered, RenameGoesOn,
       RenameStops, RenameSaved, CloseSaved, StaysOpen, Leave, Persist, RecoverServed, ClaimServed, ClaimsBack,
       SaveFails, Expire, Edit, Close, CloseFails, Open, Rename
  <2>. QED  BY <2>3, <2>4, <2>5
<1>. QED  BY <1>1, Invariance, SafeHolds, PTL DEF Spec, SavedIsKept
=============================================================================
