---------------------------- MODULE BackendProofs ----------------------------
(***************************************************************************)
(* What holds of the backend's three lists: the registry of the sessions   *)
(* (SessionLifecycle), for any number of sessions, viewers and worker      *)
(* threads; the registry of the windows (WindowRegistry), for any ids,     *)
(* names, limits and any length of run; and the launches queued for them   *)
(* (LaunchQueue), for any number of polls and windows, any limit and any   *)
(* number of launches.  None looks at another.                             *)
(*                                                                         *)
(* The sessions: the inductive invariant is IInv.  One lemma per group of  *)
(* its conjuncts says that a step preserves it; each first sets aside the  *)
(* steps that leave its variables alone.                                   *)
(*                                                                         *)
(* The windows: the registry's bookkeeping is a chain of functions of its  *)
(* entries (prune, insert, pass the primary role on), so the lemmas say    *)
(* what each of them keeps, and a step composes them.                      *)
(*                                                                         *)
(* The launches: each is in one place, and a step moves it on.             *)
(***************************************************************************)
EXTENDS SessionLifecycle, WindowRegistry, LaunchQueue, FiniteSetTheorems,
        WellFoundedInduction, TLAPS

-----------------------------------------------------------------------------
(* The sessions. *)

(* Counting what is in flight. *)

\* One id entering or leaving Building moves the count by one: what keeps
\* _spawning equal to the number of builds in flight.
LEMMA BuildingCount ==
    ASSUME NEW s \in Sessions, TypeOK
    PROVE  /\ Cardinality(Building) \in Nat
           /\ s \notin Building /\ Building' = Building \cup {s}
                 => Cardinality(Building') = Cardinality(Building) + 1
           /\ s \in Building /\ Building' = Building \ {s}
                 => /\ Cardinality(Building') = Cardinality(Building) - 1
                    /\ Cardinality(Building') \in Nat
<1>1. IsFiniteSet(Building)
  BY SessionsAssumption, FS_Subset DEF Building
<1>2. Cardinality(Building) \in Nat
  BY <1>1, FS_CardinalityType
<1>3. ASSUME s \notin Building, Building' = Building \cup {s}
      PROVE  Cardinality(Building') = Cardinality(Building) + 1
  BY <1>1, <1>3, FS_AddElement
<1>4. ASSUME s \in Building, Building' = Building \ {s}
      PROVE  /\ Cardinality(Building') = Cardinality(Building) - 1
             /\ Cardinality(Building') \in Nat
  <2>1. Cardinality(Building \ {s}) = Cardinality(Building) - 1
    BY <1>1, <1>4, FS_RemoveElement
  <2>2. Cardinality(Building \ {s}) \in Nat
    BY <1>1, FS_RemoveElement, FS_CardinalityType
  <2>. QED  BY <1>4, <2>1, <2>2
<1>. QED  BY <1>2, <1>3, <1>4

\* The count of spawns in flight is what _spawning says, whatever a spawn does.
LEMMA SpawningStep ==
    ASSUME TypeOK, spawning = Cardinality(Building), Next, leaving \subseteq Known
    PROVE  spawning' = Cardinality(Building') /\ spawning' \in Nat
<1>. USE DEF registry, process, info, calls, viewing, workers, pass
<1>1. CASE UNCHANGED <<stage, spawning>>
  BY <1>1 DEF Building, TypeOK
<1>2. ASSUME NEW s \in Sessions, Spawn(s)
      PROVE  spawning' = Cardinality(Building') /\ spawning' \in Nat
  <2>1. Building' = Building
    BY <1>2 DEF Spawn, Building, TypeOK
  <2>. QED  BY <1>2, <2>1 DEF Spawn, TypeOK
<1>3. ASSUME NEW s \in Sessions, SpawnAsync(s)
      PROVE  spawning' = Cardinality(Building') /\ spawning' \in Nat
  <2>1. s \notin Building /\ Building' = Building \cup {s}
    BY <1>3 DEF SpawnAsync, Building, TypeOK
  <2>2. spawning' = spawning + 1
    BY <1>3 DEF SpawnAsync
  <2>3. Cardinality(Building') = Cardinality(Building) + 1 /\ spawning \in Nat
    BY <2>1, BuildingCount DEF TypeOK
  <2>. QED  BY <2>2, <2>3
<1>4. ASSUME NEW s \in Sessions, BuildOk(s) \/ BuildFails(s)
      PROVE  spawning' = Cardinality(Building') /\ spawning' \in Nat
  <2>1. Building' = Building
    BY <1>4 DEF BuildOk, BuildFails, Building, TypeOK
  <2>. QED  BY <1>4, <2>1 DEF BuildOk, BuildFails, TypeOK
<1>5. ASSUME NEW s \in Sessions, FinishAsyncSpawn(s)
      PROVE  spawning' = Cardinality(Building') /\ spawning' \in Nat
  <2>1. s \in Building /\ Building' = Building \ {s}
    BY <1>5 DEF FinishAsyncSpawn, Building, TypeOK
  <2>2. spawning' = spawning - 1
    BY <1>5 DEF FinishAsyncSpawn, SettleSpawn
  <2>. QED  BY <2>1, <2>2, BuildingCount
<1>6. ASSUME NEW s \in Sessions, RemoveIfSame(s)
      PROVE  spawning' = Cardinality(Building') /\ spawning' \in Nat
  <2>1. Building' = Building
    BY <1>6 DEF RemoveIfSame, Building, TypeOK, Known
  <2>. QED  BY <1>6, <2>1 DEF RemoveIfSame, TypeOK
<1>7. ASSUME NEW s \in Sessions, ProcessStep(s) \/ ApiStep(s) \/ FinishKill(s) \/ Release(s)
      PROVE  UNCHANGED <<stage, spawning>>
  BY <1>7 DEF ProcessStep, ProcessEnds, ChildStartsOrEnds, OnExit, OnOutput, ApiStep,
     Retain, MarkSeen, AgentWaits, SaveWorkspace, GoesIdle, Ages, FinishKill, Release
<1>8. ASSUME NEW v \in Viewers, ViewerStep(v)
      PROVE  UNCHANGED <<stage, spawning>>
  BY <1>8 DEF ViewerStep, WsOpen, WsReplaysExited, WsReplayedExited, WsAttach, WsEnds,
     Touch, Write
<1>9. ASSUME NEW k \in Killers, KillerStep(k)
      PROVE  UNCHANGED <<stage, spawning>>
  BY <1>9 DEF KillerStep, KillStarts, KillVerified, KillSurvived
<1>10. ASSUME NEW n \in Limits, SetMaxSessions(n)
       PROVE  UNCHANGED <<stage, spawning>>
  BY <1>10 DEF SetMaxSessions
<1>11. ASSUME ReaperStep PROVE UNCHANGED <<stage, spawning>>
  BY <1>11 DEF ReaperStep, ReadSaved, Scan, EndPass, AskClaim, Claim, GiveUp,
     ClaimRefused, ReapKill, ReapVerified, ReapSurvived
<1>. QED
  BY <1>1, <1>2, <1>3, <1>4, <1>5, <1>6, <1>7, <1>8, <1>9, <1>10, <1>11
     DEF Next, SpawnStep, LoopStep

-----------------------------------------------------------------------------
(* Who touches what. *)

\* Only the reaper moves its pass.
LEMMA OthersLeaveThePass ==
    ASSUME [Next]_vars, ~ReaperStep
    PROVE  UNCHANGED pass
<1>1. ASSUME NEW s \in Sessions, SpawnStep(s) PROVE UNCHANGED pass
  BY <1>1 DEF SpawnStep, Spawn, SpawnAsync, BuildOk, BuildFails, FinishAsyncSpawn
<1>2. ASSUME NEW s \in Sessions, ProcessStep(s) \/ ApiStep(s) \/ LoopStep(s)
      PROVE  UNCHANGED pass
  BY <1>2 DEF ProcessStep, ProcessEnds, ChildStartsOrEnds, OnExit, OnOutput, ApiStep, Retain,
     MarkSeen, AgentWaits, SaveWorkspace, GoesIdle, Ages, LoopStep, FinishKill,
     RemoveIfSame, Release
<1>3. ASSUME NEW v \in Viewers, ViewerStep(v) PROVE UNCHANGED pass
  BY <1>3 DEF ViewerStep, WsOpen, WsReplaysExited, WsReplayedExited, WsAttach, WsEnds,
     Touch, Write
<1>4. ASSUME NEW k \in Killers, KillerStep(k) PROVE UNCHANGED pass
  BY <1>4 DEF KillerStep, KillStarts, KillVerified, KillSurvived
<1>5. CASE UNCHANGED vars \/ \E n \in Limits : SetMaxSessions(n)
  BY <1>5 DEF vars, SetMaxSessions
<1>. QED  BY <1>1, <1>2, <1>3, <1>4, <1>5 DEF Next

-----------------------------------------------------------------------------
(* The types. *)

\* TypeOK survives every step (spawning: SpawningStep).
LEMMA TypeStep ==
    ASSUME TypeOK, PassInOrder, spawning' \in Nat, [Next]_vars
    PROVE  TypeOK'
<1>. USE DEF Stages, Procs, registry, process, info, calls, viewing, workers, pass
<1>1. ASSUME NEW s \in Sessions, SpawnStep(s) PROVE TypeOK'
  BY <1>1 DEF TypeOK, SpawnStep, Spawn, SpawnAsync, BuildOk, BuildFails, FinishAsyncSpawn
<1>2. ASSUME NEW s \in Sessions, ProcessStep(s) PROVE TypeOK'
  <2>1. CASE ProcessEnds(s) \/ ChildStartsOrEnds(s)
    BY <2>1 DEF TypeOK, ProcessEnds, ChildStartsOrEnds
  <2>2. CASE OnExit(s)
    BY <2>2 DEF TypeOK, OnExit, PublishExit
  <2>3. ASSUME NEW asks \in BOOLEAN, OnOutput(s, asks) PROVE TypeOK'
    BY <2>3 DEF TypeOK, OnOutput
  <2>. QED  BY <1>2, <2>1, <2>2, <2>3 DEF ProcessStep
<1>3. ASSUME NEW s \in Sessions, ApiStep(s) PROVE TypeOK'
  BY <1>3 DEF TypeOK, ApiStep, Retain, MarkSeen, AgentWaits, SaveWorkspace, GoesIdle, Ages
<1>4. ASSUME NEW s \in Sessions, LoopStep(s) PROVE TypeOK'
  BY <1>4 DEF TypeOK, LoopStep, FinishKill, PublishExit, RemoveIfSame, Release
<1>5. ASSUME NEW v \in Viewers, ViewerStep(v) PROVE TypeOK'
  <2>1. ASSUME NEW s \in Sessions, WsOpen(v, s) PROVE TypeOK'
    BY <2>1 DEF TypeOK, WsOpen
  <2>2. CASE WsReplaysExited(v) \/ WsReplayedExited(v)
    BY <2>2 DEF TypeOK, WsReplaysExited, WsReplayedExited, Acknowledge, Listed
  <2>3. CASE WsAttach(v) \/ WsEnds(v)
    BY <2>3 DEF TypeOK, WsAttach, WsEnds, Acknowledge, MayAttach, Listed
  <2>4. CASE Touch(v) \/ Write(v)
    BY <2>4 DEF TypeOK, Touch, Write, Live, Listed
  <2>. QED  BY <1>5, <2>1, <2>2, <2>3, <2>4 DEF ViewerStep
<1>6. ASSUME NEW k \in Killers, KillerStep(k) PROVE TypeOK'
  BY <1>6 DEF TypeOK, KillerStep, KillStarts, KillVerified, KillSurvived, BeginKill
<1>7. ASSUME NEW n \in Limits, SetMaxSessions(n) PROVE TypeOK'
  BY <1>7 DEF TypeOK, SetMaxSessions
<1>8. ASSUME ReaperStep PROVE TypeOK'
  <2>0. CASE Scan
    BY <2>0 DEF TypeOK, Scan, Busy, Live, Listed
  <2>1. CASE ReadSaved \/ EndPass
    BY <2>1 DEF TypeOK, ReadSaved, EndPass, Live, Listed
  <2>2. ASSUME NEW s \in Sessions, AskClaim(s) PROVE TypeOK'
    BY <2>2 DEF TypeOK, AskClaim
  <2>3. CASE Claim \/ GiveUp \/ ClaimRefused
    BY <2>3 DEF TypeOK, Claim, GiveUp, ClaimRefused, NextCandidate, Listed
  <2>4. CASE ReapKill
    BY <2>4 DEF TypeOK, ReapKill, BeginKill, NextCandidate, Listed
  <2>5. CASE ReapVerified \/ ReapSurvived
    BY <2>5 DEF TypeOK, PassInOrder, ReapVerified, ReapSurvived, ReleaseSoon, NextCandidate
  <2>. QED  BY <1>8, <2>0, <2>1, <2>2, <2>3, <2>4, <2>5 DEF ReaperStep
<1>9. CASE UNCHANGED vars
  BY <1>9 DEF TypeOK, vars
<1>. QED
  BY <1>1, <1>2, <1>3, <1>4, <1>5, <1>6, <1>7, <1>8, <1>9 DEF Next

-----------------------------------------------------------------------------
(* The order of things. *)

\* An id is watched, claimed or killed only once it is registered, and alive
\* only from its build to its removal.
LEMMA StagesStep ==
    ASSUME TypeOK, StagesInOrder, PassInOrder, KilledIsDead, [Next]_vars
    PROVE  StagesInOrder'
<1>. USE DEF Known, registry, process, info, calls, viewing, workers, pass
<1>1. ASSUME NEW s \in Sessions, SpawnStep(s) PROVE StagesInOrder'
  BY <1>1 DEF StagesInOrder, TypeOK, SpawnStep, Spawn, SpawnAsync, BuildOk, BuildFails,
     FinishAsyncSpawn
<1>2. ASSUME NEW s \in Sessions, ProcessStep(s) \/ ApiStep(s) PROVE StagesInOrder'
  BY <1>2 DEF StagesInOrder, TypeOK, ProcessStep, ProcessEnds, ChildStartsOrEnds, OnExit,
     OnOutput, ApiStep, Retain, MarkSeen, AgentWaits, SaveWorkspace, GoesIdle, Ages
<1>3. ASSUME NEW s \in Sessions, LoopStep(s) PROVE StagesInOrder'
  BY <1>3 DEF StagesInOrder, KilledIsDead, TypeOK, LoopStep, FinishKill, RemoveIfSame,
     Release, Listed
<1>4. ASSUME NEW v \in Viewers, ViewerStep(v) PROVE StagesInOrder'
  BY <1>4 DEF StagesInOrder, TypeOK, ViewerStep, WsOpen, WsReplaysExited,
     WsReplayedExited, WsAttach, WsEnds, Touch, Write, Live, Listed
<1>5. ASSUME NEW k \in Killers, KillerStep(k) PROVE StagesInOrder'
  BY <1>5 DEF StagesInOrder, KilledIsDead, TypeOK, KillerStep, KillStarts, KillVerified,
     KillSurvived, Listed
<1>6. ASSUME ReaperStep PROVE StagesInOrder'
  BY <1>6 DEF StagesInOrder, PassInOrder, TypeOK, ReaperStep, ReadSaved, Scan, EndPass,
     AskClaim, Claim, GiveUp, ClaimRefused, ReapKill, ReapVerified, ReapSurvived,
     NextCandidate, Listed
<1>7. CASE UNCHANGED vars \/ \E n \in Limits : SetMaxSessions(n)
  BY <1>7 DEF StagesInOrder, vars, SetMaxSessions
<1>. QED  BY <1>1, <1>2, <1>3, <1>4, <1>5, <1>6, <1>7 DEF Next

\* The reaper's program counter and its claim call move together.
LEMMA PassStep ==
    ASSUME TypeOK, PassInOrder, [Next]_vars
    PROVE  PassInOrder'
<1>. USE DEF registry, process, info, calls, viewing, workers, pass
<1>1. CASE UNCHANGED pass
  BY <1>1 DEF PassInOrder
<1>2. CASE ReaperStep
  BY <1>2 DEF PassInOrder, TypeOK, ReaperStep, ReadSaved, Scan, EndPass, AskClaim, Claim,
     GiveUp, ClaimRefused, ReapKill, ReapVerified, ReapSurvived, NextCandidate
<1>3. CASE ~ReaperStep
  BY <1>1, <1>3, OthersLeaveThePass
<1>. QED  BY <1>2, <1>3

\* Nothing raises a dead process, and nothing makes a going session alive again.
LEMMA KilledStep ==
    ASSUME TypeOK, StagesInOrder, PassInOrder, NoHiddenProcess, KilledIsDead, [Next]_vars
    PROVE  KilledIsDead'
<1>. USE DEF KilledIsDead, Ended, registry, process, info, calls, viewing, workers, pass
<1>1. ASSUME NEW s \in Sessions, SpawnStep(s) PROVE KilledIsDead'
  BY <1>1 DEF StagesInOrder, Known, TypeOK, SpawnStep, Spawn, SpawnAsync, BuildOk,
     BuildFails, FinishAsyncSpawn
<1>2. ASSUME NEW s \in Sessions, ProcessStep(s) \/ ApiStep(s) PROVE KilledIsDead'
  BY <1>2 DEF TypeOK, ProcessStep, ProcessEnds, ChildStartsOrEnds, OnExit,
     OnOutput, ApiStep, Retain, MarkSeen, AgentWaits, SaveWorkspace, GoesIdle, Ages
<1>3. ASSUME NEW s \in Sessions, LoopStep(s) PROVE KilledIsDead'
  BY <1>3 DEF LoopStep, FinishKill, RemoveIfSame, Release
<1>4. ASSUME NEW v \in Viewers, ViewerStep(v) PROVE KilledIsDead'
  BY <1>4 DEF ViewerStep, WsOpen, WsReplaysExited, WsReplayedExited, WsAttach, WsEnds,
     Touch, Write
<1>5. ASSUME NEW k \in Killers, KillerStep(k) PROVE KilledIsDead'
  BY <1>5 DEF TypeOK, KillerStep, KillStarts, BeginKill, KillVerified, Verified,
     KillSurvived
<1>6. CASE ReaperStep
  <2>1. CASE ReapKill
    BY <2>1 DEF TypeOK, ReapKill, BeginKill, NextCandidate, Listed
  <2>2. CASE ReapVerified
    BY <2>2 DEF TypeOK, ReapVerified, Verified, NextCandidate
  <2>3. CASE ReaperStep /\ ~ReapKill /\ ~ReapVerified
    BY <2>3 DEF ReaperStep, ReadSaved, Scan, EndPass, AskClaim, Claim, GiveUp,
       ClaimRefused, ReapSurvived
  <2>. QED  BY <1>6, <2>1, <2>2, <2>3
<1>7. CASE UNCHANGED vars \/ \E n \in Limits : SetMaxSessions(n)
  BY <1>7 DEF vars, SetMaxSessions
<1>. QED  BY <1>1, <1>2, <1>3, <1>4, <1>5, <1>6, <1>7 DEF Next

-----------------------------------------------------------------------------
(* The reaper's claim. *)

\* A claim is held from its grant to its release, and only a held one, or a kill
\* somebody asked for, takes a session out.
LEMMA ClaimStep ==
    ASSUME TypeOK, PassInOrder, KilledIsDead, ClaimIsHeld, [Next]_vars
    PROVE  ClaimIsHeld'
<1>. USE DEF ClaimIsHeld, registry, process, info, calls, viewing, workers, pass
<1>1. ASSUME NEW s \in Sessions, SpawnStep(s) \/ ProcessStep(s) \/ ApiStep(s)
      PROVE  UNCHANGED <<calls, workers, pass>>
  BY <1>1 DEF SpawnStep, Spawn, SpawnAsync, BuildOk, BuildFails, FinishAsyncSpawn,
     ProcessStep, ProcessEnds, ChildStartsOrEnds, OnExit, OnOutput, ApiStep, Retain,
     MarkSeen, AgentWaits, SaveWorkspace, GoesIdle, Ages
<1>2. ASSUME NEW v \in Viewers, ViewerStep(v) PROVE UNCHANGED <<calls, workers, pass>>
  BY <1>2 DEF ViewerStep, WsOpen, WsReplaysExited, WsReplayedExited, WsAttach, WsEnds,
     Touch, Write
<1>3. ASSUME NEW s \in Sessions, LoopStep(s) PROVE ClaimIsHeld'
  BY <1>3 DEF LoopStep, FinishKill, RemoveIfSame, Release
<1>4. ASSUME NEW k \in Killers, KillerStep(k) PROVE ClaimIsHeld'
  BY <1>4 DEF KilledIsDead, KillerStep, KillStarts, KillVerified, KillSurvived
<1>5. ASSUME ReaperStep PROVE ClaimIsHeld'
  <2>1. CASE Claim
    BY <2>1 DEF Claim, Reapable
  <2>2. CASE ReapVerified \/ ReapSurvived
    BY <2>2 DEF PassInOrder, ReapVerified, ReapSurvived, ReleaseSoon, NextCandidate
  <2>3. CASE ReaperStep /\ ~Claim /\ ~ReapVerified /\ ~ReapSurvived
    BY <2>3 DEF ReaperStep, ReadSaved, Scan, EndPass, AskClaim, GiveUp, ClaimRefused,
       ReapKill, BeginKill, NextCandidate
  <2>. QED  BY <1>5, <2>1, <2>2, <2>3
<1>6. CASE UNCHANGED <<calls, workers, pass>>
  BY <1>6
<1>7. CASE UNCHANGED vars \/ \E n \in Limits : SetMaxSessions(n)
  BY <1>6, <1>7 DEF vars, SetMaxSessions
<1>. QED  BY <1>1, <1>2, <1>3, <1>4, <1>5, <1>6, <1>7 DEF Next

\* The pass lets go of a claim only into a release or a posted _finish_kill.
LEMMA OwnerStep ==
    ASSUME TypeOK, StagesInOrder, PassInOrder, ClaimHasOwner, [Next]_vars
    PROVE  ClaimHasOwner'
<1>. USE DEF ClaimHasOwner, Listed, registry, process, info, calls, viewing, workers, pass
<1>1. ASSUME NEW s \in Sessions, SpawnStep(s) PROVE ClaimHasOwner'
  BY <1>1 DEF StagesInOrder, Known, TypeOK, SpawnStep, Spawn, SpawnAsync, BuildOk,
     BuildFails, FinishAsyncSpawn
<1>2. ASSUME NEW s \in Sessions, ProcessStep(s) \/ ApiStep(s) PROVE ClaimHasOwner'
  BY <1>2 DEF ProcessStep, ProcessEnds, ChildStartsOrEnds, OnExit,
     OnOutput, ApiStep, Retain, MarkSeen, AgentWaits, SaveWorkspace, GoesIdle, Ages
<1>3. ASSUME NEW s \in Sessions, LoopStep(s) PROVE ClaimHasOwner'
  BY <1>3 DEF LoopStep, FinishKill, RemoveIfSame, Release, TypeOK
<1>4. ASSUME NEW v \in Viewers, ViewerStep(v) PROVE ClaimHasOwner'
  BY <1>4 DEF ViewerStep, WsOpen, WsReplaysExited, WsReplayedExited, WsAttach, WsEnds,
     Touch, Write
<1>5. ASSUME NEW k \in Killers, KillerStep(k) PROVE ClaimHasOwner'
  BY <1>5 DEF KillerStep, KillStarts, KillVerified, KillSurvived
<1>6. ASSUME ReaperStep PROVE ClaimHasOwner'
  BY <1>6 DEF PassInOrder, TypeOK, ReaperStep, ReadSaved, Scan, EndPass, AskClaim, Claim,
     GiveUp, ClaimRefused, ReapKill, ReapVerified, ReapSurvived, ReleaseSoon, NextCandidate
<1>7. CASE UNCHANGED vars \/ \E n \in Limits : SetMaxSessions(n)
  BY <1>7 DEF vars, SetMaxSessions
<1>. QED  BY <1>1, <1>2, <1>3, <1>4, <1>5, <1>6, <1>7 DEF Next

\* A claimed session takes no viewer, and with none nobody types into it.
LEMMA UnwatchedStep ==
    ASSUME TypeOK, StagesInOrder, ClaimedIsUnwatched, [Next]_vars
    PROVE  ClaimedIsUnwatched'
<1>. USE DEF ClaimedIsUnwatched, Attached, Listed, registry, process, info, calls, viewing,
             workers, pass
<1>1. ASSUME NEW s \in Sessions, SpawnStep(s) PROVE ClaimedIsUnwatched'
  BY <1>1 DEF StagesInOrder, Known, TypeOK, SpawnStep, Spawn, SpawnAsync, BuildOk,
     BuildFails, FinishAsyncSpawn
<1>2. ASSUME NEW s \in Sessions, ProcessStep(s) \/ ApiStep(s) PROVE ClaimedIsUnwatched'
  BY <1>2 DEF ProcessStep, ProcessEnds, ChildStartsOrEnds, OnExit,
     OnOutput, ApiStep, Retain, MarkSeen, AgentWaits, SaveWorkspace, GoesIdle, Ages
<1>3. ASSUME NEW s \in Sessions, LoopStep(s) PROVE ClaimedIsUnwatched'
  BY <1>3 DEF LoopStep, FinishKill, RemoveIfSame, Release, TypeOK
<1>4. ASSUME NEW v \in Viewers, ViewerStep(v) PROVE ClaimedIsUnwatched'
  <2>1. CASE WsAttach(v)
    BY <2>1 DEF WsAttach, MayAttach, TypeOK
  <2>2. CASE Touch(v)
    BY <2>2 DEF Touch, Live, TypeOK
  <2>3. CASE ViewerStep(v) /\ ~WsAttach(v) /\ ~Touch(v)
    BY <2>3 DEF ViewerStep, WsOpen, WsReplaysExited, WsReplayedExited, WsEnds, Write, TypeOK
  <2>. QED  BY <1>4, <2>1, <2>2, <2>3
<1>5. ASSUME NEW k \in Killers, KillerStep(k) PROVE ClaimedIsUnwatched'
  BY <1>5 DEF KillerStep, KillStarts, KillVerified, KillSurvived
<1>6. ASSUME ReaperStep PROVE ClaimedIsUnwatched'
  BY <1>6 DEF ReaperStep, ReadSaved, Scan, EndPass, AskClaim, Claim, Reapable,
     GiveUp, ClaimRefused, ReapKill, ReapVerified, ReapSurvived, ReleaseSoon, NextCandidate
<1>7. CASE UNCHANGED vars \/ \E n \in Limits : SetMaxSessions(n)
  BY <1>7 DEF vars, SetMaxSessions
<1>. QED  BY <1>1, <1>2, <1>3, <1>4, <1>5, <1>6, <1>7 DEF Next

-----------------------------------------------------------------------------
(* The end of a session. *)

\* A process that runs keeps its session alive and on its way into the registry.
LEMMA HiddenStep ==
    ASSUME TypeOK, StagesInOrder, KilledIsDead, NoHiddenProcess, [Next]_vars
    PROVE  NoHiddenProcess'
<1>. USE DEF NoHiddenProcess, registry, process, info, calls, viewing, workers, pass
<1>1. ASSUME NEW s \in Sessions, SpawnStep(s) PROVE NoHiddenProcess'
  BY <1>1 DEF StagesInOrder, TypeOK, SpawnStep, Spawn, SpawnAsync, BuildOk, BuildFails,
     FinishAsyncSpawn
<1>2. ASSUME NEW s \in Sessions, ProcessStep(s) \/ ApiStep(s) PROVE NoHiddenProcess'
  BY <1>2 DEF Ended, TypeOK, ProcessStep, ProcessEnds, ChildStartsOrEnds, OnExit,
     OnOutput, ApiStep, Retain, MarkSeen, AgentWaits, SaveWorkspace, GoesIdle, Ages
<1>3. ASSUME NEW s \in Sessions, LoopStep(s) PROVE NoHiddenProcess'
  BY <1>3 DEF KilledIsDead, Ended, TypeOK, LoopStep, FinishKill, RemoveIfSame, Release
<1>4. ASSUME NEW v \in Viewers, ViewerStep(v) PROVE NoHiddenProcess'
  BY <1>4 DEF ViewerStep, WsOpen, WsReplaysExited, WsReplayedExited, WsAttach, WsEnds,
     Touch, Write
<1>5. ASSUME NEW k \in Killers, KillerStep(k) PROVE NoHiddenProcess'
  BY <1>5 DEF TypeOK, KillerStep, KillStarts, BeginKill, KillVerified, KillSurvived
<1>6. ASSUME ReaperStep PROVE NoHiddenProcess'
  BY <1>6 DEF TypeOK, ReaperStep, ReadSaved, Scan, EndPass, AskClaim, Claim, GiveUp,
     ClaimRefused, ReapKill, BeginKill, ReapVerified, ReapSurvived
<1>7. CASE UNCHANGED vars \/ \E n \in Limits : SetMaxSessions(n)
  BY <1>7 DEF vars, SetMaxSessions
<1>. QED  BY <1>1, <1>2, <1>3, <1>4, <1>5, <1>6, <1>7 DEF Next

\* alive falls once, and whoever lowers it tells every viewer.
LEMMA ToldStep ==
    ASSUME TypeOK, StagesInOrder, ExitToldOnce, [Next]_vars
    PROVE  ExitToldOnce'
<1>. USE DEF ExitToldOnce, registry, process, info, calls, viewing, workers, pass
<1>1. CASE UNCHANGED <<alive, viewing>>
  BY <1>1
<1>2. ASSUME NEW s \in Sessions, SpawnStep(s) PROVE ExitToldOnce'
  <2>1. alive' = alive \/ (alive' = alive \cup {s} /\ s \notin Known)
    BY <1>2 DEF Known, SpawnStep, Spawn, SpawnAsync, BuildOk, BuildFails, FinishAsyncSpawn
  <2>2. UNCHANGED viewing
    BY <1>2 DEF SpawnStep, Spawn, SpawnAsync, BuildOk, BuildFails, FinishAsyncSpawn
  <2>. QED  BY <2>1, <2>2 DEF StagesInOrder
<1>3. ASSUME NEW s \in Sessions, ProcessStep(s) \/ ApiStep(s) PROVE ExitToldOnce'
  <2>1. CASE OnExit(s)
    BY <2>1 DEF OnExit, FirstToEnd, PublishExit, Attached, TypeOK
  <2>2. CASE (ProcessStep(s) \/ ApiStep(s)) /\ ~OnExit(s)
    BY <1>1, <2>2 DEF ProcessStep, ProcessEnds, ChildStartsOrEnds, OnOutput, ApiStep,
       Retain, MarkSeen, AgentWaits, SaveWorkspace, GoesIdle, Ages
  <2>. QED  BY <1>3, <2>1, <2>2
<1>4. ASSUME NEW s \in Sessions, LoopStep(s) PROVE ExitToldOnce'
  <2>1. CASE FinishKill(s)
    BY <2>1 DEF FinishKill, FirstToEnd, PublishExit, Attached, TypeOK
  <2>2. CASE RemoveIfSame(s) \/ Release(s)
    BY <1>1, <2>2 DEF RemoveIfSame, Release
  <2>. QED  BY <1>4, <2>1, <2>2 DEF LoopStep
<1>5. ASSUME NEW v \in Viewers, ViewerStep(v) PROVE ExitToldOnce'
  BY <1>5 DEF ViewerStep, WsOpen, WsReplaysExited, WsReplayedExited, WsAttach, WsEnds,
     Touch, Write, TypeOK
<1>6. ASSUME NEW k \in Killers, KillerStep(k) PROVE UNCHANGED <<alive, viewing>>
  BY <1>6 DEF KillerStep, KillStarts, KillVerified, KillSurvived
<1>7. ASSUME ReaperStep PROVE UNCHANGED <<alive, viewing>>
  BY <1>7 DEF ReaperStep, ReadSaved, Scan, EndPass, AskClaim, Claim, GiveUp,
     ClaimRefused, ReapKill, ReapVerified, ReapSurvived
<1>8. CASE UNCHANGED vars \/ \E n \in Limits : SetMaxSessions(n)
  BY <1>1, <1>8 DEF vars, SetMaxSessions
<1>. QED  BY <1>1, <1>2, <1>3, <1>4, <1>5, <1>6, <1>7, <1>8 DEF Next

\* The reaper decides on a typed-into session only once it is read, and nothing
\* that would make it unread again can follow.
LEMMA DoomedStep ==
    ASSUME TypeOK, StagesInOrder, PassInOrder, KilledIsDead, ClaimIsHeld,
           ClaimedIsUnwatched, DoomedIsRead, [Next]_vars
    PROVE  DoomedIsRead'
<1>. USE DEF DoomedIsRead, Doomed, registry, process, info, calls, viewing, workers, pass
<1>1. ASSUME NEW s \in Sessions, SpawnStep(s) PROVE DoomedIsRead'
  BY <1>1 DEF StagesInOrder, Known, TypeOK, SpawnStep, Spawn, SpawnAsync, BuildOk,
     BuildFails, FinishAsyncSpawn
<1>2. ASSUME NEW s \in Sessions, ProcessStep(s) PROVE DoomedIsRead'
  BY <1>2 DEF TypeOK, ProcessStep, ProcessEnds, ChildStartsOrEnds, OnExit, FirstToEnd,
     OnOutput
<1>3. ASSUME NEW s \in Sessions, ApiStep(s) PROVE DoomedIsRead'
  BY <1>3 DEF TypeOK, ApiStep, Retain, MarkSeen, AgentWaits, SaveWorkspace, GoesIdle, Ages,
     Live
<1>4. ASSUME NEW s \in Sessions, LoopStep(s) PROVE DoomedIsRead'
  BY <1>4 DEF TypeOK, LoopStep, FinishKill, FirstToEnd, RemoveIfSame, Release
<1>5. ASSUME NEW v \in Viewers, ViewerStep(v) PROVE DoomedIsRead'
  <2>1. CASE Touch(v)
    <3>. DEFINE s == vsid[v]
    <3>1. s \in Live /\ s \notin reaping
      BY <2>1 DEF Touch, Live, Attached, ClaimedIsUnwatched
    <3>2. s \notin asked => ~Doomed(s)
      BY <3>1 DEF ClaimIsHeld, Live, Listed
    <3>. QED  BY <2>1, <3>1, <3>2 DEF Touch, Live, TypeOK
  <2>2. CASE WsReplayedExited(v) \/ WsAttach(v)
    BY <2>2 DEF WsReplayedExited, WsAttach, Acknowledge, TypeOK
  <2>3. CASE ViewerStep(v) /\ ~Touch(v) /\ ~WsReplayedExited(v) /\ ~WsAttach(v)
    BY <2>3 DEF ViewerStep, WsOpen, WsReplaysExited, WsEnds, Write
  <2>. QED  BY <1>5, <2>1, <2>2, <2>3
<1>6. ASSUME NEW k \in Killers, KillerStep(k) PROVE DoomedIsRead'
  BY <1>6 DEF KilledIsDead, KillerStep, KillStarts, KillVerified, KillSurvived
<1>7. ASSUME ReaperStep PROVE DoomedIsRead'
  <2>1. CASE Claim
    BY <2>1 DEF Claim, Reapable, KeepsUnreadExit
  <2>2. CASE ReapVerified
    BY <2>2 DEF PassInOrder, ReapVerified, NextCandidate
  <2>3. CASE ReaperStep /\ ~Claim /\ ~ReapVerified
    BY <2>3 DEF PassInOrder, ReaperStep, ReadSaved, Scan, EndPass, AskClaim, GiveUp,
       ClaimRefused, ReapKill, ReapSurvived, NextCandidate
  <2>. QED  BY <1>7, <2>1, <2>2, <2>3
<1>8. CASE UNCHANGED vars \/ \E n \in Limits : SetMaxSessions(n)
  BY <1>8 DEF vars, SetMaxSessions
<1>. QED  BY <1>1, <1>2, <1>3, <1>4, <1>5, <1>6, <1>7, <1>8 DEF Next

-----------------------------------------------------------------------------
(* The inductive invariant and what it gives. *)

LEMMA InitHolds == Init => IInv
<1>. SUFFICES ASSUME Init PROVE IInv
  OBVIOUS
<1>1. TypeOK
  BY SessionsAssumption DEF Init, TypeOK, Stages, Procs
<1>2. spawning = Cardinality(Building)
  <2>1. Building = {}
    BY DEF Init, Building
  <2>. QED  BY <2>1, FS_EmptySet DEF Init
<1>3. StagesInOrder /\ PassInOrder /\ KilledIsDead /\ ClaimIsHeld
  BY DEF Init, StagesInOrder, PassInOrder, KilledIsDead, ClaimIsHeld
<1>4. ExitToldOnce /\ ClaimedIsUnwatched /\ ClaimHasOwner
  BY DEF Init, ExitToldOnce, ClaimedIsUnwatched, ClaimHasOwner
<1>5. NoHiddenProcess /\ DoomedIsRead
  BY DEF Init, NoHiddenProcess, DoomedIsRead
<1>. QED  BY <1>1, <1>2, <1>3, <1>4, <1>5 DEF IInv

LEMMA StepHolds == IInv /\ [Next]_vars => IInv'
<1>. SUFFICES ASSUME IInv, [Next]_vars PROVE IInv'
  OBVIOUS
<1>1. /\ TypeOK /\ StagesInOrder /\ PassInOrder /\ KilledIsDead /\ ClaimIsHeld
      /\ ExitToldOnce /\ ClaimedIsUnwatched /\ ClaimHasOwner /\ NoHiddenProcess
      /\ DoomedIsRead /\ leaving \subseteq Known /\ spawning = Cardinality(Building)
  BY DEF IInv, StagesInOrder
<1>2. spawning' = Cardinality(Building') /\ spawning' \in Nat
  <2>1. CASE Next
    BY <1>1, <2>1, SpawningStep
  <2>2. CASE UNCHANGED vars
    <3>1. Building' = Building /\ spawning' = spawning
      BY <2>2 DEF vars, registry, Building
    <3>. QED  BY <1>1, <3>1 DEF TypeOK
  <2>. QED  BY <2>1, <2>2
<1>3. TypeOK'
  BY <1>1, <1>2, TypeStep
<1>4. StagesInOrder' /\ PassInOrder' /\ KilledIsDead'
  BY <1>1, StagesStep, PassStep, KilledStep
<1>5. ClaimIsHeld' /\ ClaimHasOwner' /\ ClaimedIsUnwatched'
  BY <1>1, ClaimStep, OwnerStep, UnwatchedStep
<1>6. NoHiddenProcess' /\ ExitToldOnce' /\ DoomedIsRead'
  BY <1>1, HiddenStep, ToldStep, DoomedStep
<1>. QED  BY <1>2, <1>3, <1>4, <1>5, <1>6 DEF IInv

\* The strengthened invariant holds of every reachable state, whatever the
\* interleaving of the loop, the workers and the reaper.
THEOREM Invariance == Spec => []IInv
<1>. QED  BY InitHolds, StepHolds, PTL DEF Spec

\* Every variable keeps its type; in particular _spawning never goes negative.
THEOREM TypeCorrect == Spec => []TypeOK
<1>1. IInv => TypeOK
  BY DEF IInv
<1>. QED  BY <1>1, Invariance, PTL

\* _finish_kill and _on_exit together tell each viewer of an end exactly once.
THEOREM ExitIsToldOnce == Spec => []ExitToldOnce
<1>1. IInv => ExitToldOnce
  BY DEF IInv
<1>. QED  BY <1>1, Invariance, PTL

\* Between the reaper's claim and the end of its kill nobody opens the session.
THEOREM NobodyWatchesAClaim == Spec => []ClaimedIsUnwatched
<1>1. IInv => ClaimedIsUnwatched
  BY DEF IInv
<1>. QED  BY <1>1, Invariance, PTL

\* The reaper never forgets a claim, timeouts and failed kills included.
THEOREM EveryClaimHasOwner == Spec => []ClaimHasOwner
<1>1. IInv => ClaimHasOwner
  BY DEF IInv
<1>. QED  BY <1>1, Invariance, PTL

\* No kill, exit or removal hides a process that still runs.
THEOREM NoProcessIsHidden == Spec => []NoHiddenProcess
<1>1. IInv => NoHiddenProcess
  BY DEF IInv
<1>. QED  BY <1>1, Invariance, PTL

\* The reaper takes no session the user typed into before it was read or old.
THEOREM UnreadIsKept == Spec => []UnreadOutputIsKept
<1>1. IInv => UnreadOutputIsKept
  BY DEF IInv, DoomedIsRead, Doomed, UnreadOutputIsKept
<1>. QED  BY <1>1, Invariance, PTL

-----------------------------------------------------------------------------
(* Admission. *)

\* Where nothing becomes live and nothing is counted, the load does not grow.
LEMMA LoadFalls ==
    ASSUME IInv, Live' \subseteq Live, spawning' \in Nat, spawning' <= spawning
    PROVE  Load' <= Load
<1>1. IsFiniteSet(Live)
  BY SessionsAssumption, FS_Subset DEF Live, Listed
<1>2. Cardinality(Live') <= Cardinality(Live) /\ Cardinality(Live) \in Nat
      /\ Cardinality(Live') \in Nat
  BY <1>1, FS_Subset, FS_CardinalityType
<1>. QED  BY <1>2 DEF Load, IInv, TypeOK

\* Only a spawn raises the load, and it was admitted against the same limit.
THEOREM LimitIsRespected == Spec => SpawnRespectsLimit
<1>. DEFINE Within == Load' > Load => limit' = 0 \/ Load' <= limit'
<1>. USE DEF registry, process, info, calls, viewing, workers, pass
<1>1. IInv /\ IInv' /\ [Next]_vars => [Within]_vars
  <2>. SUFFICES ASSUME IInv, IInv', Next PROVE Within
    OBVIOUS
  <2>1. /\ IsFiniteSet(Live) /\ Cardinality(Live) \in Nat /\ spawning \in Nat
        /\ Cardinality(Live') \in Nat /\ spawning' \in Nat /\ limit \in Nat
        /\ Load \in Nat /\ Load' \in Nat
    <3>1. IsFiniteSet(Live) /\ IsFiniteSet(Live')
      BY SessionsAssumption, FS_Subset DEF Live, Listed
    <3>2. Cardinality(Live) \in Nat /\ Cardinality(Live') \in Nat
      BY <3>1, FS_CardinalityType
    <3>. QED  BY <3>1, <3>2, SessionsAssumption DEF Load, IInv, TypeOK
  <2>2. ASSUME NEW s \in Sessions, Spawn(s) PROVE Within
    <3>1. Live' = Live \cup {s} /\ spawning' = spawning /\ limit' = limit
      BY <2>2 DEF Spawn, Live, Listed, IInv, TypeOK
    <3>2. Cardinality(Live') <= Cardinality(Live) + 1
      BY <2>1, <3>1, FS_AddElement
    <3>3. limit = 0 \/ Load < limit
      BY <2>2 DEF Spawn, Admitted
    <3>. QED  BY <2>1, <3>1, <3>2, <3>3 DEF Load
  <2>3. ASSUME NEW s \in Sessions, SpawnAsync(s) PROVE Within
    <3>1. Live' = Live /\ spawning' = spawning + 1 /\ limit' = limit
      BY <2>3 DEF SpawnAsync, Live, Listed, IInv, TypeOK
    <3>2. limit = 0 \/ Load < limit
      BY <2>3 DEF SpawnAsync, Admitted
    <3>. QED  BY <2>1, <3>1, <3>2 DEF Load
  <2>4. ASSUME NEW s \in Sessions, FinishAsyncSpawn(s) PROVE Within
    <3>1. Live' \subseteq Live \cup {s} /\ spawning' = spawning - 1
      BY <2>4 DEF FinishAsyncSpawn, SettleSpawn, Live, Listed, IInv, TypeOK
    <3>2. /\ IsFiniteSet(Live \cup {s})
          /\ Cardinality(Live \cup {s}) <= Cardinality(Live) + 1
      BY <2>1, FS_AddElement
    <3>3. Cardinality(Live \cup {s}) \in Nat
      BY <3>2, FS_CardinalityType
    <3>4. Cardinality(Live') <= Cardinality(Live \cup {s})
      BY <3>1, <3>2, FS_Subset
    <3>5. Cardinality(Live') <= Cardinality(Live) + 1
      BY <2>1, <3>2, <3>3, <3>4
    <3>. QED  BY <2>1, <3>1, <3>5 DEF Load
  <2>5. CASE Live' \subseteq Live /\ spawning' = spawning
    BY <2>1, <2>5, LoadFalls
  <2>6. ASSUME NEW s \in Sessions, BuildOk(s) \/ BuildFails(s) \/ ProcessStep(s)
                                   \/ ApiStep(s) \/ LoopStep(s)
        PROVE  Live' \subseteq Live /\ spawning' = spawning
    BY <2>6 DEF BuildOk, BuildFails, ProcessStep, ProcessEnds, ChildStartsOrEnds, OnExit,
       OnOutput, ApiStep, Retain, MarkSeen, AgentWaits, SaveWorkspace, GoesIdle, Ages,
       LoopStep, FinishKill, RemoveIfSame, Release, Live, Listed, IInv, TypeOK
  <2>7. ASSUME NEW v \in Viewers, ViewerStep(v)
        PROVE  Live' \subseteq Live /\ spawning' = spawning
    BY <2>7 DEF ViewerStep, WsOpen, WsReplaysExited, WsReplayedExited, WsAttach, WsEnds,
       Touch, Write, Live, Listed
  <2>8. ASSUME NEW k \in Killers, KillerStep(k)
        PROVE  Live' \subseteq Live /\ spawning' = spawning
    BY <2>8 DEF KillerStep, KillStarts, KillVerified, KillSurvived, Live, Listed
  <2>9. CASE ReaperStep \/ \E n \in Limits : SetMaxSessions(n)
    <3>1. Live' \subseteq Live /\ spawning' = spawning
      BY <2>9 DEF ReaperStep, ReadSaved, Scan, EndPass, AskClaim, Claim, GiveUp,
         ClaimRefused, ReapKill, ReapVerified, ReapSurvived, SetMaxSessions, Live, Listed
    <3>. QED  BY <2>5, <3>1
  <2>. QED  BY <2>2, <2>3, <2>4, <2>5, <2>6, <2>7, <2>8, <2>9 DEF Next, SpawnStep
<1>. QED  BY <1>1, Invariance, PTL DEF Spec, SpawnRespectsLimit

-----------------------------------------------------------------------------
(* The windows. *)

(* There is an oldest shell to inherit the role. *)

\* A set of numbers that is not empty has a least one.
LEMMA LeastOf ==
    ASSUME NEW T, T \subseteq Nat, T # {}
    PROVE  \E x \in T : \A y \in T : x <= y
<1>1. PICK x \in T : \A y \in T : ~(<<y, x>> \in OpToRel(<, Nat))
  BY NatLessThanWellFounded, WFMin
<1>2. \A y \in T : ~(y < x)
  BY <1>1 DEF OpToRel
<1>. QED  BY <1>2

\* Creation order, ties broken by id, has a first shell (_ordered_locked).
LEMMA OldestIsShell ==
    ASSUME NEW ws, IsRegistry(ws), Shells(ws) # {}
    PROVE  Oldest(ws) \in Shells(ws)
<1>. DEFINE times == {ws[w].created : w \in Shells(ws)}
<1>0. \A w \in Shells(ws) : w \in Nat /\ ws[w].created \in Nat
  BY WindowsAssumption DEF IsRegistry, Infos, Shells
<1>1. PICK t \in times : \A u \in times : t <= u
  <2>. times \subseteq Nat /\ times # {}
    BY <1>0
  <2>. QED  BY LeastOf
<1>. DEFINE first == {w \in Shells(ws) : ws[w].created = t}
<1>2. PICK v \in first : \A w \in first : v <= w
  <2>. first \subseteq Nat /\ first # {}
    BY <1>0, <1>1
  <2>. QED  BY LeastOf
<1>3. \A w \in Shells(ws) : Before(ws, v, w)
  <2>. TAKE w \in Shells(ws)
  <2>1. t <= ws[w].created /\ t \in Nat /\ ws[w].created \in Nat /\ ws[v].created = t
    BY <1>0, <1>1
  <2>2. CASE ws[w].created = t
    BY <2>2, <2>1, <1>2 DEF Before
  <2>3. CASE ws[w].created # t
    BY <2>3, <2>1 DEF Before
  <2>. QED  BY <2>2, <2>3
<1>. QED  BY <1>3 DEF Oldest

-----------------------------------------------------------------------------
(* What each function of the entries keeps. *)

\* Two registries with the same ids say the same about everything but the role.
SameBut(ws, xs) ==
    /\ DOMAIN xs = DOMAIN ws
    /\ \A w \in DOMAIN ws : /\ xs[w].workspace = ws[w].workspace
                            /\ xs[w].parent = ws[w].parent
                            /\ xs[w].last_seen = ws[w].last_seen
                            /\ xs[w].created = ws[w].created

Led(ws) ==
    /\ AtMostOnePrimary(ws)
    /\ Shells(ws) # {} => \E w \in Shells(ws) : ws[w].primary

\* Setting the role of an entry changes nothing else of it.
LEMMA Crowned ==
    ASSUME NEW r \in Infos, NEW b \in BOOLEAN
    PROVE  LET c == [r EXCEPT !.primary = b]
           IN  /\ c \in Infos
               /\ c.primary = b
               /\ c.workspace = r.workspace
               /\ c.parent = r.parent
               /\ c.last_seen = r.last_seen
               /\ c.created = r.created
BY DEF Infos

\* Passing the role on changes nothing else, leaves one primary shell, and never
\* takes the role from a window that has it.
LEMMA EnsureKeeps ==
    ASSUME NEW ws, IsRegistry(ws), AtMostOnePrimary(ws)
    PROVE  /\ IsRegistry(EnsurePrimary(ws))
           /\ SameBut(ws, EnsurePrimary(ws))
           /\ Led(EnsurePrimary(ws))
           /\ \A w \in DOMAIN ws : ws[w].primary => EnsurePrimary(ws)[w].primary
<1>1. CASE Shells(ws) = {} \/ \E w \in Shells(ws) : ws[w].primary
  BY <1>1 DEF EnsurePrimary, SameBut, Led
<1>2. CASE Shells(ws) # {} /\ \A w \in Shells(ws) : ~ws[w].primary
  <2>. DEFINE heir == Oldest(ws)
              xs   == [ws EXCEPT ![heir].primary = TRUE]
  <2>1. EnsurePrimary(ws) = xs
    BY <1>2 DEF EnsurePrimary
  <2>2. heir \in Shells(ws) /\ heir \in DOMAIN ws
    BY <1>2, OldestIsShell DEF Shells
  <2>. HIDE DEF heir
  <2>3. /\ DOMAIN xs = DOMAIN ws
        /\ \A w \in DOMAIN ws : w # heir => xs[w] = ws[w]
        /\ xs[heir] = [ws[heir] EXCEPT !.primary = TRUE]
    BY <2>2
  <2>4. ws[heir] \in Infos
    BY <2>2 DEF IsRegistry
  <2>. HIDE DEF xs
  <2>5. /\ xs[heir] \in Infos
        /\ xs[heir].primary = TRUE
        /\ xs[heir].workspace = ws[heir].workspace
        /\ xs[heir].parent = ws[heir].parent
        /\ xs[heir].last_seen = ws[heir].last_seen
        /\ xs[heir].created = ws[heir].created
    BY <2>3, <2>4, Crowned
  <2>6. IsRegistry(xs)
    <3>1. \A w \in DOMAIN ws : xs[w] \in Infos
      BY <2>3, <2>5 DEF IsRegistry
    <3>2. xs \in [DOMAIN xs -> Infos]
      BY <2>3, <3>1 DEF xs
    <3>. QED  BY <2>3, <3>2 DEF IsRegistry
  <2>7. SameBut(ws, xs)
    BY <2>3, <2>5 DEF SameBut
  <2>8. Shells(xs) = Shells(ws)
    BY <2>7 DEF SameBut, Shells
  <2>9. \A w \in DOMAIN xs : xs[w].primary => w = heir
    BY <1>2, <2>3 DEF AtMostOnePrimary
  <2>10. Led(xs)
    BY <2>2, <2>3, <2>5, <2>8, <2>9 DEF Led, AtMostOnePrimary
  <2>11. \A w \in DOMAIN ws : ws[w].primary => xs[w].primary
    BY <2>3, <2>5
  <2>. QED  BY <2>1, <2>6, <2>7, <2>10, <2>11
<1>. QED  BY <1>1, <1>2

\* Dropping entries keeps a registry a registry, its claims exclusive and its
\* primary, if that one stays, alone.
LEMMA OnlyKeeps ==
    ASSUME NEW ws, IsRegistry(ws), NEW ids \in SUBSET DOMAIN ws
    PROVE  /\ IsRegistry(Only(ws, ids))
           /\ DOMAIN Only(ws, ids) = ids
           /\ \A w \in ids : Only(ws, ids)[w] = ws[w]
           /\ AtMostOnePrimary(ws) => AtMostOnePrimary(Only(ws, ids))
           /\ Exclusive(ws) => Exclusive(Only(ws, ids))
BY DEF IsRegistry, Only, AtMostOnePrimary, Exclusive, Shells

\* Claims do not depend on who is primary.
LEMMA SameClaims ==
    ASSUME NEW ws, NEW xs, SameBut(ws, xs), Exclusive(ws)
    PROVE  Exclusive(xs)
BY DEF SameBut, Exclusive

\* Giving a shell the role takes it from everyone else.
LEMMA SetPrimaryKeeps ==
    ASSUME NEW ws, IsRegistry(ws), NEW w \in DOMAIN ws, ws[w].parent = NoWindow
    PROVE  /\ IsRegistry(SetPrimary(ws, w))
           /\ SameBut(ws, SetPrimary(ws, w))
           /\ AtMostOnePrimary(SetPrimary(ws, w))
<1>. DEFINE xs == SetPrimary(ws, w)
<1>1. DOMAIN xs = DOMAIN ws /\ \A x \in DOMAIN ws : xs[x] = [ws[x] EXCEPT !.primary = (x = w)]
  BY DEF SetPrimary
<1>2. \A x \in DOMAIN ws : /\ xs[x] \in Infos
                           /\ xs[x].primary = (x = w)
                           /\ xs[x].workspace = ws[x].workspace
                           /\ xs[x].parent = ws[x].parent
                           /\ xs[x].last_seen = ws[x].last_seen
                           /\ xs[x].created = ws[x].created
  <2>. TAKE x \in DOMAIN ws
  <2>1. PICK r \in Infos : r = ws[x]
    BY DEF IsRegistry
  <2>. HIDE DEF xs
  <2>2. CASE x = w
    <3>1. PICK c : c = [r EXCEPT !.primary = TRUE]
      OBVIOUS
    <3>2. xs[x] = c
      BY <1>1, <2>1, <2>2, <3>1
    <3>3. /\ c \in Infos /\ c.primary = TRUE /\ c.workspace = r.workspace /\ c.parent = r.parent
          /\ c.last_seen = r.last_seen /\ c.created = r.created
      BY <3>1, Crowned
    <3>. QED  BY <2>1, <2>2, <3>2, <3>3
  <2>3. CASE x # w
    <3>1. PICK c : c = [r EXCEPT !.primary = FALSE]
      OBVIOUS
    <3>2. xs[x] = c
      BY <1>1, <2>1, <2>3, <3>1
    <3>3. /\ c \in Infos /\ c.primary = FALSE /\ c.workspace = r.workspace /\ c.parent = r.parent
          /\ c.last_seen = r.last_seen /\ c.created = r.created
      BY <3>1, Crowned
    <3>. QED  BY <2>1, <2>3, <3>2, <3>3
  <2>. QED  BY <2>2, <2>3
<1>3. xs \in [DOMAIN xs -> Infos]
  BY <1>1, <1>2 DEF SetPrimary
<1>. HIDE DEF xs
<1>4. IsRegistry(xs)
  BY <1>1, <1>3 DEF IsRegistry
<1>5. SameBut(ws, xs)
  BY <1>1, <1>2 DEF SameBut
<1>6. AtMostOnePrimary(xs)
  BY <1>1, <1>2 DEF AtMostOnePrimary, Shells
<1>. QED  BY <1>4, <1>5, <1>6 DEF xs

\* The entry register writes: a claim its own or the one asked for, and the role
\* only if it had it and stays a shell.
LEMMA RegisteredIs ==
    ASSUME RegistryTypeOK, NEW ws, IsRegistry(ws), AtMostOnePrimary(ws), NEW w \in Windows,
           NEW name \in Names \cup {Keep}, NEW parent \in Windows \cup {NoWindow}
    PROVE  LET entry == Registered(ws, w, name, parent)
           IN  /\ entry \in Infos
               /\ name # Keep => entry.workspace = name
               /\ name = Keep => entry.workspace = IF w \in DOMAIN ws THEN ws[w].workspace
                                                                     ELSE NoWorkspace
               /\ entry.primary => w \in DOMAIN ws /\ ws[w].primary /\ entry.parent = NoWindow
               /\ entry.parent = NoWindow /\ w \in DOMAIN ws => entry.primary = ws[w].primary
<1>1. NewInfo \in Infos /\ ~NewInfo.primary /\ NewInfo.workspace = NoWorkspace
  BY DEF NewInfo, Infos, RegistryTypeOK, Names
<1>2. CASE w \in DOMAIN ws
  <2>1. ws[w] \in Infos /\ (ws[w].primary => ws[w].parent = NoWindow)
    BY <1>2 DEF IsRegistry, AtMostOnePrimary, Shells
  <2>2. now \in Nat
    BY DEF RegistryTypeOK
  <2>. QED  BY <1>2, <2>1, <2>2, WindowsAssumption DEF Registered, Infos, Names
<1>3. CASE w \notin DOMAIN ws
  <2>1. now \in Nat
    BY DEF RegistryTypeOK
  <2>. QED  BY <1>1, <1>3, <2>1, WindowsAssumption DEF Registered, Infos, Names
<1>. QED  BY <1>2, <1>3

\* Writing an entry changes that entry alone.
LEMMA WithIs ==
    ASSUME NEW ws, IsRegistry(ws), NEW w \in Windows, NEW entry \in Infos
    PROVE  /\ IsRegistry(With(ws, w, entry))
           /\ DOMAIN With(ws, w, entry) = DOMAIN ws \cup {w}
           /\ With(ws, w, entry)[w] = entry
           /\ \A x \in DOMAIN ws \ {w} : With(ws, w, entry)[x] = ws[x]
<1>. DEFINE xs == With(ws, w, entry)
<1>1. DOMAIN xs = DOMAIN ws \cup {w} /\ xs[w] = entry /\ \A x \in DOMAIN ws \ {w} : xs[x] = ws[x]
  BY DEF With
<1>2. xs \in [DOMAIN xs -> Infos]
  BY DEF With, IsRegistry
<1>. HIDE DEF xs
<1>3. IsRegistry(xs)
  BY <1>1, <1>2 DEF IsRegistry
<1>. QED  BY <1>1, <1>3 DEF xs

\* Claims stay exclusive when the entry claims what nobody else owns.
LEMMA WithExclusive ==
    ASSUME NEW ws, NEW xs, NEW w, NEW entry, Exclusive(ws),
           DOMAIN xs = DOMAIN ws \cup {w}, xs[w] = entry,
           \A x \in DOMAIN ws \ {w} : xs[x] = ws[x],
           \A x \in DOMAIN ws \ {w} :
              entry.workspace = NoWorkspace \/ ws[x].workspace # entry.workspace
    PROVE  Exclusive(xs)
BY DEF Exclusive

\* The primary stays alone when the entry brings no new role with it.
LEMMA WithPrimary ==
    ASSUME NEW ws, NEW xs, NEW w, NEW entry, AtMostOnePrimary(ws),
           DOMAIN xs = DOMAIN ws \cup {w}, xs[w] = entry,
           \A x \in DOMAIN ws \ {w} : xs[x] = ws[x],
           entry.primary => w \in DOMAIN ws /\ ws[w].primary /\ entry.parent = NoWindow
    PROVE  AtMostOnePrimary(xs)
BY DEF AtMostOnePrimary, Shells

-----------------------------------------------------------------------------
(* A call starts from Pruned. *)

RegistryInv == RegistryTypeOK /\ OneOwner /\ OnePrimary /\ BlockedByTheLiving

\* Pruning drops the silent entries and nothing else but, perhaps, passes on
\* the role.
LEMMA PrunedKeeps ==
    ASSUME RegistryInv
    PROVE  /\ IsRegistry(Pruned) /\ Exclusive(Pruned) /\ Led(Pruned)
           /\ DOMAIN Pruned = {w \in DOMAIN windows : Fresh(windows[w])}
           /\ \A w \in DOMAIN Pruned :
                 /\ Pruned[w].workspace = windows[w].workspace
                 /\ Pruned[w].parent = windows[w].parent
                 /\ Pruned[w].last_seen = windows[w].last_seen
                 /\ windows[w].primary => Pruned[w].primary
<1>. DEFINE ids == {w \in DOMAIN windows : Fresh(windows[w])}
            ws  == Only(windows, ids)
<1>0. ids \in SUBSET DOMAIN windows
  OBVIOUS
<1>. HIDE DEF ids
<1>1. IsRegistry(windows) /\ AtMostOnePrimary(windows) /\ Exclusive(windows)
  BY DEF RegistryInv, RegistryTypeOK, OneOwner, OnePrimary
<1>2. /\ IsRegistry(ws) /\ AtMostOnePrimary(ws) /\ Exclusive(ws)
      /\ DOMAIN ws = ids /\ \A w \in ids : ws[w] = windows[w]
  BY <1>0, <1>1, OnlyKeeps
<1>. HIDE DEF ws
<1>3. /\ IsRegistry(EnsurePrimary(ws)) /\ SameBut(ws, EnsurePrimary(ws))
      /\ Led(EnsurePrimary(ws))
      /\ \A w \in DOMAIN ws : ws[w].primary => EnsurePrimary(ws)[w].primary
  BY <1>2, EnsureKeeps
<1>4. Exclusive(EnsurePrimary(ws))
  BY <1>2, <1>3, SameClaims
<1>5. Pruned = EnsurePrimary(ws)
  BY DEF Pruned, ws, ids
<1>. QED  BY <1>2, <1>3, <1>4, <1>5 DEF SameBut, ids

-----------------------------------------------------------------------------
(* The calls. *)

\* What a call leaves behind when it is not refused by an owner.
LEMMA Settles ==
    ASSUME NEW ws, IsRegistry(ws), Exclusive(ws), Led(ws), now \in 0 .. MaxTime,
           NEW w \in Windows \cup {NoWindow}, NEW about \in SUBSET Matters, By(w, about),
           NEW answer \in {Ok, Unknown, Full}, Leaves(ws, answer)
    PROVE  RegistryInv'
<1>1. reply' = answer /\ answer.status # "claimed"
      /\ answer \in [status: Status, owner: Windows \cup {NoWindow}]
  BY DEF Leaves, Ok, Unknown, Full, Status
<1>2. lastCall' \in [by: Windows \cup {NoWindow}, about: SUBSET Matters]
  BY DEF By
<1>. QED
  BY <1>1, <1>2 DEF RegistryInv, RegistryTypeOK, OneOwner, OnePrimary, Led, BlockedByTheLiving, Leaves

\* A refusal names the owner the pruned registry still holds.
LEMMA Refuses ==
    ASSUME RegistryInv, NEW w \in Windows, NEW about \in SUBSET Matters, By(w, about),
           NEW name \in Names \cup {Keep}, Conflicts(Pruned, name, w) # {},
           Leaves(Pruned, Refusal(Pruned, name, w))
    PROVE  RegistryInv'
<1>. DEFINE o == CHOOSE o \in Conflicts(Pruned, name, w) : TRUE
<1>1. o \in Conflicts(Pruned, name, w)
  OBVIOUS
<1>2. Refusal(Pruned, name, w) = [status |-> "claimed", owner |-> o]
  BY DEF Refusal
<1>. HIDE DEF o
<1>3. o \in DOMAIN Pruned /\ Pruned[o].workspace = name /\ name # NoWorkspace
  BY <1>1 DEF Conflicts, Owners
<1>4. Fresh(Pruned[o])
  BY <1>3, PrunedKeeps DEF Fresh
<1>5. IsRegistry(Pruned) /\ Exclusive(Pruned) /\ Led(Pruned) /\ o \in Windows
  BY <1>3, PrunedKeeps DEF IsRegistry
<1>6. windows' = Pruned /\ now' = now /\ reply' = [status |-> "claimed", owner |-> o]
  BY <1>2 DEF Leaves
<1>7. lastCall' \in [by: Windows \cup {NoWindow}, about: SUBSET Matters]
  BY DEF By
<1>8. RegistryTypeOK'
  BY <1>5, <1>6, <1>7 DEF RegistryInv, RegistryTypeOK, Status
<1>9. BlockedByTheLiving'
  BY <1>3, <1>4, <1>6 DEF BlockedByTheLiving, Fresh
<1>. QED  BY <1>5, <1>6, <1>8, <1>9 DEF RegistryInv, OneOwner, OnePrimary, Led

\* Without a conflict nobody else holds the name.
LEMMA NobodyElse ==
    ASSUME NEW ws, NEW w, NEW name \in Names, Conflicts(ws, name, w) = {}
    PROVE  \A x \in DOMAIN ws \ {w} : name = NoWorkspace \/ ws[x].workspace # name
BY WindowsAssumption DEF Conflicts, Owners, Names

\* The registry that register leaves when it is not refused, before the role is
\* passed on.
Asked(w, name, primary, parent) ==
    AskedPrimary(With(Pruned, w, Registered(Pruned, w, name, parent)), w, primary)

\* From ws to xs nobody but w comes, and w changes its own claim only by a name.
KeepsOthers(ws, xs, w, name) ==
    /\ DOMAIN xs = DOMAIN ws \cup {w}
    /\ \A x \in DOMAIN ws \ {w} : xs[x].workspace = ws[x].workspace
    /\ name = Keep /\ w \in DOMAIN ws => xs[w].workspace = ws[w].workspace

\* From ws to xs the primary stays one, becomes a view or yields to w, which asked.
RoleStays(ws, xs, w, primary) ==
    \A x \in DOMAIN ws :
        ws[x].primary => \/ xs[x].primary
                         \/ xs[x].parent # NoWindow
                         \/ primary /\ x # w

\* It is a registry with exclusive claims; the others keep their claims and their
\* shells, the caller too when it says Keep, and the role goes only when asked for.
LEMMA RegisterPuts ==
    ASSUME RegistryInv, NEW w \in Windows, NEW name \in Names \cup {Keep}, NEW primary \in BOOLEAN,
           NEW parent \in Hosts \cup {NoWindow}, Conflicts(Pruned, name, w) = {}
    PROVE  /\ IsRegistry(Asked(w, name, primary, parent))
           /\ Exclusive(Asked(w, name, primary, parent))
           /\ AtMostOnePrimary(Asked(w, name, primary, parent))
           /\ KeepsOthers(Pruned, Asked(w, name, primary, parent), w, name)
           /\ RoleStays(Pruned, Asked(w, name, primary, parent), w, primary)
<1>. DEFINE ws     == Pruned
            entry  == Registered(ws, w, name, parent)
            put    == With(ws, w, entry)
            raised == AskedPrimary(put, w, primary)
<1>1. /\ IsRegistry(ws) /\ Exclusive(ws) /\ AtMostOnePrimary(ws)
      /\ parent \in Windows \cup {NoWindow}
  BY PrunedKeeps, WindowsAssumption DEF Led
<1>2. Conflicts(ws, name, w) = {}
  OBVIOUS
<1>. HIDE DEF ws
<1>3. /\ entry \in Infos
      /\ name # Keep => entry.workspace = name
      /\ name = Keep => entry.workspace = IF w \in DOMAIN ws THEN ws[w].workspace
                                                            ELSE NoWorkspace
      /\ entry.primary => w \in DOMAIN ws /\ ws[w].primary /\ entry.parent = NoWindow
      /\ entry.parent = NoWindow /\ w \in DOMAIN ws => entry.primary = ws[w].primary
  BY <1>1, RegisteredIs DEF RegistryInv
<1>. HIDE DEF entry
<1>4. \A x \in DOMAIN ws \ {w} :
         entry.workspace = NoWorkspace \/ ws[x].workspace # entry.workspace
  <2>1. CASE name # Keep
    BY <1>2, <1>3, <2>1, NobodyElse
  <2>2. CASE name = Keep
    BY <1>1, <1>3, <2>2 DEF Exclusive
  <2>. QED  BY <2>1, <2>2
<1>5. /\ IsRegistry(put) /\ DOMAIN put = DOMAIN ws \cup {w} /\ put[w] = entry
      /\ \A x \in DOMAIN ws \ {w} : put[x] = ws[x]
  <2>1. entry \in Infos
    BY <1>3
  <2>2. IsRegistry(ws)
    BY <1>1
  <2>. QED  BY <2>1, <2>2, WithIs
<1>. HIDE DEF put
<1>6. Exclusive(put)
  BY <1>1, <1>4, <1>5, WithExclusive
<1>7. AtMostOnePrimary(put)
  <2>1. entry.primary => w \in DOMAIN ws /\ ws[w].primary /\ entry.parent = NoWindow
    BY <1>3
  <2>. QED  BY <1>1, <1>5, <2>1, WithPrimary
<1>8. \A x \in DOMAIN ws : ws[x].primary => put[x].primary \/ put[x].parent # NoWindow
  <2>. SUFFICES ASSUME NEW x \in DOMAIN ws, ws[x].primary, put[x].parent = NoWindow
                PROVE  put[x].primary
    OBVIOUS
  <2>1. CASE x # w
    BY <1>5, <2>1
  <2>2. CASE x = w
    <3>1. entry.primary = ws[w].primary
      BY <1>3, <1>5, <2>2
    <3>. QED  BY <1>5, <2>2, <3>1
  <2>. QED  BY <2>1, <2>2
<1>9. CASE primary /\ put[w].parent = NoWindow
  <2>1. raised = SetPrimary(put, w)
    BY <1>9 DEF AskedPrimary
  <2>2. IsRegistry(raised) /\ SameBut(put, raised) /\ AtMostOnePrimary(raised)
    <3>1. IsRegistry(put) /\ w \in DOMAIN put /\ put[w].parent = NoWindow
      BY <1>5, <1>9
    <3>. QED  BY <2>1, <3>1, SetPrimaryKeeps
  <2>3. Exclusive(raised)
    BY <1>6, <2>2, SameClaims
  <2>4. raised[w].primary
    <3>1. put[w] \in Infos
      BY <1>3, <1>5
    <3>2. raised[w] = [put[w] EXCEPT !.primary = TRUE]
      BY <1>5, <2>1 DEF SetPrimary
    <3>. QED  BY <3>1, <3>2, Crowned
  <2>. HIDE DEF raised
  <2>5. /\ DOMAIN raised = DOMAIN ws \cup {w}
        /\ \A x \in DOMAIN ws \ {w} : raised[x].workspace = ws[x].workspace
        /\ name = Keep /\ w \in DOMAIN ws => raised[w].workspace = ws[w].workspace
    BY <1>3, <1>5, <2>2 DEF SameBut
  <2>6. \A x \in DOMAIN ws : raised[x].primary \/ (primary /\ x # w)
    BY <1>9, <2>4
  <2>. QED  BY <2>2, <2>3, <2>5, <2>6 DEF raised, put, entry, ws, Asked, KeepsOthers, RoleStays
<1>10. CASE ~(primary /\ put[w].parent = NoWindow)
  <2>1. raised = put
    BY <1>10 DEF AskedPrimary
  <2>. HIDE DEF raised
  <2>2. /\ DOMAIN raised = DOMAIN ws \cup {w}
        /\ \A x \in DOMAIN ws \ {w} : raised[x].workspace = ws[x].workspace
        /\ name = Keep /\ w \in DOMAIN ws => raised[w].workspace = ws[w].workspace
    BY <1>3, <1>5, <2>1
  <2>3. \A x \in DOMAIN ws : ws[x].primary => raised[x].primary \/ raised[x].parent # NoWindow
    BY <1>8, <2>1
  <2>. QED  BY <1>5, <1>6, <1>7, <2>1, <2>2, <2>3 DEF raised, put, entry, ws, Asked, KeepsOthers, RoleStays
<1>. QED  BY <1>9, <1>10

LEMMA RegisterSafe ==
    ASSUME RegistryInv, NEW w \in Windows, NEW name \in Names \cup {Keep}, NEW primary \in BOOLEAN,
           NEW parent \in Hosts \cup {NoWindow}, Register(w, name, primary, parent)
    PROVE  RegistryInv'
<1>. DEFINE ws    == Pruned
            raised == Asked(w, name, primary, parent)
            about == (IF name = Keep THEN {} ELSE {"claim"}) \cup (IF primary THEN {"role"} ELSE {})
<1>1. /\ IsRegistry(ws) /\ Exclusive(ws) /\ Led(ws)
      /\ now \in 0 .. MaxTime /\ about \in SUBSET Matters
  BY PrunedKeeps DEF RegistryInv, RegistryTypeOK, Matters
<1>2. By(w, about)
  BY DEF Register
<1>. HIDE DEF ws, about
<1>3. CASE Leaves(ws, Full)
  BY <1>1, <1>2, <1>3, Settles
<1>4. CASE Conflicts(ws, name, w) # {} /\ Leaves(ws, Refusal(ws, name, w))
  BY <1>1, <1>2, <1>4, Refuses DEF ws
<1>. HIDE DEF raised
<1>5. CASE Conflicts(ws, name, w) = {} /\ Leaves(EnsurePrimary(raised), Ok)
  <2>1. IsRegistry(raised) /\ Exclusive(raised) /\ AtMostOnePrimary(raised)
    BY <1>5, RegisterPuts DEF ws, raised
  <2>2. IsRegistry(EnsurePrimary(raised)) /\ Exclusive(EnsurePrimary(raised)) /\ Led(EnsurePrimary(raised))
    BY <2>1, EnsureKeeps, SameClaims
  <2>. QED  BY <1>1, <1>2, <1>5, <2>2, Settles
<1>. QED  BY <1>3, <1>4, <1>5 DEF Register, Asked, ws, raised

LEMMA HeartbeatSafe ==
    ASSUME RegistryInv, NEW w \in Windows, Heartbeat(w)
    PROVE  RegistryInv'
<1>. DEFINE ws == Pruned
            xs == [ws EXCEPT ![w].last_seen = now]
<1>1. /\ IsRegistry(ws) /\ Exclusive(ws) /\ Led(ws) /\ now \in 0 .. MaxTime
      /\ {} \in SUBSET Matters
  BY PrunedKeeps DEF RegistryInv, RegistryTypeOK
<1>2. By(w, {})
  BY DEF Heartbeat
<1>. HIDE DEF ws
<1>3. CASE Leaves(ws, Unknown)
  BY <1>1, <1>2, <1>3, Settles
<1>4. CASE w \in DOMAIN ws /\ Leaves(xs, Ok)
  <2>1. /\ DOMAIN xs = DOMAIN ws
        /\ \A x \in DOMAIN ws : /\ xs[x] \in Infos
                                /\ xs[x].workspace = ws[x].workspace
                                /\ xs[x].parent = ws[x].parent
                                /\ xs[x].primary = ws[x].primary
    BY <1>1, <1>4, WindowsAssumption DEF IsRegistry, Infos
  <2>2. xs \in [DOMAIN xs -> Infos]
    BY <2>1
  <2>. HIDE DEF xs
  <2>3. IsRegistry(xs) /\ Exclusive(xs) /\ Led(xs)
    BY <1>1, <2>1, <2>2 DEF IsRegistry, Exclusive, Led, AtMostOnePrimary, Shells
  <2>. QED  BY <1>1, <1>2, <1>4, <2>3, Settles
<1>. QED  BY <1>3, <1>4 DEF Heartbeat, ws

LEMMA ClaimSafe ==
    ASSUME RegistryInv, NEW w \in Windows, NEW name \in Names, ClaimWorkspace(w, name)
    PROVE  RegistryInv'
<1>. DEFINE ws == Pruned
            xs == [ws EXCEPT ![w].workspace = name, ![w].last_seen = now]
<1>1. /\ IsRegistry(ws) /\ Exclusive(ws) /\ Led(ws) /\ now \in 0 .. MaxTime
      /\ {"claim"} \in SUBSET Matters
  BY PrunedKeeps DEF RegistryInv, RegistryTypeOK, Matters
<1>2. By(w, {"claim"})
  BY DEF ClaimWorkspace
<1>. HIDE DEF ws
<1>3. CASE Leaves(ws, Unknown)
  BY <1>1, <1>2, <1>3, Settles
<1>4. CASE Conflicts(ws, name, w) # {} /\ Leaves(ws, Refusal(ws, name, w))
  BY <1>1, <1>2, <1>4, Refuses DEF ws
<1>5. CASE w \in DOMAIN ws /\ Conflicts(ws, name, w) = {} /\ Leaves(xs, Ok)
  <2>1. /\ DOMAIN xs = DOMAIN ws
        /\ xs[w].workspace = name
        /\ \A x \in DOMAIN ws : /\ xs[x] \in Infos
                                /\ x # w => xs[x].workspace = ws[x].workspace
                                /\ xs[x].parent = ws[x].parent
                                /\ xs[x].primary = ws[x].primary
    BY <1>1, <1>5, WindowsAssumption DEF IsRegistry, Infos
  <2>2. xs \in [DOMAIN xs -> Infos]
    BY <2>1
  <2>3. \A x \in DOMAIN ws \ {w} : name = NoWorkspace \/ ws[x].workspace # name
    BY <1>5, NobodyElse
  <2>. HIDE DEF xs
  <2>4. IsRegistry(xs) /\ Led(xs)
    BY <1>1, <2>1, <2>2 DEF IsRegistry, Led, AtMostOnePrimary, Shells
  <2>5. Exclusive(xs)
    BY <1>1, <2>1, <2>3 DEF Exclusive
  <2>. QED  BY <1>1, <1>2, <1>5, <2>4, <2>5, Settles
<1>. QED  BY <1>3, <1>4, <1>5 DEF ClaimWorkspace, ws

LEMMA ForgetSafe ==
    ASSUME RegistryInv, NEW w \in Windows, Forget(w)
    PROVE  RegistryInv'
<1>. DEFINE ids == DOMAIN Pruned \ Gone(Pruned, w)
            ws  == Only(Pruned, ids)
<1>1. IsRegistry(Pruned) /\ Exclusive(Pruned) /\ AtMostOnePrimary(Pruned)
  BY PrunedKeeps DEF Led
<1>2. IsRegistry(ws) /\ Exclusive(ws) /\ AtMostOnePrimary(ws)
  BY <1>1, OnlyKeeps
<1>3. By(w, {"leave"}) /\ Leaves(EnsurePrimary(ws), Ok)
  BY DEF Forget
<1>. HIDE DEF ws
<1>4. IsRegistry(EnsurePrimary(ws)) /\ Exclusive(EnsurePrimary(ws)) /\ Led(EnsurePrimary(ws))
  BY <1>2, EnsureKeeps, SameClaims
<1>5. now \in 0 .. MaxTime /\ {"leave"} \in SUBSET Matters
  BY DEF RegistryInv, RegistryTypeOK, Matters
<1>. QED  BY <1>3, <1>4, <1>5, Settles

-----------------------------------------------------------------------------
(* The inductive invariant. *)

LEMMA StartsSafe == RegistryInit => RegistryInv
<1>. SUFFICES ASSUME RegistryInit PROVE RegistryInv
  OBVIOUS
<1>1. DOMAIN windows = {} /\ windows \in [DOMAIN windows -> Infos]
  BY DEF RegistryInit
<1>. QED
  BY <1>1, WindowsAssumption DEF RegistryInit, RegistryInv, RegistryTypeOK, IsRegistry, OneOwner, Exclusive,
     OnePrimary, AtMostOnePrimary, Shells, BlockedByTheLiving, Status, Matters

LEMMA StepSafe ==
    ASSUME RegistryInv, [RegistryNext]_registryVars
    PROVE  RegistryInv'
<1>1. CASE Snapshot
  <2>1. /\ IsRegistry(Pruned) /\ Exclusive(Pruned) /\ Led(Pruned)
        /\ now \in 0 .. MaxTime /\ {} \in SUBSET Matters
    BY PrunedKeeps DEF RegistryInv, RegistryTypeOK
  <2>. QED  BY <1>1, <2>1, Settles DEF Snapshot
<1>2. CASE Tick
  <2>1. now' \in 0 .. MaxTime
    BY <1>2, WindowsAssumption DEF Tick, RegistryInv, RegistryTypeOK
  <2>. QED
    BY <1>2, <2>1 DEF Tick, RegistryInv, RegistryTypeOK, OneOwner, OnePrimary, BlockedByTheLiving, Status, Matters
<1>3. CASE UNCHANGED registryVars
  BY <1>3 DEF registryVars, RegistryInv, RegistryTypeOK, OneOwner, OnePrimary, BlockedByTheLiving, Fresh
<1>. QED
  BY <1>1, <1>2, <1>3, RegisterSafe, HeartbeatSafe, ClaimSafe, ForgetSafe DEF RegistryNext

\* RegistryInv holds of every registry the calls can build.
THEOREM RegistryInvariance == RegistrySpec => []RegistryInv
<1>. QED  BY StartsSafe, StepSafe, PTL DEF RegistrySpec

\* The registry's entries, clock, last call and answer keep their types.
THEOREM RegistryTypeCorrect == RegistrySpec => []RegistryTypeOK
<1>1. RegistryInv => RegistryTypeOK
  BY DEF RegistryInv
<1>. QED  BY <1>1, RegistryInvariance, PTL

\* A workspace has at most one owner (_refuse_conflict_locked).
THEOREM WorkspaceHasOneOwner == RegistrySpec => []OneOwner
<1>1. RegistryInv => OneOwner
  BY DEF RegistryInv
<1>. QED  BY <1>1, RegistryInvariance, PTL

\* While a shell is registered exactly one window is primary, and it is a shell
\* (_ensure_primary_locked).
THEOREM OneShellLeads == RegistrySpec => []OnePrimary
<1>1. RegistryInv => OnePrimary
  BY DEF RegistryInv
<1>. QED  BY <1>1, RegistryInvariance, PTL

\* A 409 names a window that still beats (_prune_locked before every claim).
THEOREM OnlyTheLivingBlock == RegistrySpec => []BlockedByTheLiving
<1>1. RegistryInv => BlockedByTheLiving
  BY DEF RegistryInv
<1>. QED  BY <1>1, RegistryInvariance, PTL

-----------------------------------------------------------------------------
(* What a step may never do. *)

\* The claims of xs are those of ws, with room for entries that came or went.
KeepsClaims(ws, xs) ==
    \A w \in DOMAIN ws : w \in DOMAIN xs /\ xs[w].workspace = ws[w].workspace

Loses(w) == w \notin DOMAIN windows' \/ windows'[w].workspace # windows[w].workspace

\* What w may lose its claim by.
Excused(w) ==
    \/ lastCall'.by = w /\ lastCall'.about \cap {"claim", "leave"} # {}
    \/ lastCall'.by = windows[w].parent /\ "leave" \in lastCall'.about

\* A beating window outlives the pruning with its claim, and what the call makes
\* of the pruned registry decides the rest.
LEMMA OutlivesPruning ==
    ASSUME RegistryInv, NEW w \in DOMAIN windows, Fresh(windows[w]), KeepsClaims(Pruned, windows')
    PROVE  ~Loses(w)
BY PrunedKeeps DEF KeepsClaims, Loses

\* register takes no claim but the caller's, and that one only by naming another.
LEMMA RegisterKeeps ==
    ASSUME RegistryInv, NEW w \in DOMAIN windows, Fresh(windows[w]), NEW v \in Windows,
           NEW name \in Names \cup {Keep}, NEW primary \in BOOLEAN,
           NEW parent \in Hosts \cup {NoWindow}, Register(v, name, primary, parent), Loses(w)
    PROVE  Excused(w)
<1>. DEFINE raised == Asked(v, name, primary, parent)
<1>1. w \in DOMAIN Pruned /\ Pruned[w].workspace = windows[w].workspace
  BY PrunedKeeps
<1>2. windows' = Pruned => ~Loses(w)
  BY <1>1 DEF Loses
<1>3. Conflicts(Pruned, name, v) = {} /\ windows' = EnsurePrimary(raised)
  BY <1>2 DEF Register, Leaves, Asked
<1>. HIDE DEF raised
<1>4. /\ IsRegistry(raised) /\ AtMostOnePrimary(raised)
      /\ KeepsOthers(Pruned, raised, v, name)
  <2>1. Conflicts(Pruned, name, v) = {}
    BY <1>3
  <2>. QED  BY <2>1, RegisterPuts DEF raised
<1>5. SameBut(raised, windows')
  BY <1>3, <1>4, EnsureKeeps
<1>6. v = w /\ name # Keep
  BY <1>1, <1>4, <1>5 DEF SameBut, KeepsOthers, Loses
<1>7. lastCall'.by = w /\ "claim" \in lastCall'.about
  BY <1>6 DEF Register, By
<1>. QED  BY <1>7 DEF Excused

\* forget takes the claims of the window that leaves and of the views in it.
LEMMA ForgetKeeps ==
    ASSUME RegistryInv, NEW w \in DOMAIN windows, Fresh(windows[w]), NEW v \in Windows,
           Forget(v), Loses(w)
    PROVE  Excused(w)
<1>. DEFINE ids == DOMAIN Pruned \ Gone(Pruned, v)
            ws  == Only(Pruned, ids)
<1>1. /\ w \in DOMAIN Pruned /\ Pruned[w].workspace = windows[w].workspace
      /\ Pruned[w].parent = windows[w].parent
      /\ IsRegistry(Pruned) /\ AtMostOnePrimary(Pruned)
  BY PrunedKeeps DEF Led
<1>2. windows' = EnsurePrimary(ws) /\ lastCall' = [by |-> v, about |-> {"leave"}]
  BY DEF Forget, Leaves, By
<1>3. /\ IsRegistry(ws) /\ AtMostOnePrimary(ws) /\ DOMAIN ws = ids
      /\ \A x \in ids : ws[x] = Pruned[x]
  BY <1>1, OnlyKeeps
<1>. HIDE DEF ws
<1>4. SameBut(ws, windows')
  BY <1>2, <1>3, EnsureKeeps
<1>5. w \notin ids
  BY <1>1, <1>3, <1>4 DEF SameBut, Loses
<1>6. w = v \/ windows[w].parent = v
  BY <1>1, <1>5 DEF Gone
<1>. QED  BY <1>2, <1>6 DEF Excused

\* A window that beats in time loses its workspace only by a call of its own or
\* with the shell it lives in: no other window's call, and no clean-up, takes it
\* (register's KEEP, claim, forget, _prune_locked).
THEOREM BeatingWindowKeeps == RegistrySpec => BeatingKeepsItsClaim
<1>1. ASSUME RegistryInv, [RegistryNext]_registryVars, NEW w \in DOMAIN windows, Fresh(windows[w]), Loses(w)
      PROVE  Excused(w)
  <2>1. CASE Snapshot
    <3>1. KeepsClaims(Pruned, windows')
      BY <2>1 DEF Snapshot, Leaves, KeepsClaims
    <3>. QED  BY <1>1, <3>1, OutlivesPruning
  <2>2. CASE Tick \/ UNCHANGED registryVars
    BY <1>1, <2>2 DEF Tick, registryVars, Loses
  <2>3. ASSUME NEW v \in Windows, Heartbeat(v)
        PROVE  Excused(w)
    <3>1. IsRegistry(Pruned)
      BY <1>1, PrunedKeeps
    <3>2. KeepsClaims(Pruned, windows')
      BY <2>3, <3>1 DEF Heartbeat, Leaves, KeepsClaims, IsRegistry, Infos
    <3>. QED  BY <1>1, <3>2, OutlivesPruning
  <2>4. ASSUME NEW v \in Windows, NEW name \in Names, ClaimWorkspace(v, name)
        PROVE  Excused(w)
    <3>1. w \in DOMAIN Pruned /\ Pruned[w].workspace = windows[w].workspace
      BY <1>1, PrunedKeeps
    <3>2. CASE v = w
      BY <2>4, <3>2 DEF ClaimWorkspace, By, Excused
    <3>3. CASE v # w
      BY <1>1, <2>4, <3>1, <3>3 DEF ClaimWorkspace, Leaves, Loses
    <3>. QED  BY <3>2, <3>3
  <2>. QED
    BY <1>1, <2>1, <2>2, <2>3, <2>4, ForgetKeeps, RegisterKeeps DEF RegistryNext
<1>2. ASSUME RegistryInv, [RegistryNext]_registryVars
      PROVE  [\A w \in DOMAIN windows :
                LET lost == w \notin DOMAIN windows' \/ windows'[w].workspace # windows[w].workspace
                IN  windows[w].workspace # NoWorkspace /\ Fresh(windows[w]) /\ lost =>
                      \/ lastCall'.by = w /\ lastCall'.about \cap {"claim", "leave"} # {}
                      \/ lastCall'.by = windows[w].parent /\ "leave" \in lastCall'.about]_registryVars
  BY <1>1, <1>2 DEF Loses, Excused
<1>. QED  BY <1>2, RegistryInvariance, PTL DEF RegistrySpec, BeatingKeepsItsClaim

\* w had the role, is still there, and has it no more.
Deposed(w) ==
    /\ w \in DOMAIN windows' /\ windows[w].primary /\ Fresh(windows[w])
    /\ ~windows'[w].primary

Yields(w) == windows'[w].parent # NoWindow \/ (lastCall'.by # w /\ "role" \in lastCall'.about)

LEMMA RegisterYields ==
    ASSUME RegistryInv, NEW w \in DOMAIN windows, Deposed(w), NEW v \in Windows,
           NEW name \in Names \cup {Keep}, NEW primary \in BOOLEAN,
           NEW parent \in Hosts \cup {NoWindow}, Register(v, name, primary, parent)
    PROVE  Yields(w)
<1>. DEFINE raised == Asked(v, name, primary, parent)
<1>1. w \in DOMAIN Pruned /\ Pruned[w].primary
  BY PrunedKeeps DEF Deposed
<1>2. windows' # Pruned
  BY <1>1 DEF Deposed
<1>3. Conflicts(Pruned, name, v) = {} /\ windows' = EnsurePrimary(raised)
  BY <1>2 DEF Register, Leaves, Asked
<1>. HIDE DEF raised
<1>4. /\ IsRegistry(raised) /\ AtMostOnePrimary(raised)
      /\ KeepsOthers(Pruned, raised, v, name) /\ RoleStays(Pruned, raised, v, primary)
  <2>1. Conflicts(Pruned, name, v) = {}
    BY <1>3
  <2>. QED  BY <2>1, RegisterPuts DEF raised
<1>5. w \in DOMAIN raised /\ (raised[w].primary \/ raised[w].parent # NoWindow \/ (primary /\ w # v))
  BY <1>1, <1>4 DEF KeepsOthers, RoleStays
<1>6. /\ windows'[w].parent = raised[w].parent
      /\ raised[w].primary => windows'[w].primary
  BY <1>3, <1>4, <1>5, EnsureKeeps DEF SameBut
<1>7. primary => lastCall'.by = v /\ "role" \in lastCall'.about
  BY DEF Register, By
<1>. QED  BY <1>5, <1>6, <1>7 DEF Deposed, Yields

LEMMA ForgetYields ==
    ASSUME RegistryInv, NEW w \in DOMAIN windows, NEW v \in Windows, Forget(v)
    PROVE  ~Deposed(w)
<1>. DEFINE ids == DOMAIN Pruned \ Gone(Pruned, v)
            ws  == Only(Pruned, ids)
<1>. SUFFICES ASSUME Deposed(w) PROVE FALSE
  OBVIOUS
<1>1. /\ w \in DOMAIN Pruned /\ Pruned[w].primary
      /\ IsRegistry(Pruned) /\ AtMostOnePrimary(Pruned)
  BY PrunedKeeps DEF Led, Deposed
<1>2. windows' = EnsurePrimary(ws)
  BY DEF Forget, Leaves
<1>3. /\ IsRegistry(ws) /\ AtMostOnePrimary(ws) /\ DOMAIN ws = ids
      /\ \A x \in ids : ws[x] = Pruned[x]
  BY <1>1, OnlyKeeps
<1>. HIDE DEF ws
<1>4. DOMAIN windows' = ids /\ \A x \in ids : ws[x].primary => windows'[x].primary
  BY <1>2, <1>3, EnsureKeeps DEF SameBut
<1>. QED  BY <1>1, <1>3, <1>4 DEF Deposed

\* The primary role moves only when its window went or became a view, or when
\* another window asked for it: no clean-up and no arrival takes it away
\* (_set_primary_locked, _ensure_primary_locked).
THEOREM PrimaryKeepsTheRole == RegistrySpec => PrimaryIsStable
<1>1. ASSUME RegistryInv, [RegistryNext]_registryVars, NEW w \in DOMAIN windows, Deposed(w)
      PROVE  Yields(w)
  <2>1. IsRegistry(Pruned) /\ w \in DOMAIN Pruned /\ Pruned[w].primary
    BY <1>1, PrunedKeeps DEF Deposed
  <2>2. CASE Snapshot \/ Tick \/ UNCHANGED registryVars
    BY <1>1, <2>1, <2>2 DEF Snapshot, Leaves, Tick, registryVars, Deposed
  <2>3. ASSUME NEW v \in Windows, Heartbeat(v) \/ \E name \in Names : ClaimWorkspace(v, name)
        PROVE  Yields(w)
    <3>1. \A x \in DOMAIN Pruned : Pruned[x] \in Infos
      BY <2>1 DEF IsRegistry
    <3>2. windows'[w].primary = Pruned[w].primary
      BY <2>1, <2>3, <3>1 DEF Heartbeat, ClaimWorkspace, Leaves, Infos
    <3>. QED  BY <1>1, <2>1, <3>2 DEF Deposed
  <2>. QED
    BY <1>1, <2>2, <2>3, ForgetYields, RegisterYields DEF RegistryNext
<1>2. ASSUME RegistryInv, [RegistryNext]_registryVars
      PROVE  [\A w \in DOMAIN windows \cap DOMAIN windows' :
                windows[w].primary /\ Fresh(windows[w]) /\ ~windows'[w].primary
                => \/ windows'[w].parent # NoWindow
                   \/ lastCall'.by # w /\ "role" \in lastCall'.about]_registryVars
  BY <1>1, <1>2 DEF Deposed, Yields
<1>. QED  BY <1>2, RegistryInvariance, PTL DEF RegistrySpec, PrimaryIsStable

-----------------------------------------------------------------------------
(* The launch queue. *)

\* A launch nobody has queued yet has no fate: what Put appends is new.
NotYetQueued == \A l \in Launches : l > queued => fate[l] = "none"

QueueInv == QueueTypeOK /\ InOnePlace /\ NotYetQueued

-----------------------------------------------------------------------------
(* The three ways the queue changes. *)

LEMMA AppendIs ==
    ASSUME NEW s \in Seq(Launches), NEW l \in Launches
    PROVE  /\ Append(s, l) \in Seq(Launches)
           /\ DOMAIN Append(s, l) = 1 .. Len(s) + 1 /\ DOMAIN s = 1 .. Len(s) /\ Len(s) \in Nat
           /\ Len(Append(s, l)) = Len(s) + 1
           /\ \A i \in 1 .. Len(s) : Append(s, l)[i] = s[i]
           /\ Append(s, l)[Len(s) + 1] = l
  OBVIOUS

LEMMA TailIs ==
    ASSUME NEW s \in Seq(Launches), s # <<>>
    PROVE  /\ Tail(s) \in Seq(Launches) /\ Head(s) \in Launches /\ Head(s) = s[1]
           /\ DOMAIN Tail(s) = 1 .. Len(s) - 1 /\ DOMAIN s = 1 .. Len(s) /\ Len(s) \in Nat \ {0}
           /\ Len(Tail(s)) = Len(s) - 1
           /\ \A i \in 1 .. Len(s) - 1 : Tail(s)[i] = s[i + 1]
  OBVIOUS

LEMMA FrontIs ==
    ASSUME NEW s \in Seq(Launches), NEW l \in Launches
    PROVE  /\ <<l>> \o s \in Seq(Launches)
           /\ DOMAIN (<<l>> \o s) = 1 .. Len(s) + 1 /\ DOMAIN s = 1 .. Len(s) /\ Len(s) \in Nat
           /\ Len(<<l>> \o s) = Len(s) + 1
           /\ (<<l>> \o s)[1] = l
           /\ \A i \in 2 .. Len(s) + 1 : (<<l>> \o s)[i] = s[i - 1]
  OBVIOUS

-----------------------------------------------------------------------------
(* Type correctness and one place for each launch, inductive together. *)

LEMMA QueueStarts == QueueInit => QueueInv
<1>. SUFFICES ASSUME QueueInit PROVE QueueInv
  OBVIOUS
<1>1. QueueTypeOK
  BY LaunchAssumption DEF QueueInit, QueueTypeOK, Launches, Fates
<1>2. InOnePlace
  BY LaunchAssumption DEF QueueInit, InOnePlace, Launches
<1>. QED  BY <1>1, <1>2 DEF QueueInit, QueueInv, NotYetQueued

LEMMA PutKeeps == ASSUME QueueInv, Put PROVE QueueInv'
<1>. DEFINE l == queued + 1
<1>0. /\ l \in Launches /\ l \notin {queued} /\ queued \in Nat
      /\ items \in Seq(Launches) /\ fate[l] = "none" /\ queued' = l
  BY LaunchAssumption DEF QueueInv, QueueTypeOK, Put, Launches, NotYetQueued
<1>1. /\ \A i \in DOMAIN items : items[i] # l
      /\ \A p \in Polls : held[p] # l
  BY <1>0 DEF QueueInv, InOnePlace
<1>2. items' \in Seq(Launches) /\ fate' \in [Launches -> Fates]
  <2>1. CASE Len(items) >= MaxItems
    <3>1. items # <<>>
      BY <2>1, LaunchAssumption
    <3>2. Tail(items) \in Seq(Launches) /\ Head(items) \in Launches
      BY <1>0, <3>1, TailIs
    <3>3. Append(Tail(items), l) \in Seq(Launches)
      BY <1>0, <3>2, AppendIs
    <3>. QED  BY <2>1, <1>0, <3>2, <3>3 DEF Put, QueueInv, QueueTypeOK, Fates
  <2>2. CASE ~(Len(items) >= MaxItems)
    <3>1. Append(items, l) \in Seq(Launches)
      BY <1>0, AppendIs
    <3>. QED  BY <2>2, <1>0, <3>1 DEF Put, QueueInv, QueueTypeOK, Fates
  <2>. QED  BY <2>1, <2>2
<1>3. QueueTypeOK'
  <2>1. woken' \in [Polls -> BOOLEAN]
    BY DEF Put, Wake
  <2>2. queued' \in 0 .. MaxLaunches
    BY <1>0 DEF Launches
  <2>3. UNCHANGED <<pc, held, gone, seen, polling, leaves>>
    BY DEF Put
  <2>. QED  BY <1>2, <2>1, <2>2, <2>3 DEF QueueInv, QueueTypeOK
<1>4. InOnePlace'
  <2>1. CASE Len(items) >= MaxItems
    <3>. DEFINE t == Tail(items)
    <3>1. items # <<>>
      BY <2>1, LaunchAssumption
    <3>2. /\ t \in Seq(Launches) /\ Head(items) \in Launches /\ Head(items) = items[1]
          /\ DOMAIN items = 1 .. Len(items) /\ Len(items) \in Nat \ {0}
          /\ Len(t) = Len(items) - 1
          /\ \A i \in 1 .. Len(items) - 1 : t[i] = items[i + 1]
      BY <1>0, <3>1, TailIs
    <3>3. /\ items' = Append(t, l) /\ held' = held
          /\ fate' = [fate EXCEPT ![Head(items)] = "dropped", ![l] = "waiting"]
      BY <2>1 DEF Put
    <3>4. /\ DOMAIN items' = 1 .. Len(items)
          /\ items'[Len(items)] = l
          /\ \A i \in 1 .. Len(items) - 1 : items'[i] = items[i + 1]
      <4>. HIDE DEF l, t
      <4>1. /\ DOMAIN Append(t, l) = 1 .. Len(t) + 1
            /\ \A i \in 1 .. Len(t) : Append(t, l)[i] = t[i]
            /\ Append(t, l)[Len(t) + 1] = l
        BY <1>0, <3>2, AppendIs
      <4>2. Len(t) + 1 = Len(items) /\ 1 .. Len(t) = 1 .. Len(items) - 1
        BY <3>2
      <4>. QED  BY <4>1, <4>2, <3>2, <3>3
    <3>4a. \A i \in DOMAIN items' :
             i = Len(items) \/ (i \in 1 .. Len(items) - 1 /\ i + 1 \in 2 .. Len(items)
                               /\ i + 1 \in DOMAIN items /\ items'[i] = items[i + 1])
      BY <3>2, <3>4
    <3>5. Head(items) # l /\ \A p \in Polls : held[p] # Head(items)
      BY <3>2, <1>1 DEF QueueInv, InOnePlace
    <3>6. \A i \in 2 .. Len(items) : items[i] # Head(items)
      BY <3>2 DEF QueueInv, InOnePlace
    <3>7. fate \in [Launches -> Fates]
      BY DEF QueueInv, QueueTypeOK
    <3>8. ASSUME NEW k \in Launches
          PROVE  fate'[k] = "waiting" <=>
                   (\E i \in DOMAIN items' : items'[i] = k) \/ \E p \in Polls : held'[p] = k
      <4>. HIDE DEF l, t
      <4>1. CASE k = l
        <5>1. fate'[k] = "waiting"
          BY <4>1, <3>3, <3>7, <1>0
        <5>2. Len(items) \in DOMAIN items' /\ items'[Len(items)] = k
          BY <4>1, <3>2, <3>4
        <5>. QED  BY <5>1, <5>2
      <4>2. CASE k = Head(items)
        <5>1. fate'[k] = "dropped"
          BY <4>2, <3>2, <3>3, <3>5, <3>7
        <5>2. \A i \in DOMAIN items' : items'[i] # k
          BY <4>2, <3>4, <3>4a, <3>5, <3>6
        <5>. QED  BY <4>2, <5>1, <5>2, <3>3, <3>5
      <4>3. CASE k # l /\ k # Head(items)
        <5>1. fate'[k] = fate[k]
          BY <4>3, <3>3, <3>7
        <5>2. (\E i \in DOMAIN items' : items'[i] = k) <=> (\E i \in DOMAIN items : items[i] = k)
          <6>1. ASSUME NEW i \in DOMAIN items', items'[i] = k PROVE \E j \in DOMAIN items : items[j] = k
            <7>1. i \in 1 .. Len(items) - 1
              BY <6>1, <4>3, <3>4, <3>2
            <7>. QED  BY <7>1, <6>1, <3>4, <3>2
          <6>2. ASSUME NEW i \in DOMAIN items, items[i] = k PROVE \E j \in DOMAIN items' : items'[j] = k
            <7>1. i \in 2 .. Len(items)
              BY <6>2, <4>3, <3>2
            <7>2. i - 1 \in 1 .. Len(items) - 1 /\ (i - 1) + 1 = i
              BY <7>1, <3>2
            <7>3. items'[i - 1] = k /\ i - 1 \in DOMAIN items'
              BY <7>2, <6>2, <3>4, <3>2
            <7>. QED  BY <7>3
          <6>. QED  BY <6>1, <6>2
        <5>. QED  BY <5>1, <5>2, <3>3 DEF QueueInv, InOnePlace
      <4>. QED  BY <4>1, <4>2, <4>3
    <3>9. \A i, j \in DOMAIN items' : items'[i] = items'[j] => i = j
      <4>. TAKE i, j \in DOMAIN items'
      <4>1. i \in Int /\ j \in Int
        BY <3>2, <3>4
      <4>. HIDE DEF l, t
      <4>2. items'[i] = l => i = Len(items)
        BY <3>4a, <1>1
      <4>3. items'[j] = l => j = Len(items)
        BY <3>4a, <1>1
      <4>. QED  BY <3>4, <3>4a, <4>1, <4>2, <4>3 DEF QueueInv, InOnePlace
    <3>10. \A i \in DOMAIN items', p \in Polls : items'[i] # held'[p]
      <4>. HIDE DEF l, t
      <4>. QED  BY <3>3, <3>4, <3>4a, <1>1 DEF QueueInv, InOnePlace
    <3>. QED  BY <3>3, <3>8, <3>9, <3>10 DEF QueueInv, InOnePlace
  <2>2. CASE ~(Len(items) >= MaxItems)
    <3>1. /\ items' = Append(items, l) /\ held' = held
          /\ fate' = [fate EXCEPT ![l] = "waiting"]
      BY <2>2 DEF Put
    <3>2. /\ DOMAIN items' = 1 .. Len(items) + 1 /\ DOMAIN items = 1 .. Len(items)
          /\ Len(items) \in Nat /\ items'[Len(items) + 1] = l
          /\ \A i \in 1 .. Len(items) : items'[i] = items[i]
      <4>. HIDE DEF l
      <4>. QED  BY <1>0, <3>1, AppendIs
    <3>3. fate \in [Launches -> Fates]
      BY DEF QueueInv, QueueTypeOK
    <3>4. ASSUME NEW k \in Launches
          PROVE  fate'[k] = "waiting" <=>
                   (\E i \in DOMAIN items' : items'[i] = k) \/ \E p \in Polls : held'[p] = k
      <4>. HIDE DEF l
      <4>1. CASE k = l
        BY <4>1, <3>1, <3>2, <3>3
      <4>2. CASE k # l
        BY <4>2, <3>1, <3>2, <3>3 DEF QueueInv, InOnePlace
      <4>. QED  BY <4>1, <4>2
    <3>5. /\ \A i, j \in DOMAIN items' : items'[i] = items'[j] => i = j
          /\ \A i \in DOMAIN items', p \in Polls : items'[i] # held'[p]
      <4>. HIDE DEF l
      <4>. QED  BY <3>1, <3>2, <1>1 DEF QueueInv, InOnePlace
    <3>. QED  BY <3>1, <3>4, <3>5 DEF QueueInv, InOnePlace
  <2>. QED  BY <2>1, <2>2
<1>5. NotYetQueued'
  <2>2. \A i \in DOMAIN items : items[i] \in Launches /\ fate[items[i]] = "waiting"
    BY <1>0 DEF QueueInv, InOnePlace
  <2>3. Len(items) >= MaxItems => fate[Head(items)] = "waiting"
    <3>. SUFFICES ASSUME Len(items) >= MaxItems PROVE fate[Head(items)] = "waiting"
      OBVIOUS
    <3>1. items # <<>>
      BY LaunchAssumption
    <3>2. Head(items) = items[1] /\ 1 \in DOMAIN items
      BY <1>0, <3>1, TailIs
    <3>. QED  BY <2>2, <3>2
  <2>4. ASSUME NEW k \in Launches, k > l PROVE fate'[k] = "none"
    <3>1. fate[k] = "none"
      BY <2>4, <1>0 DEF QueueInv, NotYetQueued, Launches
    <3>2. fate'[k] = fate[k]
      <4>1. k # l /\ fate \in [Launches -> Fates]
        BY <2>4, <1>0 DEF QueueInv, QueueTypeOK, Launches
      <4>2. CASE Len(items) >= MaxItems
        <5>1. k # Head(items)
          BY <4>2, <3>1, <2>3
        <5>2. fate' = [fate EXCEPT ![Head(items)] = "dropped", ![l] = "waiting"]
          BY <4>2 DEF Put
        <5>. HIDE DEF l
        <5>. QED  BY <5>1, <5>2, <4>1
      <4>3. CASE ~(Len(items) >= MaxItems)
        <5>1. fate' = [fate EXCEPT ![l] = "waiting"]
          BY <4>3 DEF Put
        <5>. HIDE DEF l
        <5>. QED  BY <5>1, <4>1
      <4>. QED  BY <4>2, <4>3
    <3>. QED  BY <3>1, <3>2
  <2>. QED  BY <2>4, <1>0 DEF NotYetQueued
<1>. QED  BY <1>3, <1>4, <1>5 DEF QueueInv

LEMMA LookKeeps ==
    ASSUME QueueInv, NEW p \in Polls, NEW expired \in BOOLEAN, Look(p, expired)
    PROVE  QueueInv'
<1>0. /\ items \in Seq(Launches) /\ fate \in [Launches -> Fates] /\ held[p] = NoLaunch
      /\ held \in [Polls -> Launches \cup {NoLaunch}] /\ pc[p] = "looks"
  BY DEF QueueInv, QueueTypeOK, Look
<1>1. CASE items # <<>>
  <2>1. /\ Tail(items) \in Seq(Launches) /\ Head(items) \in Launches /\ Head(items) = items[1]
        /\ DOMAIN Tail(items) = 1 .. Len(items) - 1 /\ DOMAIN items = 1 .. Len(items)
        /\ Len(items) \in Nat \ {0}
        /\ \A i \in 1 .. Len(items) - 1 : Tail(items)[i] = items[i + 1]
    BY <1>0, <1>1, TailIs
  <2>2. /\ held' = [held EXCEPT ![p] = Head(items)] /\ items' = Tail(items)
        /\ pc' = [pc EXCEPT ![p] = "holds"] /\ fate' = fate
        /\ woken' = [woken EXCEPT ![p] = FALSE]
        /\ UNCHANGED <<gone, seen, polling, queued, leaves>>
    BY <1>1 DEF Look
  <2>3. Head(items) # NoLaunch
    BY <2>1, LaunchAssumption DEF Launches
  <2>4. QueueTypeOK'
    <3>1. items' \in Seq(Launches) /\ held' \in [Polls -> Launches \cup {NoLaunch}]
      BY <1>0, <2>1, <2>2
    <3>. QED  BY <3>1, <2>2, <2>3, <1>0 DEF QueueInv, QueueTypeOK
  <2>5. \A q \in Polls : held'[q] = IF q = p THEN Head(items) ELSE held[q]
    BY <2>2, <1>0
  <2>6. ASSUME NEW k \in Launches
        PROVE  fate'[k] = "waiting" <=>
                 (\E i \in DOMAIN items' : items'[i] = k) \/ \E q \in Polls : held'[q] = k
    <3>1. (\E q \in Polls : held'[q] = k) <=> k = Head(items) \/ \E q \in Polls : held[q] = k
      BY <2>5, <1>0, LaunchAssumption DEF Launches
    <3>2. (\E i \in DOMAIN items : items[i] = k)
             <=> k = Head(items) \/ \E i \in DOMAIN items' : items'[i] = k
      <4>1. ASSUME NEW i \in DOMAIN items, items[i] = k, k # Head(items)
            PROVE  \E j \in DOMAIN items' : items'[j] = k
        <5>1. i - 1 \in 1 .. Len(items) - 1 /\ (i - 1) + 1 = i
          BY <4>1, <2>1
        <5>. QED  BY <5>1, <4>1, <2>1, <2>2
      <4>2. ASSUME NEW i \in DOMAIN items', items'[i] = k PROVE \E j \in DOMAIN items : items[j] = k
        <5>1. i + 1 \in DOMAIN items /\ items[i + 1] = k
          BY <4>2, <2>1, <2>2
        <5>. QED  BY <5>1
      <4>3. 1 \in DOMAIN items
        BY <2>1
      <4>. QED  BY <4>1, <4>2, <4>3, <2>1
    <3>. QED  BY <3>1, <3>2, <2>2 DEF QueueInv, InOnePlace
  <2>7. \A i, j \in DOMAIN items' : items'[i] = items'[j] => i = j
    <3>. TAKE i, j \in DOMAIN items'
    <3>1. /\ i + 1 \in DOMAIN items /\ j + 1 \in DOMAIN items /\ i \in Int /\ j \in Int
          /\ items'[i] = items[i + 1] /\ items'[j] = items[j + 1]
      BY <2>1, <2>2
    <3>2. items[i + 1] = items[j + 1] => i + 1 = j + 1
      BY <3>1 DEF QueueInv, InOnePlace
    <3>3. i + 1 = j + 1 => i = j
      BY <3>1
    <3>. QED  BY <3>1, <3>2, <3>3
  <2>8. \A i \in DOMAIN items', q \in Polls : items'[i] # held'[q]
    <3>. TAKE i \in DOMAIN items', q \in Polls
    <3>1. /\ i + 1 \in DOMAIN items /\ 1 \in DOMAIN items /\ i + 1 # 1
          /\ items'[i] = items[i + 1]
      BY <2>1, <2>2
    <3>. QED  BY <3>1, <2>1, <2>5 DEF QueueInv, InOnePlace
  <2>9. \A q, r \in Polls : held'[q] = held'[r] /\ held'[q] # NoLaunch => q = r
    <3>1. \A q \in Polls : held[q] # Head(items)
      BY <2>1 DEF QueueInv, InOnePlace
    <3>. QED  BY <3>1, <2>5 DEF QueueInv, InOnePlace
  <2>10. NotYetQueued'
    BY <2>2 DEF QueueInv, NotYetQueued
  <2>. QED  BY <2>4, <2>6, <2>7, <2>8, <2>9, <2>10 DEF QueueInv, InOnePlace
<1>2. CASE items = <<>>
  <2>1. /\ items' = items /\ held' = held /\ fate' = fate /\ queued' = queued
        /\ pc' = [pc EXCEPT ![p] = IF expired THEN "answers" ELSE "asks"]
        /\ woken' = [woken EXCEPT ![p] = FALSE]
        /\ UNCHANGED <<gone, seen, polling, leaves>>
    BY <1>2 DEF Look
  <2>2. QueueTypeOK'
    BY <2>1, <1>0 DEF QueueInv, QueueTypeOK
  <2>. QED  BY <2>1, <2>2 DEF QueueInv, InOnePlace, NotYetQueued
<1>. QED  BY <1>1, <1>2

LEMMA PutBackKeeps ==
    ASSUME QueueInv, NEW p \in Polls, PutBack(p)
    PROVE  QueueInv'
<1>. DEFINE l == held[p]
<1>0. /\ items \in Seq(Launches) /\ fate \in [Launches -> Fates]
      /\ held \in [Polls -> Launches \cup {NoLaunch}] /\ pc[p] = "holds"
      /\ l \in Launches /\ l # NoLaunch /\ fate[l] = "waiting"
  BY DEF QueueInv, QueueTypeOK, PutBack, InOnePlace
<1>1. /\ items' = <<l>> \o items /\ held' = [held EXCEPT ![p] = NoLaunch] /\ fate' = fate
      /\ pc' = [pc EXCEPT ![p] = "answers"] /\ woken' \in [Polls -> BOOLEAN]
      /\ UNCHANGED <<gone, seen, polling, queued, leaves>>
  BY DEF PutBack, Requeue, Wake
<1>2. /\ items' \in Seq(Launches)
      /\ DOMAIN items' = 1 .. Len(items) + 1 /\ DOMAIN items = 1 .. Len(items) /\ Len(items) \in Nat
      /\ items'[1] = l
      /\ \A i \in 2 .. Len(items) + 1 : items'[i] = items[i - 1]
  <2>. HIDE DEF l
  <2>. QED  BY <1>0, <1>1, FrontIs
<1>3. \A q \in Polls : held'[q] = IF q = p THEN NoLaunch ELSE held[q]
  BY <1>1, <1>0
<1>4. /\ \A i \in DOMAIN items : items[i] # l
      /\ \A q \in Polls : q # p => held[q] # l
  BY <1>0 DEF QueueInv, InOnePlace
<1>5. QueueTypeOK'
  BY <1>0, <1>1, <1>2, <1>3 DEF QueueInv, QueueTypeOK
<1>6. ASSUME NEW k \in Launches
      PROVE  fate'[k] = "waiting" <=>
               (\E i \in DOMAIN items' : items'[i] = k) \/ \E q \in Polls : held'[q] = k
  <2>0. k # NoLaunch
    BY LaunchAssumption DEF Launches
  <2>1. (\E i \in DOMAIN items' : items'[i] = k) <=> k = l \/ \E i \in DOMAIN items : items[i] = k
    <3>1. ASSUME NEW i \in DOMAIN items, items[i] = k PROVE \E j \in DOMAIN items' : items'[j] = k
      <4>1. i + 1 \in 2 .. Len(items) + 1 /\ (i + 1) - 1 = i
        BY <1>2
      <4>. QED  BY <4>1, <3>1, <1>2
    <3>2. ASSUME NEW i \in DOMAIN items', items'[i] = k, k # l
          PROVE  \E j \in DOMAIN items : items[j] = k
      <4>. HIDE DEF l
      <4>1. i \in 2 .. Len(items) + 1
        BY <3>2, <1>2
      <4>2. i - 1 \in DOMAIN items /\ items[i - 1] = k
        BY <4>1, <3>2, <1>2
      <4>. QED  BY <4>2
    <3>3. 1 \in DOMAIN items'
      BY <1>2
    <3>. QED  BY <3>1, <3>2, <3>3, <1>2
  <2>2. (\E q \in Polls : held[q] = k) <=> k = l \/ \E q \in Polls : held'[q] = k
    BY <1>3, <2>0
  <2>. QED  BY <2>1, <2>2, <1>1 DEF QueueInv, InOnePlace
<1>7. \A i, j \in DOMAIN items' : items'[i] = items'[j] => i = j
  <2>. TAKE i, j \in DOMAIN items'
  <2>1. ASSUME NEW h \in DOMAIN items' PROVE h = 1 \/ (h - 1 \in DOMAIN items /\ items'[h] = items[h - 1])
    BY <1>2
  <2>2. i \in Int /\ j \in Int
    BY <1>2
  <2>3. (i = 1 \/ (i - 1 \in DOMAIN items /\ items'[i] = items[i - 1]))
        /\ (j = 1 \/ (j - 1 \in DOMAIN items /\ items'[j] = items[j - 1]))
    BY <2>1
  <2>. HIDE DEF l
  <2>4. CASE i = 1 \/ j = 1
    BY <2>4, <2>3, <1>2, <1>4
  <2>5. CASE i # 1 /\ j # 1
    BY <2>5, <2>2, <2>3 DEF QueueInv, InOnePlace
  <2>. QED  BY <2>4, <2>5
<1>8. \A i \in DOMAIN items', q \in Polls : items'[i] # held'[q]
  <2>. TAKE i \in DOMAIN items', q \in Polls
  <2>1. i = 1 \/ (i - 1 \in DOMAIN items /\ items'[i] = items[i - 1])
    BY <1>2
  <2>2. items'[i] # NoLaunch
    BY <1>2, LaunchAssumption DEF Launches
  <2>. HIDE DEF l
  <2>. QED  BY <2>1, <2>2, <1>2, <1>3, <1>4 DEF QueueInv, InOnePlace
<1>9. \A q, r \in Polls : held'[q] = held'[r] /\ held'[q] # NoLaunch => q = r
  BY <1>3 DEF QueueInv, InOnePlace
<1>10. NotYetQueued'
  BY <1>1 DEF QueueInv, NotYetQueued
<1>. QED  BY <1>5, <1>6, <1>7, <1>8, <1>9, <1>10 DEF QueueInv, InOnePlace

\* A poll that ends gives its launch its fate, and nobody else holds it.
LEMMA AnsweredKeeps ==
    ASSUME QueueInv, NEW p \in Polls, pc[p] = "answers", Answered(p),
           polling' \in [Pages -> Polls \cup {NoPoll}]
    PROVE  QueueInv'
<1>1. QueueTypeOK'
  BY DEF QueueInv, QueueTypeOK, Answered, queue, Fates
<1>2. \A q \in Polls : held'[q] = IF q = p THEN NoLaunch ELSE held[q]
  BY DEF QueueInv, QueueTypeOK, Answered
<1>3. items' = items
  BY DEF Answered, queue
<1>4. ASSUME NEW k \in Launches
      PROVE  fate'[k] = "waiting" <=>
               (\E i \in DOMAIN items' : items'[i] = k) \/ \E q \in Polls : held'[q] = k
  <2>0. k # NoLaunch
    BY LaunchAssumption DEF Launches
  <2>1. fate'[k] = IF k # held[p] THEN fate[k] ELSE IF gone[p] THEN "lost" ELSE "opened"
    BY DEF Answered
  <2>2. CASE k = held[p]
    BY <2>0, <2>1, <2>2, <1>2, <1>3 DEF QueueInv, InOnePlace
  <2>3. CASE k # held[p]
    BY <2>0, <2>1, <2>3, <1>2, <1>3 DEF QueueInv, InOnePlace
  <2>. QED  BY <2>2, <2>3
<1>5. InOnePlace'
  <2>1. \A i \in DOMAIN items : items[i] # NoLaunch
    BY LaunchAssumption DEF QueueInv, QueueTypeOK, Launches
  <2>. QED  BY <2>1, <1>2, <1>3, <1>4 DEF QueueInv, InOnePlace
<1>6. NotYetQueued'
  <2>1. ASSUME NEW k \in Launches, k > queued PROVE fate'[k] = "none"
    <3>1. fate[k] = "none" /\ k # held[p]
      BY <2>1 DEF QueueInv, InOnePlace, NotYetQueued
    <3>. QED  BY <3>1 DEF Answered
  <2>. QED  BY <2>1 DEF NotYetQueued, Answered
<1>. QED  BY <1>1, <1>5, <1>6 DEF QueueInv

\* The rest leaves the queue and what the polls hold alone.
LEMMA OthersKeep ==
    ASSUME QueueInv, NEW p \in Polls,
           \/ HandOver(p) \/ GoesToWait(p) \/ WakesUp(p) \/ Notice(p)
           \/ \E w \in Pages : StartPoll(w, p) \/ Leave(w, p)
    PROVE  QueueInv'
<1>1. items' = items /\ held' = held /\ fate' = fate /\ queued' = queued
  BY DEF HandOver, GoesToWait, WakesUp, Notice, StartPoll, Leave, queue
<1>2. QueueTypeOK'
  <2>1. CASE HandOver(p)
    BY <2>1 DEF HandOver, QueueInv, QueueTypeOK, queue
  <2>2. CASE GoesToWait(p)
    BY <2>2 DEF GoesToWait, QueueInv, QueueTypeOK
  <2>3. CASE WakesUp(p)
    BY <2>3 DEF WakesUp, QueueInv, QueueTypeOK, queue
  <2>4. CASE Notice(p)
    BY <2>4 DEF Notice, QueueInv, QueueTypeOK, queue
  <2>5. ASSUME NEW w \in Pages, StartPoll(w, p) PROVE QueueTypeOK'
    BY <2>5 DEF StartPoll, QueueInv, QueueTypeOK, queue
  <2>6. ASSUME NEW w \in Pages, Leave(w, p) PROVE QueueTypeOK'
    BY <2>6, LaunchAssumption DEF Leave, QueueInv, QueueTypeOK, queue
  <2>. QED  BY <2>1, <2>2, <2>3, <2>4, <2>5, <2>6
<1>. QED  BY <1>1, <1>2 DEF QueueInv, InOnePlace, NotYetQueued

LEMMA StepKeeps == ASSUME QueueInv, [QueueNext]_queueVars PROVE QueueInv'
<1>1. CASE Put
  BY <1>1, PutKeeps
<1>2. ASSUME NEW p \in Polls, Serve(p) PROVE QueueInv'
  <2>1. ASSUME NEW expired \in BOOLEAN, Look(p, expired) PROVE QueueInv'
    BY <2>1, LookKeeps
  <2>2. CASE PutBack(p)
    BY <2>2, PutBackKeeps
  <2>3. CASE IntoTheVoid(p)
    BY <2>3, AnsweredKeeps DEF IntoTheVoid, QueueInv, QueueTypeOK
  <2>. QED  BY <1>2, <2>1, <2>2, <2>3, OthersKeep DEF Serve
<1>3. ASSUME NEW w \in Pages, NEW p \in Polls, Claimed(w, p) PROVE QueueInv'
  <2>1. polling' \in [Pages -> Polls \cup {NoPoll}]
    BY <1>3 DEF Claimed, QueueInv, QueueTypeOK
  <2>. QED  BY <1>3, <2>1, AnsweredKeeps DEF Claimed
<1>4. ASSUME NEW w \in Pages, NEW p \in Polls, StartPoll(w, p) \/ Leave(w, p) PROVE QueueInv'
  BY <1>4, OthersKeep
<1>5. CASE UNCHANGED queueVars
  BY <1>5 DEF queueVars, QueueInv, QueueTypeOK, InOnePlace, NotYetQueued
<1>. QED  BY <1>1, <1>2, <1>3, <1>4, <1>5 DEF QueueNext

THEOREM QueueInvariance == QueueSpec => []QueueInv
<1>1. QueueInit => QueueInv
  BY QueueStarts
<1>2. QueueInv /\ [QueueNext]_queueVars => QueueInv'
  BY StepKeeps
<1>. QED  BY <1>1, <1>2, PTL DEF QueueSpec

\* The queue, the polls and the windows keep their types.
THEOREM QueueTypeCorrect == QueueSpec => []QueueTypeOK
<1>1. QueueInv => QueueTypeOK
  BY DEF QueueInv
<1>. QED  BY <1>1, QueueInvariance, PTL

\* A launch that waits is in one place, whatever polls pop it and put it back.
THEOREM OneAtATime == QueueSpec => []InOnePlace
<1>1. QueueInv => InOnePlace
  BY DEF QueueInv
<1>. QED  BY <1>1, QueueInvariance, PTL

-----------------------------------------------------------------------------
(* No poll sleeps beside a launch. *)

\* The look that finds the queue empty arms the event; from then on whatever
\* makes the queue longer sets it (next_launch, _wake).
THEOREM NoPollOversleeps == QueueSpec => []NoneSleepsOnALaunch
<1>1. QueueInit => NoneSleepsOnALaunch
  BY DEF QueueInit, NoneSleepsOnALaunch
<1>2. ASSUME QueueInv, NoneSleepsOnALaunch, [QueueNext]_queueVars PROVE NoneSleepsOnALaunch'
  <2>. USE DEF NoneSleepsOnALaunch
  <2>0. items \in Seq(Launches) /\ pc \in [Polls -> {"free", "looks", "holds", "asks", "waits", "answers"}]
        /\ woken \in [Polls -> BOOLEAN]
    BY <1>2 DEF QueueInv, QueueTypeOK
  <2>1. CASE Put
    BY <2>0, <2>1 DEF Put, Wake
  <2>2. ASSUME NEW p \in Polls, NEW expired \in BOOLEAN, Look(p, expired)
        PROVE  NoneSleepsOnALaunch'
    <3>1. CASE items = <<>>
      BY <1>2, <2>0, <2>2, <3>1 DEF Look
    <3>2. CASE items # <<>>
      <4>1. \A q \in Polls : ~(pc[q] \in {"asks", "waits"} /\ ~woken[q])
        BY <1>2, <3>2
      <4>2. /\ pc' = [pc EXCEPT ![p] = "holds"] /\ woken' = [woken EXCEPT ![p] = FALSE]
        BY <2>2, <3>2 DEF Look
      <4>. QED  BY <4>1, <4>2, <2>0
    <3>. QED  BY <3>1, <3>2
  <2>3. ASSUME NEW p \in Polls, PutBack(p) PROVE NoneSleepsOnALaunch'
    BY <2>0, <2>3 DEF PutBack, Requeue, Wake
  <2>4. ASSUME NEW p \in Polls, HandOver(p) \/ WakesUp(p) \/ Notice(p) PROVE NoneSleepsOnALaunch'
    BY <1>2, <2>0, <2>4 DEF HandOver, WakesUp, Notice, queue
  <2>5. ASSUME NEW p \in Polls, GoesToWait(p) PROVE NoneSleepsOnALaunch'
    BY <1>2, <2>0, <2>5 DEF GoesToWait
  <2>6. ASSUME NEW p \in Polls, Answered(p) PROVE NoneSleepsOnALaunch'
    BY <1>2, <2>0, <2>6 DEF Answered, queue
  <2>7. ASSUME NEW w \in Pages, NEW p \in Polls, StartPoll(w, p) \/ Leave(w, p)
        PROVE  NoneSleepsOnALaunch'
    BY <1>2, <2>0, <2>7 DEF StartPoll, Leave, queue
  <2>8. CASE UNCHANGED queueVars
    BY <1>2, <2>8 DEF queueVars
  <2>. QED
    BY <1>2, <2>1, <2>2, <2>3, <2>4, <2>5, <2>6, <2>7, <2>8
    DEF QueueNext, Serve, IntoTheVoid, Claimed
<1>. QED  BY <1>1, <1>2, QueueInvariance, PTL DEF QueueSpec

-----------------------------------------------------------------------------
(* What is kept is bounded. *)

\* A poll that pops turns a queued launch into a held one, a put-back the other
\* way round; only Put makes the sum larger, and only below the limit.
THEOREM KeptWithinLimit == QueueSpec => []KeptIsBounded
<1>. DEFINE n == Cardinality(Polls)
            k == Cardinality(Holding)
<1>0. n \in Nat
  BY LaunchAssumption, FS_CardinalityType
<1>1. QueueInit => KeptIsBounded
  <2>. SUFFICES ASSUME QueueInit PROVE KeptIsBounded
    OBVIOUS
  <2>1. Holding = {} /\ Len(items) = 0
    BY DEF QueueInit, Holding
  <2>2. Cardinality(Holding) = 0
    BY <2>1, FS_EmptySet
  <2>. QED  BY <1>0, <2>1, <2>2, LaunchAssumption DEF KeptIsBounded
<1>2. ASSUME QueueTypeOK, QueueTypeOK', KeptIsBounded, [QueueNext]_queueVars PROVE KeptIsBounded'
  <2>0. /\ items \in Seq(Launches) /\ Len(items) \in Nat /\ Len(items') \in Nat
        /\ held \in [Polls -> Launches \cup {NoLaunch}]
        /\ pc \in [Polls -> {"free", "looks", "holds", "asks", "waits", "answers"}]
        /\ \A p \in Polls : pc[p] = "holds" => held[p] # NoLaunch
        /\ MaxItems \in Nat
    BY <1>2, LaunchAssumption DEF QueueTypeOK
  <2>1. /\ IsFiniteSet(Holding) /\ k \in Nat /\ k <= n
        /\ IsFiniteSet(Holding') /\ k' \in Nat /\ k' <= n
    <3>1. Holding \subseteq Polls /\ Holding' \subseteq Polls
      BY DEF Holding
    <3>. QED  BY <3>1, LaunchAssumption, FS_Subset, FS_CardinalityType
  <2>2. Len(items) + k <= MaxItems + n
    BY <1>2 DEF KeptIsBounded
  <2>3. CASE Put
    <3>1. Holding' = Holding
      BY <2>3 DEF Put, Holding
    <3>2. CASE Len(items) >= MaxItems
      <4>1. items # <<>>
        BY <3>2, LaunchAssumption
      <4>2. Tail(items) \in Seq(Launches) /\ Len(Tail(items)) = Len(items) - 1
        BY <2>0, <4>1, TailIs
      <4>3. items' = Append(Tail(items), queued') /\ queued' \in Launches
        BY <2>3, <3>2, <1>2, LaunchAssumption DEF Put, QueueTypeOK, Launches
      <4>4. Len(items') = Len(items)
        BY <2>0, <4>2, <4>3, AppendIs
      <4>. QED  BY <2>2, <3>1, <4>4 DEF KeptIsBounded
    <3>3. CASE ~(Len(items) >= MaxItems)
      <4>1. items' = Append(items, queued') /\ queued' \in Launches
        BY <2>3, <3>3, <1>2, LaunchAssumption DEF Put, QueueTypeOK, Launches
      <4>2. Len(items') = Len(items) + 1
        BY <2>0, <4>1, AppendIs
      <4>. QED  BY <1>0, <2>0, <2>1, <3>1, <3>3, <4>2 DEF KeptIsBounded
    <3>. QED  BY <3>2, <3>3
  <2>4. ASSUME NEW p \in Polls, NEW expired \in BOOLEAN, Look(p, expired)
        PROVE  KeptIsBounded'
    <3>1. CASE items # <<>>
      <4>1. Holding' = Holding \cup {p} /\ p \notin Holding
        <5>1. Head(items) # NoLaunch
          BY <2>0, <3>1, TailIs, LaunchAssumption DEF Launches
        <5>. QED  BY <2>0, <2>4, <3>1, <5>1 DEF Look, Holding
      <4>2. k' = k + 1
        BY <4>1, <2>1, FS_AddElement
      <4>3. items' = Tail(items) /\ Len(items') = Len(items) - 1
        BY <2>0, <2>4, <3>1, TailIs DEF Look
      <4>. QED  BY <1>0, <2>0, <2>1, <2>2, <4>2, <4>3 DEF KeptIsBounded
    <3>2. CASE items = <<>>
      <4>1. Holding' = Holding /\ items' = items
        BY <2>0, <2>4, <3>2 DEF Look, Holding
      <4>. QED  BY <2>2, <4>1 DEF KeptIsBounded
    <3>. QED  BY <3>1, <3>2
  <2>5. ASSUME NEW p \in Polls, PutBack(p) PROVE KeptIsBounded'
    <3>1. Holding' = Holding \ {p} /\ p \in Holding
      BY <2>0, <2>5 DEF PutBack, Holding
    <3>2. k' = k - 1
      BY <3>1, <2>1, FS_RemoveElement
    <3>3. held[p] \in Launches /\ items' = <<held[p]>> \o items
      BY <2>0, <2>5 DEF PutBack, Requeue
    <3>4. Len(items') = Len(items) + 1
      BY <2>0, <3>3, FrontIs
    <3>. QED  BY <1>0, <2>0, <2>1, <2>2, <3>2, <3>4 DEF KeptIsBounded
  <2>6. ASSUME NEW p \in Polls, HandOver(p) PROVE KeptIsBounded'
    <3>1. Holding' = Holding \ {p} /\ p \in Holding /\ items' = items
      BY <2>0, <2>6 DEF HandOver, Holding, queue
    <3>2. k' = k - 1
      BY <3>1, <2>1, FS_RemoveElement
    <3>. QED  BY <1>0, <2>0, <2>1, <2>2, <3>1, <3>2 DEF KeptIsBounded
  <2>7. ASSUME NEW p \in Polls,
               \/ GoesToWait(p) \/ WakesUp(p) \/ Notice(p) \/ IntoTheVoid(p)
               \/ \E w \in Pages : StartPoll(w, p) \/ Claimed(w, p) \/ Leave(w, p)
        PROVE  KeptIsBounded'
    <3>1. items' = items
      BY <2>7 DEF GoesToWait, WakesUp, Notice, IntoTheVoid, StartPoll, Claimed, Leave, Answered, queue
    <3>2. Holding' = Holding
      BY <2>0, <2>7
      DEF Holding, GoesToWait, WakesUp, Notice, IntoTheVoid, StartPoll, Claimed, Leave, Answered
    <3>. QED  BY <2>2, <3>1, <3>2 DEF KeptIsBounded
  <2>8. CASE UNCHANGED queueVars
    BY <2>2, <2>8 DEF queueVars, KeptIsBounded, Holding
  <2>. QED  BY <1>2, <2>3, <2>4, <2>5, <2>6, <2>7, <2>8 DEF QueueNext, Serve
<1>. HIDE DEF n, k
<1>. QED  BY <1>1, <1>2, QueueTypeCorrect, PTL DEF QueueSpec
=============================================================================
