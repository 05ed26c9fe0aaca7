----------------------------- MODULE ChangesTab ------------------------------
(***************************************************************************)
(* The Changes tab of the panel (rp_changes.js): git's state of the workspace,  *)
(* the commit message with a draft per workspace, and the git actions, each of   *)
(* which runs its steps in the workspace it was started in while the panel may    *)
(* follow the user elsewhere.  `c` is what the tab keeps; the repositories are    *)
(* git's, [files, ahead, behind, upstream].                                       *)
(***************************************************************************)
EXTENDS PanelModel

CONSTANTS
    Messages,          \* what is typed as a commit message
    MaxAhead           \* bound: commits a branch is ahead

Blank == ""

Actions == {"commit", "commit-push", "amend", "push", "publish", "pull", "stage-all"}
Jobs == [steps : Seq(Actions \ {"commit-push"}) \ {<<>>}, text : Messages \cup {Blank}, asked : BOOLEAN]
Works == [ws : Workspaces, action : {"stage", "unstage", "discard"}, boxed : BOOLEAN]

\* running and said: the ledger; jobs: the git action a workspace runs; works: staging
\* and discarding.
ChangesTabs ==
    [data : [ws : Workspaces, repo : Repositories] \cup {None},
     asks : Seq([ws : Workspaces, seen : Repositories, poll : BOOLEAN, live : BOOLEAN]),
     message : Messages \cup {Blank}, draftFor : Workspaces \cup {None},
     drafts : [Workspaces -> Messages \cup {Blank}],
     running : [Workspaces -> Actions \cup {None}], said : [Workspaces -> [fix : BOOLEAN] \cup {None}],
     jobs : [Workspaces -> Jobs \cup {None}], works : Seq(Works)]
NoChanges == [data |-> None, asks |-> <<>>, message |-> Blank, draftFor |-> None,
              drafts |-> [w \in Workspaces |-> Blank],
              running |-> [w \in Workspaces |-> None], said |-> [w \in Workspaces |-> None],
              jobs |-> [w \in Workspaces |-> None], works |-> <<>>]

\* The draft typed for this workspace comes back with it.
TakeDraft(c, ws) ==
    IF ws = c.draftFor THEN c
    ELSE [c EXCEPT !.draftFor = ws, !.message = IF ws = None THEN Blank ELSE c.drafts[ws]]

ChangesRefresh(c, ws, repo, poll) ==
    LET back == TakeDraft(c, ws) IN
    IF ws = None THEN [back EXCEPT !.data = None]
    ELSE [back EXCEPT !.asks = Append(@, [ws |-> ws, seen |-> repo[ws], poll |-> poll, live |-> TRUE])]

ChangesReset(c) ==
    [c EXCEPT !.data = None, !.draftFor = None, !.message = Blank,
              !.drafts = IF c.draftFor = None THEN @ ELSE [@ EXCEPT ![c.draftFor] = c.message],
              !.asks = [i \in DOMAIN @ |-> [@[i] EXCEPT !.live = FALSE]]]

\* git looked when it was asked or just before it answered.
ChangesAnswer(c, i, repo, how) ==
    LET a == c.asks[i]
        rest == [c EXCEPT !.asks = RemoveAt(@, i)]
    IN  CASE ~ a.live -> rest
          [] a.live /\ how = "asked" -> [rest EXCEPT !.data = [ws |-> a.ws, repo |-> a.seen]]
          [] a.live /\ how = "now" -> [rest EXCEPT !.data = [ws |-> a.ws, repo |-> repo[a.ws]]]
          [] a.live /\ how = "fails" -> rest
          [] a.live /\ how = "no repository" -> [rest EXCEPT !.data = None]

ChangesPolling(c) == \E i \in DOMAIN c.asks : c.asks[i].poll

-----------------------------------------------------------------------------
(* What git does with a step, when it can. *)

CanDo(step, r) ==
    CASE step \in {"commit", "unstage"} -> "staged" \in r.files
      [] step \in {"stage-all", "stage", "discard"} -> GroupFiles(r.files).changes
      [] step = "push" -> r.upstream /\ r.behind = 0
      [] step = "pull" -> r.upstream /\ ~ (r.ahead > 0 /\ r.behind > 0)
      [] step \in {"amend", "publish"} -> TRUE

Does(step, r) ==
    CASE step = "commit" -> [r EXCEPT !.files = @ \ {"staged"}, !.ahead = IF @ < MaxAhead THEN @ + 1 ELSE @]
      [] step = "amend" -> [r EXCEPT !.files = @ \ {"staged"},
                                     !.ahead = IF HeadIsPushed(r) THEN 1 ELSE @,
                                     !.behind = IF HeadIsPushed(r) THEN 1 ELSE @]
      [] step = "unstage" -> [r EXCEPT !.files = (@ \ {"staged"}) \cup {"changes"}]
      [] step \in {"stage-all", "stage"} -> [r EXCEPT !.files = {"staged"}]
      [] step = "discard" -> [r EXCEPT !.files = @ \ {"changes", "untracked"}]
      [] step = "push" -> [r EXCEPT !.ahead = 0]
      [] step = "publish" -> [r EXCEPT !.ahead = 0, !.upstream = TRUE]
      [] step = "pull" -> [r EXCEPT !.behind = 0]

-----------------------------------------------------------------------------
(* The git actions. *)

Offered(c) ==
    IF c.data = None THEN {}
    ELSE LET r == c.data.repo  typed == c.message # Blank IN
         (({PrimaryAction(r, typed)} \cup SecondaryActions(r, typed)) \ {"none"})
         \cup (IF "staged" \in r.files /\ typed THEN {"commit"} ELSE {})

\* Everything the steps decide on is taken now, from this workspace.
GitStarts(c, ws, action, asked) ==
    IF ws = None \/ c.running[ws] # None THEN c
    ELSE [c EXCEPT !.running[ws] = action, !.said[ws] = None,
                   !.jobs[ws] = [steps |-> GitSteps(action, c.data # None /\ c.data.repo.upstream),
                                 text |-> c.message, asked |-> asked]]

\* Faulty: the message goes with the commit, whatever it is by then.
CommittedAny(c, ws, shown) == IF ws = shown THEN [c EXCEPT !.message = Blank] ELSE c

\* A message that was committed goes, unless it was changed meanwhile.
Committed(c, ws, shown) ==
    IF ws = shown /\ c.message = c.jobs[ws].text THEN [c EXCEPT !.message = Blank] ELSE c

GitFinishes(c, ws, shown, repo) ==
    LET done == [c EXCEPT !.running[ws] = None, !.jobs[ws] = None] IN
    IF ws = shown THEN ChangesRefresh(done, ws, repo, FALSE) ELSE done

\* The step that runs in ws answers; repo is git's after it.
GitStepEnds(c, ws, shown, repo, how) ==
    LET steps == c.jobs[ws].steps
        c1 == IF how = "ok" THEN IF Head(steps) \in {"commit", "amend"} THEN Committed(c, ws, shown) ELSE c
              ELSE [c EXCEPT !.said[ws] = [fix |-> how = "refused" /\ Head(steps) \in {"commit", "amend"}]]
    IN  IF how = "ok" /\ Len(steps) > 1 THEN [c1 EXCEPT !.jobs[ws].steps = Tail(@)]
        ELSE GitFinishes(c1, ws, shown, repo)

\* Staging and discarding run beside the ledger.
WorkStarts(c, ws, action, boxed) ==
    [c EXCEPT !.works = Append(@, [ws |-> ws, action |-> action, boxed |-> boxed])]

WorkEnds(c, i, shown, repo, ok) ==
    LET w == c.works[i]
        c1 == [c EXCEPT !.works = RemoveAt(@, i),
                        !.said = IF ok \/ w.boxed THEN @ ELSE [@ EXCEPT ![w.ws] = [fix |-> FALSE]]]
    IN  IF w.ws = shown THEN ChangesRefresh(c1, w.ws, repo, FALSE) ELSE c1
=============================================================================
