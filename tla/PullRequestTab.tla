--------------------------- MODULE PullRequestTab ----------------------------
(***************************************************************************)
(* The Pull request tab of the panel (rp_pr.js): what GitHub says of the        *)
(* branch, the logs of failing checks and the merge, which names the head that   *)
(* was on screen when it was confirmed.  `hub` is GitHub's: the pull request of   *)
(* each workspace's branch, [state, draft, head, checks], or None.                *)
(***************************************************************************)
EXTENDS PanelModel

CONSTANT Checks    \* of a pull request, by name and run

PullRequests ==
    [state : {"OPEN", "CLOSED", "MERGED"}, draft : BOOLEAN, head : Nat, checks : [Checks -> STRING]] \cup {None}

\* reads: checks whose log is read.
PrTabs ==
    [data : [ws : Workspaces, pr : PullRequests] \cup {None},
     asks : Seq([ws : Workspaces, seen : PullRequests, poll : BOOLEAN, live : BOOLEAN]),
     loading : BOOLEAN, expanded : SUBSET Checks, logs : [Checks -> {None, "loading", "text", "failed"}],
     reads : Seq(Checks), merges : Seq([ws : Workspaces, head : Nat])]
NoPr == [data |-> None, asks |-> <<>>, loading |-> FALSE, expanded |-> {},
         logs |-> [k \in Checks |-> None], reads |-> <<>>, merges |-> <<>>]

PrRefresh(p, ws, hub, poll) ==
    IF ws = None THEN [p EXCEPT !.data = None]
    ELSE [p EXCEPT !.loading = TRUE,
                   !.asks = Append(@, [ws |-> ws, seen |-> hub[ws], poll |-> poll, live |-> TRUE])]

\* Faulty: the answer that would end the wait is dead.
PrResetWaiting(p) ==
    [p EXCEPT !.data = None, !.expanded = {}, !.logs = [k \in Checks |-> None],
              !.asks = [i \in DOMAIN @ |-> [@[i] EXCEPT !.live = FALSE]]]

PrReset(p) ==
    [p EXCEPT !.data = None, !.loading = FALSE, !.expanded = {}, !.logs = [k \in Checks |-> None],
              !.asks = [i \in DOMAIN @ |-> [@[i] EXCEPT !.live = FALSE]]]

\* A failed answer keeps the pull request on screen.
PrAnswer(p, i, ok) ==
    LET a == p.asks[i]
        rest == [p EXCEPT !.asks = RemoveAt(@, i)]
    IN  IF ~ a.live THEN rest
        ELSE [rest EXCEPT !.loading = FALSE, !.data = IF ok THEN [ws |-> a.ws, pr |-> a.seen]
                                              ELSE IF @ # None /\ @.pr # None THEN @ ELSE [ws |-> a.ws, pr |-> None]]

PrPolling(p) == \E i \in DOMAIN p.asks : p.asks[i].poll

\* A failing check shows the end of its log, read once.
LoadLog(p, k) ==
    IF p.logs[k] \notin {None, "failed"} THEN p
    ELSE [p EXCEPT !.logs[k] = "loading", !.reads = Append(@, k)]

ToggleCheck(p, k) ==
    IF k \in p.expanded THEN [p EXCEPT !.expanded = @ \ {k}]
    ELSE LoadLog([p EXCEPT !.expanded = @ \cup {k}], k)

LogAnswers(p, i, ok) ==
    [p EXCEPT !.reads = RemoveAt(@, i), !.logs[p.reads[i]] = IF ok THEN "text" ELSE "failed"]

MergeStarts(p, ws, head) == [p EXCEPT !.merges = Append(@, [ws |-> ws, head |-> head])]

\* The backend merges the head it was named, or refuses.
MergeTakes(pr, head) == pr # None /\ MayMerge(pr) /\ pr.head = head

MergeEnds(p, i, shown, hub) ==
    LET q == [p EXCEPT !.merges = RemoveAt(@, i)] IN
    IF p.merges[i].ws = shown THEN PrRefresh(q, shown, hub, FALSE) ELSE q
=============================================================================
