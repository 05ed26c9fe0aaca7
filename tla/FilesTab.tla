------------------------------ MODULE FilesTab -------------------------------
(***************************************************************************)
(* The Files tab of the panel (rp_files.js): a tree that lists one folder per  *)
(* request, and a filter that searches.  `files` is what the tab keeps; its     *)
(* requests are answered in any order, and those of an earlier workspace find   *)
(* themselves dead.                                                            *)
(***************************************************************************)
EXTENDS PanelModel

CONSTANTS
    Dirs, Root,      \* the folders of a workspace; the others are inside Root
    Queries          \* what is typed in the filter

Unlisted == "unlisted"
Nothing == "nothing"       \* a listing without entries
NoQuery == "no query"

Loads == [ws : Workspaces, want : SUBSET Dirs, kind : {"toggle", "refresh"}, poll : BOOLEAN, live : BOOLEAN]
Searches == [ws : Workspaces, query : Queries, cur : BOOLEAN, live : BOOLEAN]

\* listed: whose listing a folder has; rows: what the tree draws.
FilesTabs ==
    [listed : [Dirs -> Workspaces \cup {Unlisted, Nothing}], expanded : SUBSET Dirs, spinning : SUBSET Dirs,
     rows : SUBSET (Dirs \X Workspaces), query : Queries \cup {NoQuery}, due : BOOLEAN,
     hits : [ws : Workspaces, query : Queries] \cup {None}, loads : Seq(Loads), searches : Seq(Searches)]
NoFiles == [listed |-> [d \in Dirs |-> Unlisted], expanded |-> {}, spinning |-> {}, rows |-> {},
            query |-> NoQuery, due |-> FALSE, hits |-> None, loads |-> <<>>, searches |-> <<>>]

\* A folder is drawn below a row of its own, once it is open and listed.
Drawn(f, d) ==
    /\ f.listed[d] \notin {Unlisted, Nothing}
    /\ d = Root \/ (d \in f.expanded /\ f.listed[Root] # Nothing)
FlattenTree(f) == {<<d, f.listed[d]>> : d \in {e \in Dirs : Drawn(f, e)}}
RenderTree(f) == [f EXCEPT !.rows = FlattenTree(f)]

AskListing(f, ws, dirs, kind, poll) ==
    [f EXCEPT !.loads = Append(@, [ws |-> ws, want |-> dirs, kind |-> kind, poll |-> poll, live |-> TRUE])]

\* The new search is the one a change of the filter aborts.
RunSearch(f, ws) ==
    IF ws = None \/ f.query = NoQuery THEN [f EXCEPT !.due = FALSE]
    ELSE [f EXCEPT !.due = FALSE,
                   !.searches = Append([i \in DOMAIN @ |-> [@[i] EXCEPT !.cur = FALSE]],
                                       [ws |-> ws, query |-> f.query, cur |-> TRUE, live |-> TRUE])]

ScheduleSearch(f, q) ==
    [f EXCEPT !.query = q, !.due = q # NoQuery,
              !.searches = [i \in DOMAIN @ |-> [@[i] EXCEPT !.live = f.searches[i].live /\ ~ f.searches[i].cur]],
              !.hits = IF q = NoQuery THEN None ELSE @]

FilesRefresh(f, ws, poll) ==
    IF ws = None THEN RenderTree([f EXCEPT !.listed = [d \in Dirs |-> IF d = Root THEN Nothing ELSE Unlisted]])
    ELSE AskListing(f, ws, {Root} \cup f.expanded, "refresh", poll)

\* Faulty: the requests of the workspace before stay in flight, alive.
FilesResetOnly(f) ==
    [ScheduleSearch(f, NoQuery) EXCEPT
        !.listed = NoFiles.listed, !.expanded = {}, !.spinning = {}, !.rows = {}]

\* The requests of the workspace before stay in flight, dead.
FilesReset(f) ==
    [ScheduleSearch(f, NoQuery) EXCEPT
        !.listed = NoFiles.listed, !.expanded = {}, !.spinning = {}, !.rows = {},
        !.loads = [i \in DOMAIN @ |-> [@[i] EXCEPT !.live = FALSE]]]

ToggleDir(f, ws, d) ==
    IF d \in f.expanded THEN RenderTree([f EXCEPT !.expanded = @ \ {d}])
    ELSE LET wide == [f EXCEPT !.expanded = @ \cup {d}] IN
         IF f.listed[d] # Unlisted THEN RenderTree(wide)
         ELSE AskListing(RenderTree([wide EXCEPT !.spinning = @ \cup {d}]), ws, {d}, "toggle", FALSE)

\* One folder of request i is answered; with the last one the tree is drawn.
Listed(f, r, d, ok) ==
    IF ~ r.live THEN f
    ELSE IF ok THEN [f EXCEPT !.listed[d] = r.ws]
    ELSE IF f.listed[d] # Unlisted THEN f
    ELSE IF d = Root THEN [f EXCEPT !.listed[d] = Nothing]
    ELSE [f EXCEPT !.expanded = @ \ {d}]

ListingEnds(f, r) ==
    CASE r.kind = "toggle" -> RenderTree([f EXCEPT !.spinning = @ \ r.want])
      [] r.kind = "refresh" /\ ~ r.live -> f
      [] r.kind = "refresh" /\ r.live ->
            IF f.query # NoQuery /\ ~ r.poll THEN RunSearch(RenderTree(f), r.ws) ELSE RenderTree(f)

ListingAnswers(f, i, d, ok) ==
    LET r == f.loads[i]
        f1 == Listed(f, r, d, ok)
    IN  IF r.want = {d} \/ r.kind = "toggle" THEN ListingEnds([f1 EXCEPT !.loads = RemoveAt(@, i)], r)
        ELSE [f1 EXCEPT !.loads[i].want = @ \ {d}]

SearchAnswers(f, i, ok) ==
    LET s == f.searches[i] IN
    [f EXCEPT !.searches = RemoveAt(@, i),
              !.hits = IF ~ s.live THEN @ ELSE IF ok THEN [ws |-> s.ws, query |-> s.query] ELSE None]

FilesPolling(f) == \E i \in DOMAIN f.loads : f.loads[i].poll
=============================================================================
