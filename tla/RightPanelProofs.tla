-------------------------- MODULE RightPanelProofs --------------------------
(***************************************************************************)
(* What TLAPS proves about RightPanel, for any workspaces, folders, files, *)
(* checks, messages, diffs and repositories, and with no bound on what the *)
(* user does or on how many answers are under way:                         *)
(*   what a tab shows is of the workspace the panel is on;                 *)
(*   a message that was typed is in the box or in the drafts;              *)
(*   the keyboard is claimed by what has it, once, and is given back;      *)
(*   a control that says busy has an answer to come that will end it.      *)
(*                                                                         *)
(* IInv is what the four have in common and what each needs to survive a   *)
(* step.  A tab is good for a workspace (FilesOf, ChangesOf, PrOf): also   *)
(* the requests it still listens to are about that workspace, and its      *)
(* draft is that workspace's, so that an answer or a switch cannot mix     *)
(* two.  What the box waits for runs, and nothing else runs for it         *)
(* (Awaited): so the answer that ends it finds it.  A view over the stage  *)
(* stands at a stop or a match it has (ViewOf).                            *)
(*                                                                         *)
(* The operators of the five modules take a tab or a panel and give one,   *)
(* so the proof goes by operator first: what each makes of a good tab, of  *)
(* a panel without its tabs (Framed), of a whole one (Whole).  Then come   *)
(* the steps, one lemma each.                                              *)
(***************************************************************************)
EXTENDS RightPanel, FiniteSetTheorems, WellFoundedInduction, TLAPS

\* The Files tab of a panel on w: what it lists, draws and still waits for is of w.
FilesOf(f, w) ==
    /\ f \in FilesTabs
    /\ \A d \in Dirs : f.listed[d] \in {Unlisted, Nothing, w}
    /\ \A row \in f.rows : row[2] = w
    /\ \A i \in DOMAIN f.loads : f.loads[i].live => f.loads[i].ws = w
    /\ \A d \in f.spinning : \E i \in DOMAIN f.loads : f.loads[i].kind = "toggle" /\ f.loads[i].want = {d}

\* The Changes tab.
ChangesOf(c, w) ==
    /\ c \in ChangesTabs
    /\ c.data # None => c.data.ws = w /\ c.draftFor = w
    /\ c.draftFor \in {None, w} /\ (c.draftFor = None => c.message = Blank)
    /\ \A i \in DOMAIN c.asks : c.asks[i].live => c.asks[i].ws = w /\ c.draftFor = w
    /\ \A v \in Workspaces : c.running[v] # None <=> c.jobs[v] # None
Kept(c, kept) == \A v \in Workspaces : kept[v] = IF c.draftFor = v THEN c.message ELSE c.drafts[v]

\* The Pull request tab.
PrOf(p, w) ==
    /\ p \in PrTabs
    /\ p.data # None => p.data.ws = w
    /\ \A i \in DOMAIN p.asks : p.asks[i].live => p.asks[i].ws = w
    /\ p.loading => \E i \in DOMAIN p.asks : p.asks[i].live
    /\ \A k \in Checks : p.logs[k] = "loading" => \E i \in DOMAIN p.reads : p.reads[i] = k

\* The view over the stage.
ViewOf(v) ==
    v # None =>
        /\ v.stops \subseteq DOMAIN v.items
        /\ v.at \in (IF v.kind = "diff" THEN v.stops ELSE 1 .. v.matches) \cup {0}

\* The keyboard.
KeysOf(p) ==
    /\ p.claims.viewer = IF p.viewer = None THEN 0 ELSE 1
    /\ p.claims.panel = IF p.claimed THEN 1 ELSE 0
    /\ ~ p.open => p.keys # "panel"
    /\ p.claimed => p.keys = "panel"
    /\ p.keys = "viewer" => p.viewer # None

TabsOf(p, kept) ==
    FilesOf(p.files, p.workspace) /\ ChangesOf(p.changes, p.workspace) /\ Kept(p.changes, kept) /\ PrOf(p.pr, p.workspace)

\* What the confirmation waits for is there, and it alone asked for it.
Awaited(works, merges, jobs, b) ==
    /\ \A i \in DOMAIN works : works[i].boxed => b # None /\ b.busy /\ b.what = "discard" /\ b.ws = works[i].ws
    /\ \A i, j \in DOMAIN works : works[i].boxed /\ works[j].boxed => i = j
    /\ \A i \in DOMAIN merges : b # None /\ b.busy /\ b.what = "merge" /\ b.ws = merges[i].ws
    /\ \A i, j \in DOMAIN merges : i = j
    /\ b # None /\ b.busy =>
          CASE b.what = "amend" -> jobs[b.ws] # None
            [] b.what = "discard" -> \E i \in DOMAIN works : works[i].boxed
            [] b.what = "merge" -> merges # <<>>
BoxOf(p, b) == Awaited(p.changes.works, p.pr.merges, p.changes.jobs, b)

Around ==
    /\ box \in Boxes \cup {None} /\ shown \in Workspaces \cup {None}
    /\ repo \in [Workspaces -> Repositories] /\ hub \in [Workspaces -> PullRequests]
    /\ typed \in [Workspaces -> Messages \cup {Blank}]
IInv ==
    /\ Around /\ panel \in Panels /\ KeysOf(panel) /\ ViewOf(panel.viewer)
    /\ TabsOf(panel, typed) /\ BoxOf(panel, box)

-----------------------------------------------------------------------------
(* Lists and how they grow and shrink. *)

\* What is in a list is of its kind.
LEMMA ElementIs ==
    ASSUME NEW S, NEW s \in Seq(S), NEW i \in DOMAIN s
    PROVE  s[i] \in S
<1>1. Len(s) \in Nat /\ DOMAIN s = 1 .. Len(s)
  OBVIOUS
<1>. QED  BY <1>1

\* t is s with e behind it.
Grown(s, e, t) ==
    /\ t # <<>> /\ Len(s) \in Nat /\ Len(t) = Len(s) + 1 /\ DOMAIN t = 1 .. Len(s) + 1 /\ DOMAIN s = 1 .. Len(s)
    /\ \A i \in 1 .. Len(s) : t[i] = s[i]
    /\ t[Len(s) + 1] = e
    /\ \A i \in DOMAIN t : t[i] = e \/ \E k \in DOMAIN s : t[i] = s[k]
    /\ \A k \in DOMAIN s : \E i \in DOMAIN t : t[i] = s[k]
    /\ \E i \in DOMAIN t : t[i] = e

\* What Append adds to a list.
LEMMA AppendIs ==
    ASSUME NEW S, NEW s \in Seq(S), NEW e \in S
    PROVE  Append(s, e) \in Seq(S) /\ Grown(s, e, Append(s, e))
<1>1. PICK t : t = Append(s, e)
  OBVIOUS
<1>2. /\ t \in Seq(S) /\ Len(s) \in Nat /\ Len(t) = Len(s) + 1 /\ DOMAIN t = 1 .. Len(s) + 1 /\ DOMAIN s = 1 .. Len(s)
      /\ \A i \in 1 .. Len(s) : t[i] = s[i]
      /\ t[Len(s) + 1] = e
  BY <1>1
<1>3. \A i \in 1 .. Len(s) + 1 : i \in 1 .. Len(s) \/ i = Len(s) + 1
  BY <1>2
<1>4. \A i \in 1 .. Len(s) : i \in 1 .. Len(s) + 1
  BY <1>2
<1>5. Len(s) + 1 \in 1 .. Len(s) + 1
  BY <1>2
<1>6. t # <<>>
  BY <1>2
<1>7. Grown(s, e, t)
  BY <1>2, <1>3, <1>4, <1>5, <1>6 DEF Grown
<1>. QED  BY <1>1, <1>2, <1>7

\* t is s without its i-th.
Behind(i, j) == IF j < i THEN j ELSE j + 1
Shrunk(s, i, t) ==
    /\ Len(s) \in Nat /\ Len(t) = Len(s) - 1 /\ DOMAIN t = 1 .. Len(s) - 1 /\ DOMAIN s = 1 .. Len(s)
    /\ \A j \in DOMAIN t : t[j] = s[Behind(i, j)] /\ Behind(i, j) \in DOMAIN s \ {i}
    /\ \A k \in DOMAIN s \ {i} : \E j \in DOMAIN t : t[j] = s[k]

\* What RemoveAt leaves of a list.
LEMMA RemoveIs ==
    ASSUME NEW S, NEW s \in Seq(S), NEW i \in DOMAIN s
    PROVE  RemoveAt(s, i) \in Seq(S) /\ Shrunk(s, i, RemoveAt(s, i))
<1>0. Len(s) \in Nat /\ DOMAIN s = 1 .. Len(s) /\ i \in 1 .. Len(s)
  OBVIOUS
<1>1. PICK a : a = SubSeq(s, 1, i - 1)
  OBVIOUS
<1>2. PICK b : b = SubSeq(s, i + 1, Len(s))
  OBVIOUS
<1>3. a \in Seq(S) /\ Len(a) = i - 1 /\ \A j \in 1 .. i - 1 : a[j] = s[j]
  BY <1>0, <1>1
<1>4. b \in Seq(S) /\ Len(b) = Len(s) - i /\ \A j \in 1 .. Len(s) - i : b[j] = s[i + j]
  BY <1>0, <1>2
<1>5. PICK t : t = a \o b
  OBVIOUS
<1>6. /\ t \in Seq(S) /\ Len(t) = Len(s) - 1 /\ DOMAIN t = 1 .. Len(s) - 1
      /\ \A j \in 1 .. i - 1 : t[j] = a[j]
      /\ \A j \in i .. Len(s) - 1 : t[j] = b[j - (i - 1)]
  <2>1. a \in Seq(S) /\ b \in Seq(S) /\ Len(a) \in Nat /\ Len(b) \in Nat
    BY <1>3, <1>4
  <2>2. /\ t \in Seq(S) /\ Len(t) = Len(a) + Len(b)
        /\ \A j \in 1 .. Len(a) : t[j] = a[j]
        /\ \A j \in Len(a) + 1 .. Len(a) + Len(b) : t[j] = b[j - Len(a)]
    BY ONLY <1>5, <2>1
  <2>3. Len(a) + Len(b) = Len(s) - 1 /\ Len(a) = i - 1 /\ Len(a) + 1 = i
    BY <1>0, <1>3, <1>4
  <2>. QED  BY <2>2, <2>3
<1>7. t = RemoveAt(s, i)
  BY <1>1, <1>2, <1>5 DEF RemoveAt
<1>8. ASSUME NEW j \in 1 .. Len(s) - 1
      PROVE  t[j] = s[Behind(i, j)] /\ Behind(i, j) \in DOMAIN s \ {i}
  <2>1. CASE j < i
    BY <1>0, <1>3, <1>6, <2>1 DEF Behind
  <2>2. CASE ~ (j < i)
    <3>1. j - (i - 1) \in 1 .. Len(s) - i /\ i + (j - (i - 1)) = j + 1 /\ j \in i .. Len(s) - 1
      BY <1>0, <2>2
    <3>2. t[j] = b[j - (i - 1)]
      BY <1>6, <3>1
    <3>3. b[j - (i - 1)] = s[i + (j - (i - 1))]
      BY <1>4, <3>1
    <3>4. j + 1 \in 1 .. Len(s) /\ j + 1 # i
      BY <1>0, <2>2
    <3>. QED  BY <1>0, <2>2, <3>1, <3>2, <3>3, <3>4 DEF Behind
  <2>. QED  BY <2>1, <2>2
<1>9. ASSUME NEW k \in DOMAIN s \ {i}
      PROVE  \E j \in DOMAIN t : t[j] = s[k]
  <2>1. CASE k < i
    <3>1. k \in 1 .. Len(s) - 1 /\ k \in 1 .. i - 1
      BY <1>0, <2>1
    <3>. QED  BY <1>3, <1>6, <3>1
  <2>2. CASE ~ (k < i)
    <3>1. k - 1 \in 1 .. Len(s) - 1 /\ ~ (k - 1 < i) /\ (k - 1) + 1 = k
      BY <1>0, <2>2
    <3>. QED  BY <1>6, <1>8, <3>1 DEF Behind
  <2>. QED  BY <2>1, <2>2
<1>10. Shrunk(s, i, t)
  BY <1>0, <1>6, <1>8, <1>9 DEF Shrunk
<1>. QED  BY <1>6, <1>7, <1>10

Places == Workspaces \cup {None}

\* A function over the first numbers is a list.
LEMMA ListIs ==
    ASSUME NEW S, NEW n \in Nat, NEW g \in [1 .. n -> S]
    PROVE  g \in Seq(S) /\ Len(g) = n /\ DOMAIN g = 1 .. n
OBVIOUS

-----------------------------------------------------------------------------
(* The Files tab. *)

\* A folder that is drawn was listed for the workspace on screen.
LEMMA TreeIsOfIt ==
    ASSUME NEW f, NEW w, FilesOf(f, w)
    PROVE  FilesOf(RenderTree(f), w)
<1>1. PICK rows : rows = FlattenTree(f)
  OBVIOUS
<1>2. rows \in SUBSET (Dirs \X Workspaces) /\ \A row \in rows : row[2] = w
  <2>1. ASSUME NEW row \in rows
        PROVE  row \in Dirs \X Workspaces /\ row[2] = w
    <3>1. PICK d \in Dirs : Drawn(f, d) /\ row = <<d, f.listed[d]>>
      BY <1>1, <2>1 DEF FlattenTree
    <3>2. f.listed[d] \in Workspaces \cup {Unlisted, Nothing} /\ f.listed[d] \in {Unlisted, Nothing, w}
      BY DEF FilesOf, FilesTabs
    <3>. QED  BY <3>1, <3>2 DEF Drawn
  <2>. QED  BY <2>1
<1>3. PICK g : g = RenderTree(f)
  OBVIOUS
<1>4. g = [f EXCEPT !.rows = rows]
  BY <1>1, <1>3 DEF RenderTree
<1>5. /\ g \in FilesTabs /\ g.rows = rows
      /\ g.listed = f.listed /\ g.spinning = f.spinning /\ g.loads = f.loads
  BY <1>2, <1>4 DEF FilesOf, FilesTabs
<1>. QED  BY <1>2, <1>3, <1>5 DEF FilesOf

\* A search touches nothing else.
LEMMA SearchKeeps ==
    ASSUME NEW f, NEW w, FilesOf(f, w), NEW ws \in Places
    PROVE  FilesOf(RunSearch(f, ws), w)
<1>0. f \in FilesTabs
  BY DEF FilesOf
<1>1. PICK g : g = RunSearch(f, ws)
  OBVIOUS
<1>2. CASE ws = None \/ f.query = NoQuery
  <2>1. g = [f EXCEPT !.due = FALSE]
    BY <1>1, <1>2 DEF RunSearch
  <2>2. g \in FilesTabs /\ g.rows = f.rows /\ g.listed = f.listed /\ g.spinning = f.spinning /\ g.loads = f.loads
    BY <1>0, <2>1 DEF FilesTabs
  <2>. QED  BY <1>1, <2>2 DEF FilesOf
<1>3. CASE ~ (ws = None \/ f.query = NoQuery)
  <2>1. PICK old : old = [i \in DOMAIN f.searches |-> [f.searches[i] EXCEPT !.cur = FALSE]]
    OBVIOUS
  <2>2. PICK new : new = [ws |-> ws, query |-> f.query, cur |-> TRUE, live |-> TRUE]
    OBVIOUS
  <2>3. old \in Seq(Searches)
    <3>1. f.searches \in Seq(Searches)
      BY <1>0 DEF FilesTabs
    <3>2. ASSUME NEW i \in DOMAIN f.searches
          PROVE  [f.searches[i] EXCEPT !.cur = FALSE] \in Searches
      <4>1. f.searches[i] \in Searches
        BY <3>1
      <4>. QED  BY <4>1 DEF Searches
    <3>3. PICK n \in Nat : DOMAIN f.searches = 1 .. n
      BY <3>1
    <3>4. old \in [1 .. n -> Searches]
      BY <2>1, <3>2, <3>3
    <3>. QED  BY ONLY <3>3, <3>4, ListIs
  <2>4. new \in Searches
    <3>1. ws \in Workspaces /\ f.query \in Queries
      BY <1>0, <1>3 DEF Places, FilesTabs
    <3>. QED  BY <2>2, <3>1 DEF Searches
  <2>5. PICK all \in Seq(Searches) : all = Append(old, new)
    BY ONLY <2>3, <2>4, AppendIs
  <2>6. g = [f EXCEPT !.due = FALSE, !.searches = all]
    BY <1>1, <1>3, <2>1, <2>2, <2>5 DEF RunSearch
  <2>7. g \in FilesTabs /\ g.rows = f.rows /\ g.listed = f.listed /\ g.spinning = f.spinning /\ g.loads = f.loads
    BY <1>0, <2>6 DEF FilesTabs
  <2>. QED  BY <1>1, <2>7 DEF FilesOf
<1>. QED  BY <1>2, <1>3

\* Typing in the filter.
LEMMA FilterKeeps ==
    ASSUME NEW f, NEW w, FilesOf(f, w), NEW q \in Queries \cup {NoQuery}
    PROVE  /\ FilesOf(ScheduleSearch(f, q), w)
           /\ ScheduleSearch(f, q).loads = f.loads
<1>0. f \in FilesTabs
  BY DEF FilesOf
<1>1. PICK g : g = ScheduleSearch(f, q)
  OBVIOUS
<1>2. PICK old : old = [i \in DOMAIN f.searches |-> [f.searches[i] EXCEPT !.live = f.searches[i].live /\ ~ f.searches[i].cur]]
  OBVIOUS
<1>3. old \in Seq(Searches)
  <2>1. f.searches \in Seq(Searches)
    BY <1>0 DEF FilesTabs
  <2>2. ASSUME NEW i \in DOMAIN f.searches
        PROVE  [f.searches[i] EXCEPT !.live = f.searches[i].live /\ ~ f.searches[i].cur] \in Searches
    <3>1. f.searches[i] \in Searches
      BY <2>1
    <3>2. (f.searches[i].live /\ ~ f.searches[i].cur) \in BOOLEAN
      OBVIOUS
    <3>. QED  BY <3>1, <3>2 DEF Searches
  <2>3. PICK n \in Nat : DOMAIN f.searches = 1 .. n
    BY <2>1
  <2>4. old \in [1 .. n -> Searches]
    BY <1>2, <2>2, <2>3
  <2>. QED  BY ONLY <2>3, <2>4, ListIs
<1>4. PICK due \in BOOLEAN : due = (q # NoQuery)
  OBVIOUS
<1>5. PICK hits \in [ws : Workspaces, query : Queries] \cup {None} : hits = IF q = NoQuery THEN None ELSE f.hits
  BY <1>0 DEF FilesTabs
<1>6. g = [f EXCEPT !.query = q, !.due = due, !.searches = old, !.hits = hits]
  <2>1. g = [f EXCEPT !.query = q, !.due = q # NoQuery, !.searches = old, !.hits = IF q = NoQuery THEN None ELSE f.hits]
    BY <1>1, <1>2 DEF ScheduleSearch
  <2>. QED  BY <1>4, <1>5, <2>1
<1>7. g \in FilesTabs /\ g.rows = f.rows /\ g.listed = f.listed /\ g.spinning = f.spinning /\ g.loads = f.loads
  BY <1>0, <1>3, <1>6 DEF FilesTabs
<1>. QED  BY <1>1, <1>7 DEF FilesOf

\* g is f with one more request, of w.
Asked(f, w, dirs, kind, g) ==
    /\ FilesOf(g, w) /\ g.spinning = f.spinning
    /\ \E i \in DOMAIN g.loads : g.loads[i].kind = kind /\ g.loads[i].want = dirs

\* A request for listings of the workspace on screen.
LEMMA AskKeeps ==
    ASSUME NEW f, NEW w \in Workspaces, FilesOf(f, w), NEW dirs \in SUBSET Dirs, NEW kind \in {"toggle", "refresh"},
           NEW poll \in BOOLEAN
    PROVE  Asked(f, w, dirs, kind, AskListing(f, w, dirs, kind, poll))
<1>g. PICK g : g = AskListing(f, w, dirs, kind, poll)
  OBVIOUS
<1>0. f \in FilesTabs /\ f.loads \in Seq(Loads)
  BY DEF FilesOf, FilesTabs
<1>1. PICK r : r = [ws |-> w, want |-> dirs, kind |-> kind, poll |-> poll, live |-> TRUE]
  OBVIOUS
<1>2. r \in Loads /\ r.ws = w /\ r.want = dirs /\ r.kind = kind
  BY <1>1 DEF Loads
<1>3. PICK all : all = Append(f.loads, r)
  OBVIOUS
<1>4. all \in Seq(Loads) /\ Grown(f.loads, r, all)
  BY ONLY <1>0, <1>2, <1>3, AppendIs
<1>5. g = [f EXCEPT !.loads = all]
  BY <1>g, <1>1, <1>3 DEF AskListing
<1>6. g \in FilesTabs /\ g.loads = all /\ g.rows = f.rows /\ g.listed = f.listed /\ g.spinning = f.spinning
  BY <1>0, <1>4, <1>5 DEF FilesTabs
<1>7. ASSUME NEW i \in DOMAIN all, all[i].live
      PROVE  all[i].ws = w
  <2>1. all[i] = r \/ \E k \in DOMAIN f.loads : all[i] = f.loads[k]
    BY <1>4 DEF Grown
  <2>2. \A k \in DOMAIN f.loads : f.loads[k].live => f.loads[k].ws = w
    BY DEF FilesOf
  <2>. QED  BY <1>2, <1>7, <2>1, <2>2
<1>8. \A d \in f.spinning : \E i \in DOMAIN all : all[i].kind = "toggle" /\ all[i].want = {d}
  <2>1. SUFFICES ASSUME NEW d \in f.spinning
                 PROVE  \E i \in DOMAIN all : all[i].kind = "toggle" /\ all[i].want = {d}
    OBVIOUS
  <2>2. PICK k \in DOMAIN f.loads : f.loads[k].kind = "toggle" /\ f.loads[k].want = {d}
    BY <2>1 DEF FilesOf
  <2>. QED  BY <1>4, <2>2 DEF Grown
<1>9. FilesOf(g, w)
  BY <1>6, <1>7, <1>8 DEF FilesOf
<1>10. \E i \in DOMAIN g.loads : g.loads[i].kind = kind /\ g.loads[i].want = dirs
  BY <1>2, <1>4, <1>6 DEF Grown
<1>. QED  BY <1>g, <1>6, <1>9, <1>10 DEF Asked

\* The tab asks again, or has nothing to ask.
LEMMA FilesRefreshed ==
    ASSUME NEW f, NEW w \in Places, FilesOf(f, w), NEW poll \in BOOLEAN
    PROVE  FilesOf(FilesRefresh(f, w, poll), w)
<1>0. f \in FilesTabs /\ Root \in Dirs
  BY PanelAssumption DEF FilesOf
<1>1. CASE w = None
  <2>1. PICK listed : listed = [d \in Dirs |-> IF d = Root THEN Nothing ELSE Unlisted]
    OBVIOUS
  <2>2. PICK g : g = [f EXCEPT !.listed = listed]
    OBVIOUS
  <2>3. listed \in [Dirs -> Workspaces \cup {Unlisted, Nothing}] /\ \A d \in Dirs : listed[d] \in {Unlisted, Nothing, w}
    BY <2>1
  <2>4. g \in FilesTabs /\ g.listed = listed /\ g.rows = f.rows /\ g.spinning = f.spinning /\ g.loads = f.loads
    BY <1>0, <2>2, <2>3 DEF FilesTabs
  <2>5. FilesOf(g, w)
    BY <2>3, <2>4 DEF FilesOf
  <2>6. FilesOf(RenderTree(g), w)
    BY <2>5, TreeIsOfIt
  <2>. QED  BY <1>1, <2>1, <2>2, <2>6 DEF FilesRefresh
<1>2. CASE w # None
  <2>1. w \in Workspaces
    BY <1>2 DEF Places
  <2>2. PICK dirs \in SUBSET Dirs : dirs = {Root} \cup f.expanded
    BY <1>0 DEF FilesTabs
  <2>3. PICK g : g = AskListing(f, w, dirs, "refresh", poll)
    OBVIOUS
  <2>4. FilesOf(g, w)
    <3>1. Asked(f, w, dirs, "refresh", g)
      BY <2>1, <2>3, AskKeeps
    <3>. QED  BY <3>1 DEF Asked
  <2>. QED  BY <1>2, <2>2, <2>3, <2>4 DEF FilesRefresh
<1>. QED  BY <1>1, <1>2

\* Nothing of the workspace before is left.
LEMMA FilesLeft ==
    ASSUME NEW f, NEW v, FilesOf(f, v), NEW w
    PROVE  FilesOf(FilesReset(f), w)
<1>1. PICK e : e = ScheduleSearch(f, NoQuery)
  OBVIOUS
<1>2. e \in FilesTabs
  <2>1. FilesOf(e, v)
    BY <1>1, FilterKeeps
  <2>. QED  BY <2>1 DEF FilesOf
<1>3. PICK dead : dead = [i \in DOMAIN e.loads |-> [e.loads[i] EXCEPT !.live = FALSE]]
  OBVIOUS
<1>4. dead \in Seq(Loads) /\ \A i \in DOMAIN dead : dead[i].live = FALSE
  <2>1. e.loads \in Seq(Loads)
    BY <1>2 DEF FilesTabs
  <2>2. ASSUME NEW i \in DOMAIN e.loads
        PROVE  [e.loads[i] EXCEPT !.live = FALSE] \in Loads /\ [e.loads[i] EXCEPT !.live = FALSE].live = FALSE
    <3>1. e.loads[i] \in Loads
      BY <2>1
    <3>. QED  BY <3>1 DEF Loads
  <2>3. PICK n \in Nat : DOMAIN e.loads = 1 .. n
    BY <2>1
  <2>4. dead \in [1 .. n -> Loads] /\ \A i \in DOMAIN dead : dead[i].live = FALSE
    BY <1>3, <2>2, <2>3
  <2>5. dead \in Seq(Loads)
    BY ONLY <2>3, <2>4, ListIs
  <2>. QED  BY <2>4, <2>5
<1>5. PICK listed : listed = [d \in Dirs |-> Unlisted]
  OBVIOUS
<1>6. listed \in [Dirs -> Workspaces \cup {Unlisted, Nothing}] /\ \A d \in Dirs : listed[d] = Unlisted
  BY <1>5
<1>7. PICK g : g = FilesReset(f)
  OBVIOUS
<1>8. g = [e EXCEPT !.listed = listed, !.expanded = {}, !.spinning = {}, !.rows = {}, !.loads = dead]
  BY <1>1, <1>3, <1>5, <1>7 DEF FilesReset, NoFiles
<1>9. g \in FilesTabs /\ g.listed = listed /\ g.spinning = {} /\ g.rows = {} /\ g.loads = dead
  BY <1>2, <1>4, <1>6, <1>8 DEF FilesTabs
<1>. QED  BY <1>4, <1>6, <1>7, <1>9 DEF FilesOf

\* A click on a folder.
LEMMA FolderTurns ==
    ASSUME NEW f, NEW w \in Workspaces, FilesOf(f, w), NEW d \in Dirs
    PROVE  FilesOf(ToggleDir(f, w, d), w)
<1>0. f \in FilesTabs
  BY DEF FilesOf
<1>1. CASE d \in f.expanded
  <2>1. PICK g : g = [f EXCEPT !.expanded = f.expanded \ {d}]
    OBVIOUS
  <2>2. g \in FilesTabs /\ g.listed = f.listed /\ g.rows = f.rows /\ g.spinning = f.spinning /\ g.loads = f.loads
    BY <1>0, <2>1 DEF FilesTabs
  <2>3. FilesOf(g, w)
    BY <2>2 DEF FilesOf
  <2>. QED  BY <1>1, <2>1, <2>3, TreeIsOfIt DEF ToggleDir
<1>2. CASE d \notin f.expanded
  <2>1. PICK wide : wide = [f EXCEPT !.expanded = f.expanded \cup {d}]
    OBVIOUS
  <2>2. /\ wide \in FilesTabs /\ wide.listed = f.listed /\ wide.rows = f.rows /\ wide.spinning = f.spinning
        /\ wide.loads = f.loads
    BY <1>0, <2>1 DEF FilesTabs
  <2>3. FilesOf(wide, w)
    BY <2>2 DEF FilesOf
  <2>4. CASE f.listed[d] # Unlisted
    BY <1>2, <2>1, <2>3, <2>4, TreeIsOfIt DEF ToggleDir
  <2>5. CASE f.listed[d] = Unlisted
    <3>1. PICK spins : spins = [wide EXCEPT !.spinning = wide.spinning \cup {d}]
      OBVIOUS
    <3>2. PICK g : g = AskListing(RenderTree(spins), w, {d}, "toggle", FALSE)
      OBVIOUS
    <3>3. PICK h : h = AskListing(RenderTree(wide), w, {d}, "toggle", FALSE)
      OBVIOUS
    <3>4. /\ FilesOf(h, w) /\ h.spinning = RenderTree(wide).spinning
          /\ \E i \in DOMAIN h.loads : h.loads[i].kind = "toggle" /\ h.loads[i].want = {d}
      <4>1. PICK drawn : drawn = RenderTree(wide)
        OBVIOUS
      <4>2. PICK dirs \in SUBSET Dirs : dirs = {d}
        OBVIOUS
      <4>3. PICK kind \in {"toggle", "refresh"} : kind = "toggle"
        OBVIOUS
      <4>4. PICK poll \in BOOLEAN : poll = FALSE
        OBVIOUS
      <4>5. FilesOf(drawn, w)
        BY <2>3, <4>1, TreeIsOfIt
      <4>6. h = AskListing(drawn, w, dirs, kind, poll) /\ w \in Workspaces
        BY <3>3, <4>1, <4>2, <4>3, <4>4
      <4>7. Asked(drawn, w, dirs, kind, h)
        BY <4>5, <4>6, AskKeeps
      <4>. QED  BY <4>1, <4>2, <4>3, <4>7 DEF Asked
    <3>5. RenderTree(wide).spinning = f.spinning
      BY <2>2 DEF RenderTree, FilesTabs
    <3>6. g = [h EXCEPT !.spinning = f.spinning \cup {d}]
      <4>1. wide.spinning = f.spinning /\ FlattenTree(spins) = FlattenTree(wide)
        BY <2>2, <3>1 DEF FlattenTree, Drawn, FilesTabs
      <4>. QED  BY <2>2, <3>1, <3>2, <3>3, <4>1 DEF AskListing, RenderTree, FilesTabs
    <3>7. g \in FilesTabs /\ g.listed = h.listed /\ g.rows = h.rows /\ g.spinning = f.spinning \cup {d} /\ g.loads = h.loads
      <4>1. h \in FilesTabs
        BY <3>4 DEF FilesOf
      <4>. QED  BY <1>0, <3>6, <4>1 DEF FilesTabs
    <3>8. FilesOf(g, w)
      <4>1. ASSUME NEW e \in f.spinning \cup {d}
            PROVE  \E i \in DOMAIN h.loads : h.loads[i].kind = "toggle" /\ h.loads[i].want = {e}
        <5>1. CASE e = d
          BY <3>4, <5>1
        <5>2. CASE e \in f.spinning
          BY <3>4, <3>5, <5>2 DEF FilesOf
        <5>. QED  BY <5>1, <5>2
      <4>. QED  BY <3>4, <3>7, <4>1 DEF FilesOf
    <3>. QED  BY <1>2, <2>1, <2>5, <3>1, <3>2, <3>8 DEF ToggleDir
  <2>. QED  BY <2>4, <2>5
<1>. QED  BY <1>1, <1>2

\* A search is answered.
LEMMA HitsCome ==
    ASSUME NEW f, NEW w, FilesOf(f, w), NEW i \in DOMAIN f.searches, NEW ok \in BOOLEAN
    PROVE  FilesOf(SearchAnswers(f, i, ok), w)
<1>0. f \in FilesTabs /\ f.searches \in Seq(Searches)
  BY DEF FilesOf, FilesTabs
<1>1. PICK s \in Searches : s = f.searches[i]
  BY <1>0
<1>2. PICK rest \in Seq(Searches) : rest = RemoveAt(f.searches, i)
  BY ONLY <1>0, i \in DOMAIN f.searches, RemoveIs
<1>3. PICK hits \in [ws : Workspaces, query : Queries] \cup {None} :
          hits = IF ~ s.live THEN f.hits ELSE IF ok THEN [ws |-> s.ws, query |-> s.query] ELSE None
  BY <1>0 DEF FilesTabs, Searches
<1>4. PICK g : g = SearchAnswers(f, i, ok)
  OBVIOUS
<1>5. g = [f EXCEPT !.searches = rest, !.hits = hits]
  BY <1>1, <1>2, <1>3, <1>4 DEF SearchAnswers
<1>6. g \in FilesTabs /\ g.listed = f.listed /\ g.rows = f.rows /\ g.spinning = f.spinning /\ g.loads = f.loads
  BY <1>0, <1>5 DEF FilesTabs
<1>. QED  BY <1>4, <1>6 DEF FilesOf

\* g lists and waits for what f does.
SameWaits(f, g) == g.loads = f.loads /\ g.spinning = f.spinning

\* One folder of a request is answered.
LEMMA FolderHeard ==
    ASSUME NEW f, NEW w, FilesOf(f, w), NEW i \in DOMAIN f.loads, NEW d \in Dirs, NEW ok \in BOOLEAN
    PROVE  FilesOf(Listed(f, f.loads[i], d, ok), w) /\ SameWaits(f, Listed(f, f.loads[i], d, ok))
<1>0. f \in FilesTabs
  BY DEF FilesOf
<1>1. PICK r : r = f.loads[i]
  OBVIOUS
<1>2. r \in Loads /\ (r.live => r.ws = w)
  BY <1>0, <1>1 DEF FilesOf, FilesTabs
<1>3. PICK g : g = Listed(f, r, d, ok)
  OBVIOUS
<1>4. CASE g = f
  BY <1>1, <1>3, <1>4 DEF SameWaits
<1>5. CASE g = [f EXCEPT !.listed[d] = r.ws] /\ r.live
  <2>1. PICK l : l = [f.listed EXCEPT ![d] = r.ws]
    OBVIOUS
  <2>2. l \in [Dirs -> Workspaces \cup {Unlisted, Nothing}] /\ \A e \in Dirs : l[e] \in {Unlisted, Nothing, w}
    BY <1>0, <1>2, <1>5, <2>1 DEF FilesOf, FilesTabs, Loads
  <2>3. g = [f EXCEPT !.listed = l]
    BY <1>5, <2>1
  <2>4. g \in FilesTabs /\ g.listed = l /\ g.rows = f.rows /\ g.spinning = f.spinning /\ g.loads = f.loads
    BY <1>0, <2>2, <2>3 DEF FilesTabs
  <2>. QED  BY <1>1, <1>3, <2>2, <2>4 DEF FilesOf, SameWaits
<1>6. CASE g = [f EXCEPT !.listed[d] = Nothing]
  <2>1. PICK l : l = [f.listed EXCEPT ![d] = Nothing]
    OBVIOUS
  <2>2. l \in [Dirs -> Workspaces \cup {Unlisted, Nothing}] /\ \A e \in Dirs : l[e] \in {Unlisted, Nothing, w}
    BY <1>0, <2>1 DEF FilesOf, FilesTabs
  <2>3. g = [f EXCEPT !.listed = l]
    BY <1>6, <2>1
  <2>4. g \in FilesTabs /\ g.listed = l /\ g.rows = f.rows /\ g.spinning = f.spinning /\ g.loads = f.loads
    BY <1>0, <2>2, <2>3 DEF FilesTabs
  <2>. QED  BY <1>1, <1>3, <2>2, <2>4 DEF FilesOf, SameWaits
<1>7. CASE g = [f EXCEPT !.expanded = f.expanded \ {d}]
  <2>1. g \in FilesTabs /\ g.listed = f.listed /\ g.rows = f.rows /\ g.spinning = f.spinning /\ g.loads = f.loads
    BY <1>0, <1>7 DEF FilesTabs
  <2>. QED  BY <1>1, <1>3, <2>1 DEF FilesOf, SameWaits
<1>8. \/ g = f
      \/ g = [f EXCEPT !.listed[d] = r.ws] /\ r.live
      \/ g = [f EXCEPT !.listed[d] = Nothing]
      \/ g = [f EXCEPT !.expanded = f.expanded \ {d}]
  <2>1. CASE ~ r.live
    BY <1>3, <2>1 DEF Listed
  <2>2. CASE r.live /\ ok
    BY <1>3, <2>2 DEF Listed
  <2>3. CASE r.live /\ ~ ok /\ f.listed[d] # Unlisted
    BY <1>3, <2>3 DEF Listed
  <2>4. CASE r.live /\ ~ ok /\ f.listed[d] = Unlisted /\ d = Root
    BY <1>3, <2>4 DEF Listed
  <2>5. CASE r.live /\ ~ ok /\ f.listed[d] = Unlisted /\ d # Root
    BY <1>3, <2>5 DEF Listed
  <2>. QED  BY <2>1, <2>2, <2>3, <2>4, <2>5
<1>. QED  BY <1>4, <1>5, <1>6, <1>7, <1>8

\* A request leaves, with the spinner that stood for it.
LEMMA RequestGone ==
    ASSUME NEW f, NEW w, FilesOf(f, w), NEW i \in DOMAIN f.loads, NEW rest, rest = RemoveAt(f.loads, i),
           NEW spins, f.loads[i].kind = "toggle" => spins = f.spinning \ f.loads[i].want,
           f.loads[i].kind = "refresh" => spins = f.spinning
    PROVE  FilesOf([f EXCEPT !.loads = rest, !.spinning = spins], w)
<1>0. f \in FilesTabs /\ f.loads \in Seq(Loads)
  BY DEF FilesOf, FilesTabs
<1>1. rest \in Seq(Loads) /\ Shrunk(f.loads, i, rest)
  BY ONLY <1>0, i \in DOMAIN f.loads, rest = RemoveAt(f.loads, i), RemoveIs
<1>2. f.loads[i].kind \in {"toggle", "refresh"} /\ spins \subseteq f.spinning
  <2>1. f.loads[i] \in Loads
    BY <1>0
  <2>. QED  BY <2>1 DEF Loads
<1>3. PICK g : g = [f EXCEPT !.loads = rest, !.spinning = spins]
  OBVIOUS
<1>4. g \in FilesTabs /\ g.listed = f.listed /\ g.rows = f.rows /\ g.spinning = spins /\ g.loads = rest
  BY <1>0, <1>1, <1>2, <1>3 DEF FilesTabs
<1>5. ASSUME NEW j \in DOMAIN rest, rest[j].live
      PROVE  rest[j].ws = w
  <2>1. PICK k \in DOMAIN f.loads : rest[j] = f.loads[k]
    BY <1>1 DEF Shrunk
  <2>. QED  BY <1>5, <2>1 DEF FilesOf
<1>6. ASSUME NEW e \in spins
      PROVE  \E j \in DOMAIN rest : rest[j].kind = "toggle" /\ rest[j].want = {e}
  <2>1. PICK k \in DOMAIN f.loads : f.loads[k].kind = "toggle" /\ f.loads[k].want = {e}
    BY <1>2 DEF FilesOf
  <2>2. k # i
    BY <1>2, <2>1
  <2>3. PICK j \in DOMAIN rest : rest[j] = f.loads[k]
    BY <1>1, <2>2 DEF Shrunk
  <2>. QED  BY <2>1, <2>3
<1>7. FilesOf(g, w)
  BY <1>4, <1>5, <1>6 DEF FilesOf
<1>. QED  BY <1>3, <1>7

\* A listing is answered.
LEMMA ListingCome ==
    ASSUME NEW f, NEW w, FilesOf(f, w), NEW i \in DOMAIN f.loads, NEW d \in f.loads[i].want, NEW ok \in BOOLEAN
    PROVE  FilesOf(ListingAnswers(f, i, d, ok), w)
<1>0. f \in FilesTabs /\ f.loads \in Seq(Loads)
  BY DEF FilesOf, FilesTabs
<1>1. PICK r \in Loads : r = f.loads[i]
  BY <1>0
<1>2. d \in Dirs
  BY <1>0, <1>1 DEF Loads
<1>3. PICK f1 : f1 = Listed(f, r, d, ok)
  OBVIOUS
<1>4. FilesOf(f1, w) /\ f1.loads = f.loads /\ f1.spinning = f.spinning
  BY <1>1, <1>2, <1>3, FolderHeard DEF SameWaits
<1>5. i \in DOMAIN f1.loads /\ f1.loads[i] = r
  BY <1>1, <1>4
<1>6. PICK rest : rest = RemoveAt(f1.loads, i)
  OBVIOUS
<1>7. PICK h : h = [f1 EXCEPT !.loads = rest]
  OBVIOUS
<1>8. PICK g : g = ListingAnswers(f, i, d, ok)
  OBVIOUS
<1>t. f1 \in FilesTabs
  BY <1>4 DEF FilesOf
<1>9. CASE r.want = {d} \/ r.kind = "toggle"
  <2>1. g = ListingEnds(h, r)
    BY <1>1, <1>3, <1>4, <1>6, <1>7, <1>8, <1>9 DEF ListingAnswers
  <2>2. CASE r.kind = "toggle"
    <3>1. PICK spins : spins = f1.spinning \ r.want
      OBVIOUS
    <3>2. PICK e : e = [f1 EXCEPT !.loads = rest, !.spinning = spins]
      OBVIOUS
    <3>3. FilesOf(e, w)
      BY <1>4, <1>5, <1>6, <2>2, <3>1, <3>2, RequestGone
    <3>4. e = [h EXCEPT !.spinning = h.spinning \ r.want]
      BY <1>t, <1>7, <3>1, <3>2 DEF FilesTabs
    <3>5. g = RenderTree(e)
      BY <2>1, <2>2, <3>4 DEF ListingEnds
    <3>. QED  BY <1>8, <3>3, <3>5, TreeIsOfIt
  <2>3. CASE r.kind = "refresh"
    <3>1. PICK spins : spins = f1.spinning
      OBVIOUS
    <3>2. PICK e : e = [f1 EXCEPT !.loads = rest, !.spinning = spins]
      OBVIOUS
    <3>3. FilesOf(e, w)
      BY <1>4, <1>5, <1>6, <2>3, <3>1, <3>2, RequestGone
    <3>4. e = h
      BY <1>t, <1>7, <3>1, <3>2 DEF FilesTabs
    <3>5. FilesOf(h, w)
      BY <3>3, <3>4
    <3>6. CASE ~ r.live
      BY <1>8, <2>1, <2>3, <3>5, <3>6 DEF ListingEnds
    <3>7. CASE r.live
      <4>1. PICK drawn : drawn = RenderTree(h)
        OBVIOUS
      <4>2. FilesOf(drawn, w)
        BY <3>5, <4>1, TreeIsOfIt
      <4>3. PICK ws \in Places : ws = r.ws
        BY <1>1 DEF Loads, Places
      <4>4. FilesOf(RunSearch(drawn, ws), w)
        BY <4>2, SearchKeeps
      <4>5. g = drawn \/ g = RunSearch(drawn, ws)
        BY <2>1, <2>3, <3>7, <4>1, <4>3 DEF ListingEnds
      <4>. QED  BY <1>8, <4>2, <4>4, <4>5
    <3>. QED  BY <3>6, <3>7
  <2>. QED  BY <1>1, <2>2, <2>3 DEF Loads
<1>10. CASE ~ (r.want = {d} \/ r.kind = "toggle")
  <2>1. PICK less : less = [r EXCEPT !.want = r.want \ {d}]
    OBVIOUS
  <2>2. less \in Loads /\ less.ws = r.ws /\ less.live = r.live /\ less.kind = "refresh" /\ r.kind = "refresh"
    BY <1>1, <1>10, <2>1 DEF Loads
  <2>3. PICK all : all = [f1.loads EXCEPT ![i] = less]
    OBVIOUS
  <2>4. /\ all \in Seq(Loads) /\ DOMAIN all = DOMAIN f1.loads /\ all[i] = less
        /\ \A k \in DOMAIN f1.loads \ {i} : all[k] = f1.loads[k]
    BY <1>0, <1>4, <1>5, <2>2, <2>3
  <2>5. g = [f1 EXCEPT !.loads = all]
    <3>1. g = [f1 EXCEPT !.loads[i].want = f1.loads[i].want \ {d}]
      BY <1>1, <1>3, <1>4, <1>8, <1>10 DEF ListingAnswers
    <3>2. all = [f1.loads EXCEPT ![i].want = f1.loads[i].want \ {d}]
      BY <1>5, <2>1, <2>3
    <3>. QED  BY <1>t, <3>1, <3>2
  <2>6. g \in FilesTabs /\ g.listed = f1.listed /\ g.rows = f1.rows /\ g.spinning = f1.spinning /\ g.loads = all
    BY <1>t, <2>4, <2>5 DEF FilesTabs
  <2>7. ASSUME NEW j \in DOMAIN all, all[j].live
        PROVE  all[j].ws = w
    BY <1>4, <1>5, <2>2, <2>4, <2>7 DEF FilesOf
  <2>8. ASSUME NEW e \in f1.spinning
        PROVE  \E j \in DOMAIN all : all[j].kind = "toggle" /\ all[j].want = {e}
    <3>1. PICK k \in DOMAIN f1.loads : f1.loads[k].kind = "toggle" /\ f1.loads[k].want = {e}
      BY <1>4 DEF FilesOf
    <3>2. k # i
      BY <1>5, <2>2, <3>1
    <3>. QED  BY <2>4, <3>1, <3>2
  <2>. QED  BY <1>4, <1>8, <2>6, <2>7, <2>8 DEF FilesOf
<1>. QED  BY <1>9, <1>10

-----------------------------------------------------------------------------
(* The Changes tab: what it asks and hears. *)

Held(c, w, kept) == ChangesOf(c, w) /\ Kept(c, kept)
SameWork(c, g) == g.works = c.works /\ g.jobs = c.jobs
ChangeAsks == [ws : Workspaces, seen : Repositories, poll : BOOLEAN, live : BOOLEAN]

\* The parts of what the Changes tab keeps.
LEMMA ChangesParts ==
    ASSUME NEW c \in ChangesTabs
    PROVE  /\ c.asks \in Seq(ChangeAsks) /\ c.works \in Seq(Works) /\ c.draftFor \in Places
           /\ c.message \in Messages \cup {Blank} /\ c.drafts \in [Workspaces -> Messages \cup {Blank}]
           /\ c.running \in [Workspaces -> Actions \cup {None}] /\ c.jobs \in [Workspaces -> Jobs \cup {None}]
           /\ c.said \in [Workspaces -> [fix : BOOLEAN] \cup {None}]
           /\ c.data \in [ws : Workspaces, repo : Repositories] \cup {None}
BY DEF ChangesTabs, ChangeAsks, Places

\* The draft comes back with its workspace.
LEMMA DraftTaken ==
    ASSUME NEW c, NEW w \in Places, NEW kept, Held(c, w, kept)
    PROVE  /\ Held(TakeDraft(c, w), w, kept) /\ SameWork(c, TakeDraft(c, w))
           /\ TakeDraft(c, w).draftFor = w
<1>0. c \in ChangesTabs
  BY DEF Held, ChangesOf
<1>1. CASE w = c.draftFor
  BY <1>1 DEF TakeDraft, SameWork
<1>2. CASE w # c.draftFor
  <2>1. c.draftFor = None /\ w \in Workspaces
    BY <1>0, <1>2 DEF Held, ChangesOf, Places
  <2>2. PICK g : g = TakeDraft(c, w)
    OBVIOUS
  <2>3. PICK m \in Messages \cup {Blank} : m = c.drafts[w]
    BY <1>0, <2>1, ChangesParts
  <2>4. w # None
    BY <2>1, PanelAssumption
  <2>5. g = [c EXCEPT !.draftFor = w, !.message = m]
    BY <1>2, <2>2, <2>3, <2>4 DEF TakeDraft
  <2>6. /\ g \in ChangesTabs /\ g.draftFor = w /\ g.message = m /\ g.drafts = c.drafts /\ g.asks = c.asks
        /\ g.data = c.data /\ g.running = c.running /\ g.jobs = c.jobs /\ g.works = c.works
    BY <1>0, <2>1, <2>3, <2>5 DEF ChangesTabs
  <2>7. ChangesOf(g, w)
    BY <2>4, <2>6 DEF Held, ChangesOf
  <2>8. Kept(g, kept)
    <3>1. SUFFICES ASSUME NEW v \in Workspaces
                   PROVE  kept[v] = IF g.draftFor = v THEN g.message ELSE g.drafts[v]
      BY DEF Kept
    <3>2. v # None /\ kept[v] = IF c.draftFor = v THEN c.message ELSE c.drafts[v]
      BY PanelAssumption DEF Held, Kept
    <3>. QED  BY <2>1, <2>3, <2>6, <3>2
  <2>. QED  BY <2>2, <2>6, <2>7, <2>8 DEF Held, SameWork
<1>. QED  BY <1>1, <1>2

\* The tab asks git again, or has nothing to ask.
LEMMA ChangesRefreshed ==
    ASSUME NEW c, NEW w \in Places, NEW kept, Held(c, w, kept), NEW r \in [Workspaces -> Repositories], NEW poll \in BOOLEAN
    PROVE  Held(ChangesRefresh(c, w, r, poll), w, kept) /\ SameWork(c, ChangesRefresh(c, w, r, poll))
<1>1. PICK b : b = TakeDraft(c, w)
  OBVIOUS
<1>2. Held(b, w, kept) /\ SameWork(c, b) /\ b.draftFor = w
  BY <1>1, DraftTaken
<1>3. b \in ChangesTabs
  BY <1>2 DEF Held, ChangesOf
<1>4. PICK g : g = ChangesRefresh(c, w, r, poll)
  OBVIOUS
<1>5. CASE w = None
  <2>1. g = [b EXCEPT !.data = None]
    BY <1>1, <1>4, <1>5 DEF ChangesRefresh
  <2>2. /\ g \in ChangesTabs /\ g.draftFor = b.draftFor /\ g.message = b.message /\ g.drafts = b.drafts /\ g.asks = b.asks
        /\ g.data = None /\ g.running = b.running /\ g.jobs = b.jobs /\ g.works = b.works
    BY <1>3, <2>1 DEF ChangesTabs
  <2>3. ChangesOf(g, w) /\ Kept(g, kept)
    BY <1>2, <2>2 DEF Held, ChangesOf, Kept
  <2>. QED  BY <1>2, <1>4, <2>2, <2>3 DEF Held, SameWork
<1>6. CASE w # None
  <2>1. PICK a : a = [ws |-> w, seen |-> r[w], poll |-> poll, live |-> TRUE]
    OBVIOUS
  <2>2. a \in ChangeAsks /\ a.ws = w
    BY <1>6, <2>1 DEF ChangeAsks, Places
  <2>3. PICK all : all = Append(b.asks, a)
    OBVIOUS
  <2>4. b.asks \in Seq(ChangeAsks)
    BY <1>3, ChangesParts
  <2>5. all \in Seq(ChangeAsks) /\ Grown(b.asks, a, all)
    BY ONLY <2>2, <2>3, <2>4, AppendIs
  <2>6. g = [b EXCEPT !.asks = all]
    BY <1>1, <1>4, <1>6, <2>1, <2>3 DEF ChangesRefresh
  <2>7. /\ g \in ChangesTabs /\ g.draftFor = b.draftFor /\ g.message = b.message /\ g.drafts = b.drafts /\ g.asks = all
        /\ g.data = b.data /\ g.running = b.running /\ g.jobs = b.jobs /\ g.works = b.works
    BY <1>3, <2>5, <2>6 DEF ChangesTabs, ChangeAsks
  <2>8. ASSUME NEW i \in DOMAIN all, all[i].live
        PROVE  all[i].ws = w
    <3>1. all[i] = a \/ \E k \in DOMAIN b.asks : all[i] = b.asks[k]
      BY <2>5 DEF Grown
    <3>2. \A k \in DOMAIN b.asks : b.asks[k].live => b.asks[k].ws = w
      BY <1>2 DEF Held, ChangesOf
    <3>. QED  BY <2>2, <2>8, <3>1, <3>2
  <2>9. ChangesOf(g, w) /\ Kept(g, kept)
    BY <1>2, <2>7, <2>8 DEF Held, ChangesOf, Kept
  <2>. QED  BY <1>2, <1>4, <2>7, <2>9 DEF Held, SameWork
<1>. QED  BY <1>5, <1>6

\* The panel leaves: the draft is put away, the requests in flight are dead.
LEMMA ChangesLeft ==
    ASSUME NEW c, NEW v, NEW kept, Held(c, v, kept), NEW w
    PROVE  Held(ChangesReset(c), w, kept) /\ SameWork(c, ChangesReset(c))
<1>0. c \in ChangesTabs
  BY DEF Held, ChangesOf
<1>1. PICK dead : dead = [i \in DOMAIN c.asks |-> [c.asks[i] EXCEPT !.live = FALSE]]
  OBVIOUS
<1>2. dead \in Seq(ChangeAsks) /\ \A i \in DOMAIN dead : dead[i].live = FALSE
  <2>1. c.asks \in Seq(ChangeAsks)
    BY <1>0, ChangesParts
  <2>2. ASSUME NEW i \in DOMAIN c.asks
        PROVE  [c.asks[i] EXCEPT !.live = FALSE] \in ChangeAsks /\ [c.asks[i] EXCEPT !.live = FALSE].live = FALSE
    <3>1. c.asks[i] \in ChangeAsks
      BY <2>1
    <3>. QED  BY <3>1 DEF ChangeAsks
  <2>3. PICK n \in Nat : DOMAIN c.asks = 1 .. n
    BY <2>1
  <2>4. dead \in [1 .. n -> ChangeAsks] /\ \A i \in DOMAIN dead : dead[i].live = FALSE
    BY <1>1, <2>2, <2>3
  <2>5. dead \in Seq(ChangeAsks)
    BY ONLY <2>3, <2>4, ListIs
  <2>. QED  BY <2>4, <2>5
<1>3. PICK drafts : drafts = IF c.draftFor = None THEN c.drafts ELSE [c.drafts EXCEPT ![c.draftFor] = c.message]
  OBVIOUS
<1>4. drafts \in [Workspaces -> Messages \cup {Blank}] /\ \A u \in Workspaces : drafts[u] = kept[u]
  <2>1. c.drafts \in [Workspaces -> Messages \cup {Blank}] /\ c.message \in Messages \cup {Blank} /\ c.draftFor \in Places
    BY <1>0, ChangesParts
  <2>2. \A u \in Workspaces : u # None /\ kept[u] = IF c.draftFor = u THEN c.message ELSE c.drafts[u]
    BY PanelAssumption DEF Held, Kept
  <2>. QED  BY <1>3, <2>1, <2>2 DEF Places
<1>5. PICK g : g = ChangesReset(c)
  OBVIOUS
<1>6. g = [c EXCEPT !.data = None, !.draftFor = None, !.message = Blank, !.drafts = drafts, !.asks = dead]
  BY <1>1, <1>3, <1>5 DEF ChangesReset
<1>7. /\ g \in ChangesTabs /\ g.draftFor = None /\ g.message = Blank /\ g.drafts = drafts /\ g.asks = dead
      /\ g.data = None /\ g.running = c.running /\ g.jobs = c.jobs /\ g.works = c.works
  BY <1>0, <1>2, <1>4, <1>6 DEF ChangesTabs, ChangeAsks
<1>8. ChangesOf(g, w)
  BY <1>2, <1>7 DEF Held, ChangesOf
<1>9. Kept(g, kept)
  BY <1>4, <1>7, PanelAssumption DEF Kept
<1>. QED  BY <1>5, <1>7, <1>8, <1>9 DEF Held, SameWork

\* git answers.
LEMMA ChangesCome ==
    ASSUME NEW c, NEW w \in Places, NEW kept, Held(c, w, kept), NEW i \in DOMAIN c.asks,
           NEW r \in [Workspaces -> Repositories], NEW how \in {"asked", "now", "fails", "no repository"}
    PROVE  Held(ChangesAnswer(c, i, r, how), w, kept) /\ SameWork(c, ChangesAnswer(c, i, r, how))
<1>0. c \in ChangesTabs
  BY DEF Held, ChangesOf
<1>1. c.asks \in Seq(ChangeAsks)
  BY <1>0, ChangesParts
<1>2. PICK a \in ChangeAsks : a = c.asks[i]
  <2>1. c.asks[i] \in ChangeAsks
    BY <1>1, ElementIs
  <2>. QED  BY <2>1
<1>3. a.live => a.ws = w /\ c.draftFor = w
  BY <1>2 DEF Held, ChangesOf
<1>4. PICK rest : rest = RemoveAt(c.asks, i)
  OBVIOUS
<1>5. rest \in Seq(ChangeAsks) /\ Shrunk(c.asks, i, rest)
  BY ONLY <1>1, <1>4, i \in DOMAIN c.asks, RemoveIs
<1>6. PICK h : h = [c EXCEPT !.asks = rest]
  OBVIOUS
<1>7. /\ h \in ChangesTabs /\ h.draftFor = c.draftFor /\ h.message = c.message /\ h.drafts = c.drafts /\ h.asks = rest
      /\ h.data = c.data /\ h.running = c.running /\ h.jobs = c.jobs /\ h.works = c.works
  BY <1>0, <1>5, <1>6 DEF ChangesTabs, ChangeAsks
<1>8. ASSUME NEW j \in DOMAIN rest, rest[j].live
      PROVE  rest[j].ws = w /\ c.draftFor = w
  <2>1. PICK k \in DOMAIN c.asks : rest[j] = c.asks[k]
    BY <1>5 DEF Shrunk
  <2>. QED  BY <1>8, <2>1 DEF Held, ChangesOf
<1>9. ChangesOf(h, w) /\ Kept(h, kept)
  BY <1>7, <1>8 DEF Held, ChangesOf, Kept
<1>10. PICK g : g = ChangesAnswer(c, i, r, how)
  OBVIOUS
<1>11. CASE g = h
  BY <1>7, <1>9, <1>10, <1>11 DEF Held, SameWork
<1>12. CASE g # h
  <2>1. PICK data : data = g.data
    OBVIOUS
  <2>2. g = [h EXCEPT !.data = data] /\ a.live /\ (data = None \/ data = [ws |-> a.ws, repo |-> a.seen] \/ data = [ws |-> a.ws, repo |-> r[a.ws]])
    <3>1. a.live
      BY <1>2, <1>4, <1>6, <1>10, <1>12 DEF ChangesAnswer
    <3>2. CASE how = "asked"
      <4>1. g = [h EXCEPT !.data = [ws |-> a.ws, repo |-> a.seen]]
        BY <1>2, <1>4, <1>6, <1>10, <3>1, <3>2 DEF ChangesAnswer
      <4>. QED  BY <1>7, <2>1, <3>1, <4>1 DEF ChangesTabs
    <3>3. CASE how = "now"
      <4>1. g = [h EXCEPT !.data = [ws |-> a.ws, repo |-> r[a.ws]]]
        BY <1>2, <1>4, <1>6, <1>10, <3>1, <3>3 DEF ChangesAnswer
      <4>. QED  BY <1>7, <2>1, <3>1, <4>1 DEF ChangesTabs
    <3>4. CASE how = "fails"
      BY <1>2, <1>4, <1>6, <1>10, <1>12, <3>1, <3>4 DEF ChangesAnswer
    <3>5. CASE how = "no repository"
      <4>1. g = [h EXCEPT !.data = None]
        BY <1>2, <1>4, <1>6, <1>10, <3>1, <3>5 DEF ChangesAnswer
      <4>. QED  BY <1>7, <2>1, <3>1, <4>1 DEF ChangesTabs
    <3>. QED  BY <3>2, <3>3, <3>4, <3>5
  <2>3. data \in [ws : Workspaces, repo : Repositories] \cup {None} /\ (data # None => data.ws = w)
    <3>1. /\ a.ws = w
          /\ a.ws \in Workspaces /\ a.seen \in Repositories /\ r[a.ws] \in Repositories
      BY <1>2, <1>3, <2>2 DEF ChangeAsks
    <3>2. CASE data = None
      BY <3>2
    <3>3. CASE data = [ws |-> a.ws, repo |-> a.seen]
      BY <3>1, <3>3
    <3>4. CASE data = [ws |-> a.ws, repo |-> r[a.ws]]
      BY <3>1, <3>4
    <3>. QED  BY <2>2, <3>2, <3>3, <3>4
  <2>4. /\ g \in ChangesTabs /\ g.draftFor = h.draftFor /\ g.message = h.message /\ g.drafts = h.drafts /\ g.asks = h.asks
        /\ g.data = data /\ g.running = h.running /\ g.jobs = h.jobs /\ g.works = h.works
    BY <1>7, <2>2, <2>3 DEF ChangesTabs
  <2>5. ChangesOf(g, w) /\ Kept(g, kept)
    <3>1. c.draftFor = w
      BY <1>3, <2>2
    <3>2. ChangesOf(g, w)
      BY <1>7, <1>9, <2>3, <2>4, <3>1 DEF ChangesOf
    <3>3. Kept(g, kept)
      BY <1>9, <2>4 DEF Kept
    <3>. QED  BY <3>2, <3>3
  <2>. QED  BY <1>7, <1>10, <2>4, <2>5 DEF Held, SameWork
<1>. QED  BY <1>11, <1>12

-----------------------------------------------------------------------------
(* The Changes tab: what git is asked for. *)

Steps == Seq(Actions \ {"commit-push"}) \ {<<>>}

\* The steps of an action are what git can be asked for, one at least.
LEMMA StepsAre ==
    ASSUME NEW action \in Actions, NEW upstream
    PROVE  GitSteps(action, upstream) \in Steps
<1>1. PICK push \in Actions \ {"commit-push"} : push = IF upstream THEN "push" ELSE "publish"
  BY DEF Actions
<1>2. \A a, b \in Actions \ {"commit-push"} : <<a>> \in Steps /\ <<a, b>> \in Steps
  BY DEF Steps
<1>3. CASE action = "commit-push"
  <2>1. GitSteps(action, upstream) = <<"commit", push>>
    BY <1>1, <1>3 DEF GitSteps
  <2>. QED  BY <1>2, <2>1 DEF Actions
<1>4. CASE action = "push"
  <2>1. GitSteps(action, upstream) = <<push>>
    BY <1>1, <1>4 DEF GitSteps
  <2>. QED  BY <1>2, <2>1
<1>5. CASE action \notin {"push", "commit-push"}
  <2>1. GitSteps(action, upstream) = <<action>>
    BY <1>5 DEF GitSteps
  <2>. QED  BY <1>2, <1>5, <2>1
<1>. QED  BY <1>3, <1>4, <1>5

\* g runs what c runs, and perhaps an action of v.
Started(c, v, g) ==
    /\ g.works = c.works
    /\ \A u \in Workspaces : c.jobs[u] # None => g.jobs[u] # None
    /\ v # None => g.jobs[v] # None

\* A git action starts.
LEMMA ActionStarts ==
    ASSUME NEW c, NEW w \in Places, NEW kept, Held(c, w, kept), NEW action \in Actions, NEW asked \in BOOLEAN
    PROVE  Held(GitStarts(c, w, action, asked), w, kept) /\ Started(c, w, GitStarts(c, w, action, asked))
<1>0. c \in ChangesTabs
  BY DEF Held, ChangesOf
<1>1. PICK g : g = GitStarts(c, w, action, asked)
  OBVIOUS
<1>2. CASE w = None \/ c.running[w] # None
  <2>1. g = c
    BY <1>1, <1>2 DEF GitStarts
  <2>2. w # None => c.jobs[w] # None
    BY <1>2 DEF Held, ChangesOf, Places
  <2>. QED  BY <1>1, <2>1, <2>2 DEF Started
<1>3. CASE ~ (w = None \/ c.running[w] # None)
  <2>1. w \in Workspaces
    BY <1>3 DEF Places
  <2>2. PICK job : job = [steps |-> GitSteps(action, c.data # None /\ c.data.repo.upstream), text |-> c.message, asked |-> asked]
    OBVIOUS
  <2>3. job \in Jobs /\ job # None
    <3>1. PICK steps \in Steps : steps = GitSteps(action, c.data # None /\ c.data.repo.upstream)
      BY StepsAre
    <3>2. job = [steps |-> steps, text |-> c.message, asked |-> asked]
      BY <2>2, <3>1
    <3>3. c.message \in Messages \cup {Blank}
      BY <1>0, ChangesParts
    <3>4. job \in Jobs
      BY <3>1, <3>2, <3>3 DEF Jobs, Steps
    <3>. QED  BY <3>4, NoneIsNothing
  <2>4. PICK jobs : jobs = [c.jobs EXCEPT ![w] = job]
    OBVIOUS
  <2>5. PICK running : running = [c.running EXCEPT ![w] = action]
    OBVIOUS
  <2>6. PICK said : said = [c.said EXCEPT ![w] = None]
    OBVIOUS
  <2>7. /\ jobs \in [Workspaces -> Jobs \cup {None}] /\ jobs[w] = job
        /\ running \in [Workspaces -> Actions \cup {None}] /\ running[w] = action
        /\ \A u \in Workspaces \ {w} : jobs[u] = c.jobs[u] /\ running[u] = c.running[u]
        /\ said \in [Workspaces -> [fix : BOOLEAN] \cup {None}]
    BY <1>0, <2>1, <2>3, <2>4, <2>5, <2>6, ChangesParts
  <2>8. g = [c EXCEPT !.running = running, !.said = said, !.jobs = jobs]
    BY <1>1, <1>3, <2>2, <2>4, <2>5, <2>6 DEF GitStarts
  <2>9. /\ g \in ChangesTabs /\ g.draftFor = c.draftFor /\ g.message = c.message /\ g.drafts = c.drafts /\ g.asks = c.asks
        /\ g.data = c.data /\ g.running = running /\ g.jobs = jobs /\ g.works = c.works
    BY <1>0, <2>7, <2>8 DEF ChangesTabs
  <2>10. action # None
    BY NoneIsNothing
  <2>11. ASSUME NEW u \in Workspaces
         PROVE  running[u] # None <=> jobs[u] # None
    <3>1. c.running[u] # None <=> c.jobs[u] # None
      BY DEF Held, ChangesOf
    <3>. QED  BY <2>3, <2>7, <2>10, <3>1
  <2>12. ChangesOf(g, w) /\ Kept(g, kept)
    BY <2>9, <2>11 DEF Held, ChangesOf, Kept
  <2>13. Started(c, w, g)
    BY <2>3, <2>7, <2>9 DEF Started
  <2>. QED  BY <1>1, <2>12, <2>13 DEF Held
<1>. QED  BY <1>2, <1>3

\* g has what c has in the tab, with other notes said.
LEMMA OnlySaid ==
    ASSUME NEW c, NEW w, NEW kept, Held(c, w, kept), NEW said \in [Workspaces -> [fix : BOOLEAN] \cup {None}]
    PROVE  Held([c EXCEPT !.said = said], w, kept) /\ SameWork(c, [c EXCEPT !.said = said])
<1>0. c \in ChangesTabs
  BY DEF Held, ChangesOf
<1>1. PICK g : g = [c EXCEPT !.said = said]
  OBVIOUS
<1>2. /\ g \in ChangesTabs /\ g.draftFor = c.draftFor /\ g.message = c.message /\ g.drafts = c.drafts /\ g.asks = c.asks
      /\ g.data = c.data /\ g.running = c.running /\ g.jobs = c.jobs /\ g.works = c.works
  BY <1>0, <1>1 DEF ChangesTabs
<1>. QED  BY <1>1, <1>2 DEF Held, ChangesOf, Kept, SameWork

\* A typed message goes on screen, or is gone from it.
LEMMA MessageTyped ==
    ASSUME NEW c, NEW w \in Workspaces, NEW kept \in [Workspaces -> Messages \cup {Blank}], Held(c, w, kept),
           c.draftFor = w, NEW m \in Messages \cup {Blank}
    PROVE  Held([c EXCEPT !.message = m], w, [kept EXCEPT ![w] = m]) /\ SameWork(c, [c EXCEPT !.message = m])
<1>0. c \in ChangesTabs
  BY DEF Held, ChangesOf
<1>1. PICK g : g = [c EXCEPT !.message = m]
  OBVIOUS
<1>2. /\ g \in ChangesTabs /\ g.draftFor = c.draftFor /\ g.message = m /\ g.drafts = c.drafts /\ g.asks = c.asks
      /\ g.data = c.data /\ g.running = c.running /\ g.jobs = c.jobs /\ g.works = c.works
  BY <1>0, <1>1 DEF ChangesTabs
<1>3. ChangesOf(g, w)
  BY <1>2, PanelAssumption DEF Held, ChangesOf
<1>4. Kept(g, [kept EXCEPT ![w] = m])
  BY <1>2 DEF Held, Kept
<1>. QED  BY <1>1, <1>2, <1>3, <1>4 DEF Held, SameWork

\* What is left of what was typed once a step of v has ended.
TypedAfter(c, w, v, how, kept) ==
    IF /\ how = "ok" /\ Head(c.jobs[v].steps) \in {"commit", "amend"} /\ v = w
       /\ c.message = c.jobs[v].text /\ c.message # Blank
    THEN [kept EXCEPT ![v] = Blank] ELSE kept

\* A commit takes the message it was started with, and no other.
LEMMA CommitTakes ==
    ASSUME NEW c, NEW w \in Places, NEW kept \in [Workspaces -> Messages \cup {Blank}], Held(c, w, kept),
           NEW v \in Workspaces, NEW how, how = "ok", Head(c.jobs[v].steps) \in {"commit", "amend"}
    PROVE  Held(Committed(c, v, w), w, TypedAfter(c, w, v, how, kept)) /\ SameWork(c, Committed(c, v, w))
<1>0. c \in ChangesTabs
  BY DEF Held, ChangesOf
<1>1. CASE v = w /\ c.message = c.jobs[v].text /\ c.message # Blank
  <2>1. c.draftFor = w
    BY <1>0, <1>1 DEF Held, ChangesOf
  <2>2. Committed(c, v, w) = [c EXCEPT !.message = Blank]
    BY <1>1 DEF Committed
  <2>3. TypedAfter(c, w, v, how, kept) = [kept EXCEPT ![w] = Blank]
    BY <1>1 DEF TypedAfter
  <2>4. w \in Workspaces
    BY <1>1
  <2>. QED  BY <2>1, <2>2, <2>3, <2>4, MessageTyped
<1>2. CASE ~ (v = w /\ c.message = c.jobs[v].text /\ c.message # Blank)
  <2>1. TypedAfter(c, w, v, how, kept) = kept
    BY <1>2 DEF TypedAfter
  <2>2. Committed(c, v, w) = c
    <3>1. CASE v = w /\ c.message = c.jobs[v].text
      <4>1. c.message = Blank
        BY <1>2, <3>1
      <4>2. c = [c EXCEPT !.message = Blank]
        BY <1>0, <4>1 DEF ChangesTabs
      <4>. QED  BY <3>1, <4>2 DEF Committed
    <3>2. CASE ~ (v = w /\ c.message = c.jobs[v].text)
      BY <3>2 DEF Committed
    <3>. QED  BY <3>1, <3>2
  <2>. QED  BY <2>1, <2>2 DEF SameWork
<1>. QED  BY <1>1, <1>2

\* The job of v is over.
LEMMA JobEnds ==
    ASSUME NEW c, NEW w \in Places, NEW kept, Held(c, w, kept), NEW v \in Workspaces, NEW r \in [Workspaces -> Repositories]
    PROVE  /\ Held(GitFinishes(c, v, w, r), w, kept)
           /\ GitFinishes(c, v, w, r).works = c.works
           /\ \A u \in Workspaces \ {v} : GitFinishes(c, v, w, r).jobs[u] = c.jobs[u]
<1>0. c \in ChangesTabs
  BY DEF Held, ChangesOf
<1>1. PICK jobs : jobs = [c.jobs EXCEPT ![v] = None]
  OBVIOUS
<1>2. PICK running : running = [c.running EXCEPT ![v] = None]
  OBVIOUS
<1>3. /\ jobs \in [Workspaces -> Jobs \cup {None}] /\ jobs[v] = None
      /\ running \in [Workspaces -> Actions \cup {None}] /\ running[v] = None
      /\ \A u \in Workspaces \ {v} : jobs[u] = c.jobs[u] /\ running[u] = c.running[u]
  BY <1>0, <1>1, <1>2, ChangesParts
<1>4. PICK g : g = [c EXCEPT !.running = running, !.jobs = jobs]
  OBVIOUS
<1>5. /\ g \in ChangesTabs /\ g.draftFor = c.draftFor /\ g.message = c.message /\ g.drafts = c.drafts /\ g.asks = c.asks
      /\ g.data = c.data /\ g.running = running /\ g.jobs = jobs /\ g.works = c.works
  BY <1>0, <1>3, <1>4 DEF ChangesTabs
<1>6. ASSUME NEW u \in Workspaces
      PROVE  running[u] # None <=> jobs[u] # None
  <2>1. c.running[u] # None <=> c.jobs[u] # None
    BY DEF Held, ChangesOf
  <2>. QED  BY <1>3, <2>1
<1>7. Held(g, w, kept)
  BY <1>5, <1>6 DEF Held, ChangesOf, Kept
<1>8. GitFinishes(c, v, w, r) = IF v = w THEN ChangesRefresh(g, v, r, FALSE) ELSE g
  BY <1>1, <1>2, <1>4 DEF GitFinishes
<1>9. Held(ChangesRefresh(g, w, r, FALSE), w, kept) /\ SameWork(g, ChangesRefresh(g, w, r, FALSE))
  BY <1>7, ChangesRefreshed
<1>10. CASE v = w
  <2>1. PICK h : h = ChangesRefresh(g, w, r, FALSE)
    OBVIOUS
  <2>2. GitFinishes(c, v, w, r) = h
    BY <1>8, <1>10, <2>1
  <2>3. Held(h, w, kept) /\ h.works = c.works /\ h.jobs = jobs
    BY <1>5, <1>9, <2>1 DEF SameWork
  <2>. QED  BY <1>3, <2>2, <2>3
<1>11. CASE v # w
  <2>1. GitFinishes(c, v, w, r) = g
    BY <1>8, <1>11
  <2>. QED  BY <1>3, <1>5, <1>7, <2>1
<1>. QED  BY <1>10, <1>11

\* A step of the action of v is answered: the last one ends it.
LEMMA StepEnds ==
    ASSUME NEW c, NEW w \in Places, NEW kept \in [Workspaces -> Messages \cup {Blank}], Held(c, w, kept),
           NEW v \in Workspaces, c.jobs[v] # None, NEW r \in [Workspaces -> Repositories],
           NEW how \in {"ok", "refused", "error"}
    PROVE  LET g == GitStepEnds(c, v, w, r, how) IN
           /\ Held(g, w, TypedAfter(c, w, v, how, kept))
           /\ g.works = c.works /\ \A u \in Workspaces \ {v} : g.jobs[u] = c.jobs[u]
           /\ how = "ok" /\ Len(c.jobs[v].steps) # 1 => g.jobs[v] # None
<1>0. c \in ChangesTabs
  BY DEF Held, ChangesOf
<1>1. c.jobs \in [Workspaces -> Jobs \cup {None}]
  BY <1>0, ChangesParts
<1>2. PICK steps \in Steps : steps = c.jobs[v].steps
  BY <1>1 DEF Jobs, Steps
<1>3. PICK after : after = TypedAfter(c, w, v, how, kept)
  OBVIOUS
<1>4. PICK c1 : c1 = IF how = "ok" THEN IF Head(steps) \in {"commit", "amend"} THEN Committed(c, v, w) ELSE c
                     ELSE [c EXCEPT !.said = [c.said EXCEPT ![v] = [fix |-> how = "refused" /\ Head(steps) \in {"commit", "amend"}]]]
  OBVIOUS
<1>5. Held(c1, w, after) /\ SameWork(c, c1)
  <2>1. CASE how = "ok" /\ Head(steps) \in {"commit", "amend"}
    <3>1. c1 = Committed(c, v, w)
      BY <1>4, <2>1
    <3>2. Head(c.jobs[v].steps) \in {"commit", "amend"} /\ how = "ok"
      BY <1>2, <2>1
    <3>. QED  BY <1>3, <3>1, <3>2, CommitTakes
  <2>2. CASE how = "ok" /\ Head(steps) \notin {"commit", "amend"}
    <3>1. c1 = c /\ after = kept
      BY <1>2, <1>3, <1>4, <2>2 DEF TypedAfter
    <3>. QED  BY <3>1 DEF SameWork
  <2>3. CASE how # "ok"
    <3>1. PICK fix \in BOOLEAN : fix = (how = "refused" /\ Head(steps) \in {"commit", "amend"})
      OBVIOUS
    <3>2. PICK said : said = [c.said EXCEPT ![v] = [fix |-> fix]]
      OBVIOUS
    <3>3. said \in [Workspaces -> [fix : BOOLEAN] \cup {None}]
      BY <1>0, <3>2, ChangesParts
    <3>4. c1 = [c EXCEPT !.said = said] /\ after = kept
      BY <1>3, <1>4, <2>3, <3>1, <3>2 DEF TypedAfter
    <3>. QED  BY <3>3, <3>4, OnlySaid
  <2>. QED  BY <2>1, <2>2, <2>3
<1>6. c1 \in ChangesTabs /\ c1.works = c.works /\ c1.jobs = c.jobs
  BY <1>5 DEF Held, ChangesOf, SameWork
<1>7. PICK g : g = GitStepEnds(c, v, w, r, how)
  OBVIOUS
<1>8. CASE how = "ok" /\ Len(steps) > 1
  <2>1. PICK rest : rest = Tail(steps)
    OBVIOUS
  <2>2. rest \in Steps
    <3>1. steps \in Seq(Actions \ {"commit-push"}) /\ steps # <<>> /\ Len(steps) \in Nat
      BY <1>2 DEF Steps
    <3>2. rest \in Seq(Actions \ {"commit-push"}) /\ Len(rest) = Len(steps) - 1
      BY ONLY <2>1, <3>1
    <3>3. Len(rest) # 0
      <4>1. Len(steps) > 1 /\ Len(steps) \in Nat
        BY <1>8, <3>1
      <4>2. PICK n \in Nat : n = Len(steps)
        BY <4>1
      <4>3. n > 1 /\ Len(rest) = n - 1
        BY ONLY <4>1, <4>2, <3>2
      <4>4. n - 1 # 0
        BY ONLY <4>3, n \in Nat
      <4>. QED  BY ONLY <4>3, <4>4
    <3>4. rest # <<>>
      BY <3>3
    <3>. QED  BY <3>2, <3>4 DEF Steps
  <2>3. PICK job : job = [c.jobs[v] EXCEPT !.steps = rest]
    OBVIOUS
  <2>4. c.jobs[v] \in Jobs
    BY <1>1
  <2>5. job \in Jobs /\ job # None
    BY <2>2, <2>3, <2>4, NoneIsNothing DEF Jobs, Steps
  <2>6. PICK jobs : jobs = [c.jobs EXCEPT ![v] = job]
    OBVIOUS
  <2>7. /\ jobs \in [Workspaces -> Jobs \cup {None}] /\ jobs[v] = job
        /\ \A u \in Workspaces \ {v} : jobs[u] = c.jobs[u]
    BY <1>1, <2>5, <2>6
  <2>8. g = [c1 EXCEPT !.jobs = jobs]
    <3>1. g = [c1 EXCEPT !.jobs[v].steps = Tail(c1.jobs[v].steps)]
      BY <1>2, <1>4, <1>7, <1>8 DEF GitStepEnds
    <3>2. jobs = [c1.jobs EXCEPT ![v].steps = Tail(c1.jobs[v].steps)]
      BY <1>2, <1>6, <2>1, <2>3, <2>6
    <3>. QED  BY <1>6, <3>1, <3>2
  <2>9. /\ g \in ChangesTabs /\ g.draftFor = c1.draftFor /\ g.message = c1.message /\ g.drafts = c1.drafts
        /\ g.asks = c1.asks /\ g.data = c1.data /\ g.running = c1.running /\ g.jobs = jobs /\ g.works = c1.works
    BY <1>6, <2>7, <2>8 DEF ChangesTabs
  <2>10. ASSUME NEW u \in Workspaces
         PROVE  g.running[u] # None <=> g.jobs[u] # None
    <3>1. c1.running[u] # None <=> c.jobs[u] # None
      BY <1>5, <1>6 DEF Held, ChangesOf
    <3>. QED  BY <2>5, <2>7, <2>9, <3>1
  <2>11. Held(g, w, after)
    BY <1>5, <2>9, <2>10 DEF Held, ChangesOf, Kept
  <2>. QED  BY <1>3, <1>6, <1>7, <2>5, <2>7, <2>9, <2>11
<1>9. CASE ~ (how = "ok" /\ Len(steps) > 1)
  <2>1. g = GitFinishes(c1, v, w, r)
    BY <1>2, <1>4, <1>7, <1>9 DEF GitStepEnds
  <2>2. /\ Held(g, w, after) /\ g.works = c1.works
        /\ \A u \in Workspaces \ {v} : g.jobs[u] = c1.jobs[u]
    BY <1>5, <2>1, JobEnds
  <2>3. ~ (how = "ok" /\ Len(c.jobs[v].steps) # 1)
    <3>1. steps \in Seq(Actions \ {"commit-push"}) /\ steps # <<>> /\ Len(steps) \in Nat
      BY <1>2 DEF Steps
    <3>2. Len(steps) # 0
      BY ONLY <3>1
    <3>3. PICK n \in Nat : n = Len(steps)
      BY <3>1
    <3>4. ~ (how = "ok" /\ n > 1) /\ n # 0
      BY <1>9, <3>2, <3>3
    <3>5. ~ (how = "ok" /\ n # 1)
      BY ONLY <3>4, n \in Nat
    <3>. QED  BY <1>2, <3>3, <3>5
  <2>. QED  BY <1>3, <1>6, <1>7, <2>2, <2>3
<1>. QED  BY <1>8, <1>9

\* g stages or discards one thing more.
OneMore(c, e, g) == g.jobs = c.jobs /\ Grown(c.works, e, g.works)

\* Staging or discarding starts.
LEMMA StagingStarts ==
    ASSUME NEW c, NEW w, NEW kept, Held(c, w, kept), NEW e \in Works
    PROVE  /\ Held(WorkStarts(c, e.ws, e.action, e.boxed), w, kept)
           /\ OneMore(c, e, WorkStarts(c, e.ws, e.action, e.boxed))
<1>0. c \in ChangesTabs
  BY DEF Held, ChangesOf
<1>1. c.works \in Seq(Works)
  BY <1>0, ChangesParts
<1>2. e = [ws |-> e.ws, action |-> e.action, boxed |-> e.boxed]
  BY DEF Works
<1>3. PICK works : works = Append(c.works, e)
  OBVIOUS
<1>4. works \in Seq(Works) /\ Grown(c.works, e, works)
  BY <1>1, <1>3, AppendIs
<1>5. PICK g : g = [c EXCEPT !.works = works]
  OBVIOUS
<1>6. g = WorkStarts(c, e.ws, e.action, e.boxed)
  BY <1>2, <1>3, <1>5 DEF WorkStarts
<1>7. /\ g \in ChangesTabs /\ g.draftFor = c.draftFor /\ g.message = c.message /\ g.drafts = c.drafts /\ g.asks = c.asks
      /\ g.data = c.data /\ g.running = c.running /\ g.jobs = c.jobs /\ g.works = works
  BY <1>0, <1>4, <1>5 DEF ChangesTabs
<1>8. Held(g, w, kept)
  BY <1>7 DEF Held, ChangesOf, Kept
<1>. QED  BY <1>4, <1>6, <1>7, <1>8 DEF OneMore

\* It is answered.
LEMMA StagingEnds ==
    ASSUME NEW c, NEW w \in Places, NEW kept, Held(c, w, kept), NEW i \in DOMAIN c.works,
           NEW r \in [Workspaces -> Repositories], NEW ok \in BOOLEAN
    PROVE  LET g == WorkEnds(c, i, w, r, ok) IN
           Held(g, w, kept) /\ g.jobs = c.jobs /\ Shrunk(c.works, i, g.works)
<1>0. c \in ChangesTabs
  BY DEF Held, ChangesOf
<1>1. c.works \in Seq(Works)
  BY <1>0, ChangesParts
<1>2. PICK e \in Works : e = c.works[i]
  BY <1>1, ElementIs
<1>3. PICK works : works = RemoveAt(c.works, i)
  OBVIOUS
<1>4. works \in Seq(Works) /\ Shrunk(c.works, i, works)
  BY <1>1, <1>3, RemoveIs
<1>5. PICK said : said = IF ok \/ e.boxed THEN c.said ELSE [c.said EXCEPT ![e.ws] = [fix |-> FALSE]]
  OBVIOUS
<1>6. said \in [Workspaces -> [fix : BOOLEAN] \cup {None}]
  BY <1>0, <1>2, <1>5, ChangesParts DEF Works
<1>7. PICK c1 : c1 = [c EXCEPT !.works = works, !.said = said]
  OBVIOUS
<1>8. /\ c1 \in ChangesTabs /\ c1.draftFor = c.draftFor /\ c1.message = c.message /\ c1.drafts = c.drafts
      /\ c1.asks = c.asks /\ c1.data = c.data /\ c1.running = c.running /\ c1.jobs = c.jobs /\ c1.works = works
  BY <1>0, <1>4, <1>6, <1>7 DEF ChangesTabs
<1>9. Held(c1, w, kept)
  BY <1>8 DEF Held, ChangesOf, Kept
<1>10. WorkEnds(c, i, w, r, ok) = IF e.ws = w THEN ChangesRefresh(c1, e.ws, r, FALSE) ELSE c1
  BY <1>2, <1>3, <1>5, <1>7 DEF WorkEnds
<1>11. CASE e.ws = w
  <2>1. PICK h : h = ChangesRefresh(c1, w, r, FALSE)
    OBVIOUS
  <2>2. WorkEnds(c, i, w, r, ok) = h
    BY <1>10, <1>11, <2>1
  <2>3. Held(h, w, kept) /\ SameWork(c1, h)
    BY <1>9, <2>1, ChangesRefreshed
  <2>. QED  BY <1>4, <1>8, <2>2, <2>3 DEF SameWork
<1>12. CASE e.ws # w
  <2>1. WorkEnds(c, i, w, r, ok) = c1
    BY <1>10, <1>12
  <2>. QED  BY <1>4, <1>8, <1>9, <2>1
<1>. QED  BY <1>11, <1>12

-----------------------------------------------------------------------------
(* The Pull request tab. *)

PrAsks == [ws : Workspaces, seen : PullRequests, poll : BOOLEAN, live : BOOLEAN]
Merges == [ws : Workspaces, head : Nat]
LogStates == {None, "loading", "text", "failed"}

\* The parts of what the Pull request tab keeps.
LEMMA PrParts ==
    ASSUME NEW p \in PrTabs
    PROVE  /\ p.asks \in Seq(PrAsks) /\ p.merges \in Seq(Merges) /\ p.reads \in Seq(Checks)
           /\ p.expanded \in SUBSET Checks /\ p.logs \in [Checks -> LogStates] /\ p.loading \in BOOLEAN
           /\ p.data \in [ws : Workspaces, pr : PullRequests] \cup {None}
BY DEF PrTabs, PrAsks, Merges, LogStates

\* GitHub is asked again, or there is nothing to ask.
LEMMA PrRefreshed ==
    ASSUME NEW p, NEW w \in Places, PrOf(p, w), NEW h \in [Workspaces -> PullRequests], NEW poll \in BOOLEAN
    PROVE  PrOf(PrRefresh(p, w, h, poll), w) /\ PrRefresh(p, w, h, poll).merges = p.merges
<1>0. p \in PrTabs
  BY DEF PrOf
<1>1. PICK g : g = PrRefresh(p, w, h, poll)
  OBVIOUS
<1>2. CASE w = None
  <2>1. g = [p EXCEPT !.data = None]
    BY <1>1, <1>2 DEF PrRefresh
  <2>2. /\ g \in PrTabs /\ g.data = None /\ g.asks = p.asks /\ g.loading = p.loading /\ g.logs = p.logs
        /\ g.reads = p.reads /\ g.merges = p.merges
    BY <1>0, <2>1 DEF PrTabs
  <2>. QED  BY <1>1, <2>2 DEF PrOf
<1>3. CASE w # None
  <2>1. PICK a : a = [ws |-> w, seen |-> h[w], poll |-> poll, live |-> TRUE]
    OBVIOUS
  <2>2. a \in PrAsks /\ a.ws = w /\ a.live
    BY <1>3, <2>1 DEF PrAsks, Places
  <2>3. PICK all : all = Append(p.asks, a)
    OBVIOUS
  <2>4. p.asks \in Seq(PrAsks)
    BY <1>0, PrParts
  <2>5. all \in Seq(PrAsks) /\ Grown(p.asks, a, all)
    BY ONLY <2>2, <2>3, <2>4, AppendIs
  <2>6. g = [p EXCEPT !.loading = TRUE, !.asks = all]
    BY <1>1, <1>3, <2>1, <2>3 DEF PrRefresh
  <2>7. /\ g \in PrTabs /\ g.data = p.data /\ g.asks = all /\ g.loading = TRUE /\ g.logs = p.logs
        /\ g.reads = p.reads /\ g.merges = p.merges
    BY <1>0, <2>5, <2>6 DEF PrTabs, PrAsks
  <2>8. ASSUME NEW i \in DOMAIN all, all[i].live
        PROVE  all[i].ws = w
    <3>1. all[i] = a \/ \E k \in DOMAIN p.asks : all[i] = p.asks[k]
      BY <2>5 DEF Grown
    <3>2. \A k \in DOMAIN p.asks : p.asks[k].live => p.asks[k].ws = w
      BY DEF PrOf
    <3>. QED  BY <2>2, <2>8, <3>1, <3>2
  <2>9. \E i \in DOMAIN all : all[i].live
    BY <2>2, <2>5 DEF Grown
  <2>10. PrOf(g, w)
    BY <2>7, <2>8, <2>9 DEF PrOf
  <2>. QED  BY <1>1, <2>7, <2>10
<1>. QED  BY <1>2, <1>3

\* The panel leaves.
LEMMA PrLeft ==
    ASSUME NEW p, NEW v, PrOf(p, v), NEW w
    PROVE  PrOf(PrReset(p), w) /\ PrReset(p).merges = p.merges
<1>0. p \in PrTabs
  BY DEF PrOf
<1>1. PICK dead : dead = [i \in DOMAIN p.asks |-> [p.asks[i] EXCEPT !.live = FALSE]]
  OBVIOUS
<1>2. dead \in Seq(PrAsks) /\ \A i \in DOMAIN dead : dead[i].live = FALSE
  <2>1. p.asks \in Seq(PrAsks)
    BY <1>0, PrParts
  <2>2. ASSUME NEW i \in DOMAIN p.asks
        PROVE  [p.asks[i] EXCEPT !.live = FALSE] \in PrAsks /\ [p.asks[i] EXCEPT !.live = FALSE].live = FALSE
    <3>1. p.asks[i] \in PrAsks
      BY <2>1, ElementIs
    <3>. QED  BY <3>1 DEF PrAsks
  <2>3. PICK n \in Nat : DOMAIN p.asks = 1 .. n
    BY <2>1
  <2>4. dead \in [1 .. n -> PrAsks] /\ \A i \in DOMAIN dead : dead[i].live = FALSE
    BY <1>1, <2>2, <2>3
  <2>5. dead \in Seq(PrAsks)
    BY ONLY <2>3, <2>4, ListIs
  <2>. QED  BY <2>4, <2>5
<1>3. PICK logs : logs = [k \in Checks |-> None]
  OBVIOUS
<1>4. logs \in [Checks -> LogStates] /\ \A k \in Checks : logs[k] # "loading"
  BY <1>3, NoneIsNothing DEF LogStates
<1>5. PICK g : g = PrReset(p)
  OBVIOUS
<1>6. g = [p EXCEPT !.data = None, !.loading = FALSE, !.expanded = {}, !.logs = logs, !.asks = dead]
  BY <1>1, <1>3, <1>5 DEF PrReset
<1>7. /\ g \in PrTabs /\ g.data = None /\ g.asks = dead /\ g.loading = FALSE /\ g.logs = logs
      /\ g.reads = p.reads /\ g.merges = p.merges
  BY <1>0, <1>2, <1>4, <1>6 DEF PrTabs, PrAsks, LogStates
<1>8. PrOf(g, w)
  BY <1>2, <1>4, <1>7 DEF PrOf
<1>. QED  BY <1>5, <1>7, <1>8

\* GitHub answers.
LEMMA PrCome ==
    ASSUME NEW p, NEW w, PrOf(p, w), NEW i \in DOMAIN p.asks, NEW ok \in BOOLEAN
    PROVE  PrOf(PrAnswer(p, i, ok), w) /\ PrAnswer(p, i, ok).merges = p.merges
<1>0. p \in PrTabs /\ p.asks \in Seq(PrAsks)
  BY PrParts DEF PrOf
<1>1. PICK a \in PrAsks : a = p.asks[i]
  BY <1>0, ElementIs
<1>2. PICK rest : rest = RemoveAt(p.asks, i)
  OBVIOUS
<1>3. rest \in Seq(PrAsks) /\ Shrunk(p.asks, i, rest)
  BY <1>0, <1>2, RemoveIs
<1>4. ASSUME NEW j \in DOMAIN rest, rest[j].live
      PROVE  rest[j].ws = w
  <2>1. PICK k \in DOMAIN p.asks : rest[j] = p.asks[k]
    BY <1>3 DEF Shrunk
  <2>. QED  BY <1>4, <2>1 DEF PrOf
<1>5. PICK g : g = PrAnswer(p, i, ok)
  OBVIOUS
<1>6. CASE ~ a.live
  <2>1. g = [p EXCEPT !.asks = rest]
    BY <1>1, <1>2, <1>5, <1>6 DEF PrAnswer
  <2>2. /\ g \in PrTabs /\ g.data = p.data /\ g.asks = rest /\ g.loading = p.loading /\ g.logs = p.logs
        /\ g.reads = p.reads /\ g.merges = p.merges
    BY <1>0, <1>3, <2>1 DEF PrTabs, PrAsks
  <2>3. ASSUME p.loading
        PROVE  \E j \in DOMAIN rest : rest[j].live
    <3>1. PICK k \in DOMAIN p.asks : p.asks[k].live
      BY <2>3 DEF PrOf
    <3>2. k # i
      BY <1>1, <1>6, <3>1
    <3>. QED  BY <1>3, <3>1, <3>2 DEF Shrunk
  <2>. QED  BY <1>4, <1>5, <2>2, <2>3 DEF PrOf
<1>7. CASE a.live
  <2>1. a.ws = w /\ a.ws \in Workspaces /\ a.seen \in PullRequests
    BY <1>1, <1>7 DEF PrOf, PrAsks
  <2>2. PICK data : data = IF ok THEN [ws |-> a.ws, pr |-> a.seen]
                           ELSE IF p.data # None /\ p.data.pr # None THEN p.data ELSE [ws |-> a.ws, pr |-> None]
    OBVIOUS
  <2>3. data \in [ws : Workspaces, pr : PullRequests] \cup {None} /\ (data # None => data.ws = w)
    <3>1. CASE ok
      BY <2>1, <2>2, <3>1
    <3>2. CASE ~ ok /\ data = p.data
      BY <1>0, <3>2, PrParts DEF PrOf
    <3>3. CASE ~ ok /\ data = [ws |-> a.ws, pr |-> None]
      BY <2>1, <3>3 DEF PullRequests
    <3>. QED  BY <2>2, <3>1, <3>2, <3>3
  <2>4. g = [p EXCEPT !.asks = rest, !.loading = FALSE, !.data = data]
    BY <1>1, <1>2, <1>5, <1>7, <2>2 DEF PrAnswer
  <2>5. /\ g \in PrTabs /\ g.data = data /\ g.asks = rest /\ g.loading = FALSE /\ g.logs = p.logs
        /\ g.reads = p.reads /\ g.merges = p.merges
    BY <1>0, <1>3, <2>3, <2>4 DEF PrTabs, PrAsks
  <2>. QED  BY <1>4, <1>5, <2>3, <2>5 DEF PrOf
<1>. QED  BY <1>6, <1>7

\* A click on a check.
LEMMA CheckTurns ==
    ASSUME NEW p, NEW w, PrOf(p, w), NEW k \in Checks
    PROVE  PrOf(ToggleCheck(p, k), w) /\ ToggleCheck(p, k).merges = p.merges
<1>0. p \in PrTabs
  BY DEF PrOf
<1>1. PICK e : e = IF k \in p.expanded THEN p.expanded \ {k} ELSE p.expanded \cup {k}
  OBVIOUS
<1>2. e \in SUBSET Checks
  BY <1>0, <1>1, PrParts
<1>3. PICK h : h = [p EXCEPT !.expanded = e]
  OBVIOUS
<1>4. /\ h \in PrTabs /\ h.data = p.data /\ h.asks = p.asks /\ h.loading = p.loading /\ h.logs = p.logs
      /\ h.reads = p.reads /\ h.merges = p.merges
  BY <1>0, <1>2, <1>3 DEF PrTabs
<1>5. PrOf(h, w)
  BY <1>4 DEF PrOf
<1>6. PICK g : g = ToggleCheck(p, k)
  OBVIOUS
<1>7. g = h \/ (g = LoadLog(h, k) /\ k \notin p.expanded)
  BY <1>1, <1>3, <1>6 DEF ToggleCheck
<1>8. CASE g = h
  BY <1>4, <1>5, <1>6, <1>8
<1>9. CASE g # h
  <2>1. PICK logs : logs = [h.logs EXCEPT ![k] = "loading"]
    OBVIOUS
  <2>2. PICK reads : reads = Append(h.reads, k)
    OBVIOUS
  <2>3. g = [h EXCEPT !.logs = logs, !.reads = reads]
    BY <1>7, <1>9, <2>1, <2>2 DEF LoadLog
  <2>4. h.reads \in Seq(Checks) /\ h.logs \in [Checks -> LogStates]
    BY <1>4, PrParts
  <2>5. reads \in Seq(Checks) /\ Grown(h.reads, k, reads)
    BY <2>2, <2>4, AppendIs
  <2>6. logs \in [Checks -> LogStates] /\ \A j \in Checks \ {k} : logs[j] = h.logs[j]
    BY <2>1, <2>4 DEF LogStates
  <2>7. /\ g \in PrTabs /\ g.data = h.data /\ g.asks = h.asks /\ g.loading = h.loading /\ g.logs = logs
        /\ g.reads = reads /\ g.merges = h.merges
    BY <1>4, <2>3, <2>5, <2>6 DEF PrTabs, LogStates
  <2>8. ASSUME NEW j \in Checks, logs[j] = "loading"
        PROVE  \E n \in DOMAIN reads : reads[n] = j
    <3>1. CASE j = k
      BY <2>5, <3>1 DEF Grown
    <3>2. CASE j # k
      <4>1. PICK n \in DOMAIN h.reads : h.reads[n] = j
        BY <1>5, <2>6, <2>8, <3>2 DEF PrOf
      <4>. QED  BY <2>5, <4>1 DEF Grown
    <3>. QED  BY <3>1, <3>2
  <2>9. PrOf(g, w)
    BY <1>5, <2>7, <2>8 DEF PrOf
  <2>. QED  BY <1>4, <1>6, <2>7, <2>9
<1>. QED  BY <1>8, <1>9

\* The log of a check is read.
LEMMA LogCome ==
    ASSUME NEW p, NEW w, PrOf(p, w), NEW i \in DOMAIN p.reads, NEW ok \in BOOLEAN
    PROVE  PrOf(LogAnswers(p, i, ok), w) /\ LogAnswers(p, i, ok).merges = p.merges
<1>0. p \in PrTabs /\ p.reads \in Seq(Checks) /\ p.logs \in [Checks -> LogStates]
  BY PrParts DEF PrOf
<1>1. PICK k \in Checks : k = p.reads[i]
  BY <1>0, ElementIs
<1>2. PICK reads : reads = RemoveAt(p.reads, i)
  OBVIOUS
<1>3. reads \in Seq(Checks) /\ Shrunk(p.reads, i, reads)
  BY <1>0, <1>2, RemoveIs
<1>4. PICK log \in {"text", "failed"} : log = IF ok THEN "text" ELSE "failed"
  OBVIOUS
<1>5. PICK logs : logs = [p.logs EXCEPT ![k] = log]
  OBVIOUS
<1>6. logs \in [Checks -> LogStates] /\ logs[k] # "loading" /\ \A j \in Checks \ {k} : logs[j] = p.logs[j]
  BY <1>0, <1>4, <1>5 DEF LogStates
<1>7. PICK g : g = LogAnswers(p, i, ok)
  OBVIOUS
<1>8. g = [p EXCEPT !.reads = reads, !.logs = logs]
  BY <1>1, <1>2, <1>4, <1>5, <1>7 DEF LogAnswers
<1>9. /\ g \in PrTabs /\ g.data = p.data /\ g.asks = p.asks /\ g.loading = p.loading /\ g.logs = logs
      /\ g.reads = reads /\ g.merges = p.merges
  BY <1>0, <1>3, <1>6, <1>8 DEF PrTabs, LogStates
<1>10. ASSUME NEW j \in Checks, logs[j] = "loading"
       PROVE  \E n \in DOMAIN reads : reads[n] = j
  <2>1. j # k
    BY <1>6, <1>10
  <2>2. PICK n \in DOMAIN p.reads : p.reads[n] = j
    BY <1>6, <1>10, <2>1 DEF PrOf
  <2>3. n # i
    BY <1>1, <2>1, <2>2
  <2>. QED  BY <1>3, <2>2, <2>3 DEF Shrunk
<1>. QED  BY <1>7, <1>9, <1>10 DEF PrOf

\* A merge starts.
LEMMA MergingStarts ==
    ASSUME NEW p, NEW w, PrOf(p, w), NEW m \in Merges
    PROVE  PrOf(MergeStarts(p, m.ws, m.head), w) /\ Grown(p.merges, m, MergeStarts(p, m.ws, m.head).merges)
<1>0. p \in PrTabs /\ p.merges \in Seq(Merges)
  BY PrParts DEF PrOf
<1>1. m = [ws |-> m.ws, head |-> m.head]
  BY DEF Merges
<1>2. PICK merges : merges = Append(p.merges, m)
  OBVIOUS
<1>3. merges \in Seq(Merges) /\ Grown(p.merges, m, merges)
  BY <1>0, <1>2, AppendIs
<1>4. PICK g : g = [p EXCEPT !.merges = merges]
  OBVIOUS
<1>5. g = MergeStarts(p, m.ws, m.head)
  BY <1>1, <1>2, <1>4 DEF MergeStarts
<1>6. /\ g \in PrTabs /\ g.data = p.data /\ g.asks = p.asks /\ g.loading = p.loading /\ g.logs = p.logs
      /\ g.reads = p.reads /\ g.merges = merges
  BY <1>0, <1>3, <1>4 DEF PrTabs, Merges
<1>7. PrOf(g, w)
  BY <1>6 DEF PrOf
<1>. QED  BY <1>3, <1>5, <1>6, <1>7

\* It is answered.
LEMMA MergingEnds ==
    ASSUME NEW p, NEW w \in Places, PrOf(p, w), NEW i \in DOMAIN p.merges, NEW h \in [Workspaces -> PullRequests]
    PROVE  PrOf(MergeEnds(p, i, w, h), w) /\ Shrunk(p.merges, i, MergeEnds(p, i, w, h).merges)
<1>0. p \in PrTabs /\ p.merges \in Seq(Merges)
  BY PrParts DEF PrOf
<1>1. PICK merges : merges = RemoveAt(p.merges, i)
  OBVIOUS
<1>2. merges \in Seq(Merges) /\ Shrunk(p.merges, i, merges)
  BY <1>0, <1>1, RemoveIs
<1>3. PICK q : q = [p EXCEPT !.merges = merges]
  OBVIOUS
<1>4. /\ q \in PrTabs /\ q.data = p.data /\ q.asks = p.asks /\ q.loading = p.loading /\ q.logs = p.logs
      /\ q.reads = p.reads /\ q.merges = merges
  BY <1>0, <1>2, <1>3 DEF PrTabs, Merges
<1>5. PrOf(q, w)
  BY <1>4 DEF PrOf
<1>6. PICK r : r = PrRefresh(q, w, h, FALSE)
  OBVIOUS
<1>7. PrOf(r, w) /\ r.merges = merges
  BY <1>4, <1>5, <1>6, PrRefreshed
<1>8. MergeEnds(p, i, w, h) = r \/ MergeEnds(p, i, w, h) = q
  BY <1>1, <1>3, <1>6 DEF MergeEnds
<1>. QED  BY <1>2, <1>4, <1>5, <1>7, <1>8

\* A set of numbers has a least one.
LEMMA LeastOf ==
    ASSUME NEW T \in SUBSET Nat, T # {}
    PROVE  \E x \in T : \A y \in T : x <= y
<1>1. PICK x \in T : \A y \in T : ~ (<<y, x>> \in OpToRel(<, Nat))
  BY NatLessThanWellFounded, WFMin
<1>2. \A y \in T : ~ (y < x)
  BY <1>1 DEF OpToRel
<1>. QED  BY <1>2

\* A set of the first numbers has a greatest one.
LEMMA GreatestOf ==
    ASSUME NEW n \in Nat, NEW T \in SUBSET (1 .. n), T # {}
    PROVE  \E x \in T : \A y \in T : x >= y
<1>1. PICK U : U = {n - x : x \in T}
  OBVIOUS
<1>2. U \in SUBSET Nat /\ U # {}
  <2>1. \A x \in T : n - x \in Nat
    OBVIOUS
  <2>. QED  BY <1>1, <2>1
<1>3. PICK u \in U : \A y \in U : u <= y
  BY <1>2, LeastOf
<1>4. PICK x \in T : u = n - x
  BY <1>1, <1>3
<1>5. ASSUME NEW y \in T
      PROVE  x >= y
  <2>1. n - y \in U
    BY <1>1
  <2>2. n - x <= n - y
    BY <1>3, <1>4, <2>1
  <2>. QED  BY <2>2
<1>. QED  BY <1>5

\* n and p stop at a change.
LEMMA StopIsOne ==
    ASSUME NEW n \in Nat, NEW stops \in SUBSET (1 .. n), stops # {}, NEW at, NEW delta
    PROVE  NextStop(stops, at, delta) \in stops
<1>1. PICK ahead : ahead = {x \in stops : IF delta > 0 THEN x > at ELSE x < at}
  OBVIOUS
<1>2. PICK rest : rest = IF ahead = {} THEN stops ELSE ahead
  OBVIOUS
<1>3. rest \in SUBSET (1 .. n) /\ rest # {} /\ rest \subseteq stops
  BY <1>1, <1>2
<1>4. NextStop(stops, at, delta) = IF delta > 0 THEN Min(rest) ELSE Max(rest)
  BY <1>1, <1>2 DEF NextStop
<1>5. Min(rest) \in rest
  <2>1. \E x \in rest : \A y \in rest : x <= y
    BY <1>3, LeastOf
  <2>. QED  BY <2>1 DEF Min
<1>6. Max(rest) \in rest
  <2>1. \E x \in rest : \A y \in rest : x >= y
    BY <1>3, GreatestOf
  <2>. QED  BY <2>1 DEF Max
<1>. QED  BY <1>3, <1>4, <1>5, <1>6

-----------------------------------------------------------------------------
(* The rows of a diff. *)

Parsed == [rows : Seq(Rows), old : Nat, new : Nat, inside : BOOLEAN]
NotParsed == [rows |-> <<>>, old |-> 0, new |-> 0, inside |-> FALSE]

\* A line adds a row at most, and counts.
LEMMA LineParsed ==
    ASSUME NEW line \in Lines, NEW p \in Parsed
    PROVE  ParseLine(line, p) \in Parsed
<1>1. /\ p.rows \in Seq(Rows) /\ p.old \in Nat /\ p.new \in Nat /\ p.inside \in BOOLEAN
      /\ line.t \in {"head", "hunk", "add", "del", "ctx", "note"} /\ line.old \in Nat /\ line.new \in Nat
  BY DEF Lines, Parsed
<1>2. ASSUME NEW row \in Rows
      PROVE  /\ Append(p.rows, row) \in Seq(Rows)
             /\ [p EXCEPT !.rows = Append(p.rows, row)] \in Parsed
             /\ [p EXCEPT !.rows = Append(p.rows, row)].old = p.old
             /\ [p EXCEPT !.rows = Append(p.rows, row)].new = p.new
  <2>1. PICK before \in Seq(Rows) : before = p.rows
    BY <1>1
  <2>2. Append(before, row) \in Seq(Rows)
    OBVIOUS
  <2>3. PICK rows \in Seq(Rows) : rows = Append(p.rows, row)
    BY <2>1, <2>2
  <2>4. /\ [p EXCEPT !.rows = rows] \in Parsed
        /\ [p EXCEPT !.rows = rows].old = p.old /\ [p EXCEPT !.rows = rows].new = p.new
    BY <2>3 DEF Parsed
  <2>. QED  BY <2>3, <2>4
<1>3. \A kind \in {"hunk", "meta", "add", "del", "ctx"}, old \in Nat, new \in Nat : Row(kind, old, new) \in Rows
  BY DEF Row, Rows
<1>4. CASE line.t = "hunk"
  <2>1. PICK rows \in Seq(Rows) : rows = Append(p.rows, Row("hunk", 0, 0))
    BY <1>2, <1>3
  <2>2. ParseLine(line, p) = [rows |-> rows, old |-> line.old, new |-> line.new, inside |-> TRUE]
    BY <1>4, <2>1 DEF ParseLine
  <2>. QED  BY <1>1, <2>1, <2>2 DEF Parsed
<1>5. CASE line.t # "hunk" /\ ~ p.inside
  <2>1. ParseLine(line, p) = p \/ ParseLine(line, p) = [p EXCEPT !.rows = Append(p.rows, Row("meta", 0, 0))]
    BY <1>5 DEF ParseLine
  <2>. QED  BY <1>2, <1>3, <2>1
<1>6. CASE line.t = "add" /\ p.inside
  <2>1. PICK q \in Parsed : q = [p EXCEPT !.rows = Append(p.rows, Row("add", 0, p.new))]
    BY <1>1, <1>2, <1>3
  <2>2. ParseLine(line, p) = [q EXCEPT !.new = q.new + 1]
    BY <1>6, <2>1 DEF ParseLine
  <2>. QED  BY ONLY q \in Parsed, <2>2 DEF Parsed
<1>7. CASE line.t = "del" /\ p.inside
  <2>1. PICK q \in Parsed : q = [p EXCEPT !.rows = Append(p.rows, Row("del", p.old, 0))]
    BY <1>1, <1>2, <1>3
  <2>2. ParseLine(line, p) = [q EXCEPT !.old = q.old + 1]
    BY <1>7, <2>1 DEF ParseLine
  <2>. QED  BY ONLY q \in Parsed, <2>2 DEF Parsed
<1>8. CASE line.t = "ctx" /\ p.inside
  <2>1. PICK q \in Parsed : q = [p EXCEPT !.rows = Append(p.rows, Row("ctx", p.old, p.new))]
    BY <1>1, <1>2, <1>3
  <2>2. ParseLine(line, p) = [q EXCEPT !.old = q.old + 1, !.new = q.new + 1]
    BY <1>8, <2>1 DEF ParseLine
  <2>3. PICK old \in Nat : old = q.old + 1
    BY <2>1 DEF Parsed
  <2>4. PICK new \in Nat : new = q.new + 1
    BY <2>1 DEF Parsed
  <2>5. ParseLine(line, p) = [q EXCEPT !.old = old, !.new = new]
    BY <2>2, <2>3, <2>4
  <2>. QED  BY ONLY q \in Parsed, old \in Nat, new \in Nat, <2>5 DEF Parsed
<1>9. CASE line.t = "note" /\ p.inside
  <2>1. ParseLine(line, p) = [p EXCEPT !.rows = Append(p.rows, Row("meta", 0, 0))]
    BY <1>9 DEF ParseLine
  <2>. QED  BY <1>2, <1>3, <2>1
<1>10. CASE line.t = "head" /\ p.inside
  <2>1. ParseLine(line, p) = [p EXCEPT !.inside = FALSE]
    BY <1>10 DEF ParseLine
  <2>. QED  BY <2>1 DEF Parsed
<1>. QED  BY <1>1, <1>4, <1>5, <1>6, <1>7, <1>8, <1>9, <1>10

\* f reads line after line.
LineAfterLine(lines, f) ==
    f = [i \in 0 .. Len(lines) |-> IF i = 0 THEN NotParsed ELSE ParseLine(lines[i], f[i - 1])]

\* The recursion of ParseDiff has a solution.
LEMMA ParseExists ==
    ASSUME NEW lines \in Seq(Lines)
    PROVE  \E f : LineAfterLine(lines, f)
<1>0. PICK n \in Nat : n = Len(lines) /\ DOMAIN lines = 1 .. n
  OBVIOUS
<1>1. PICK Good : Good = {m \in 0 .. n : \E f : DOMAIN f = 0 .. n /\ f = [i \in 0 .. n |-> f[i]]
                                        /\ \A i \in 0 .. m : f[i] = IF i = 0 THEN NotParsed ELSE ParseLine(lines[i], f[i - 1])}
  OBVIOUS
<1>2. 0 \in Good
  <2>1. PICK f : f = [i \in 0 .. n |-> NotParsed]
    OBVIOUS
  <2>. QED  BY <1>1, <2>1
<1>3. ASSUME NEW m \in Good, m < n
      PROVE  m + 1 \in Good
  <2>1. m \in 0 .. n /\ m + 1 \in 0 .. n /\ m + 1 # 0 /\ (m + 1) - 1 = m
    BY <1>1, <1>3
  <2>2. PICK f : /\ DOMAIN f = 0 .. n /\ f = [i \in 0 .. n |-> f[i]]
                 /\ \A i \in 0 .. m : f[i] = IF i = 0 THEN NotParsed ELSE ParseLine(lines[i], f[i - 1])
    BY <1>1, <1>3
  <2>3. PICK e : e = ParseLine(lines[m + 1], f[m])
    OBVIOUS
  <2>4. PICK g : g = [i \in 0 .. n |-> IF i = m + 1 THEN e ELSE f[i]]
    OBVIOUS
  <2>5. DOMAIN g = 0 .. n /\ g[m + 1] = e /\ \A i \in 0 .. m : g[i] = f[i]
    BY <2>1, <2>4
  <2>6. g = [i \in 0 .. n |-> g[i]]
    BY <2>4
  <2>7. ASSUME NEW i \in 0 .. m + 1
        PROVE  g[i] = IF i = 0 THEN NotParsed ELSE ParseLine(lines[i], g[i - 1])
    <3>1. CASE i = m + 1
      <4>1. g[i - 1] = f[m] /\ i # 0
        BY <2>1, <2>5, <3>1
      <4>. QED  BY <2>3, <2>5, <3>1, <4>1
    <3>2. CASE i # m + 1
      <4>1. i \in 0 .. m /\ (i # 0 => i - 1 \in 0 .. m)
        BY <2>1, <3>2
      <4>2. CASE i = 0
        BY <2>2, <2>5, <4>1, <4>2
      <4>3. CASE i # 0
        <5>1. g[i - 1] = f[i - 1] /\ g[i] = f[i]
          BY <2>5, <4>1, <4>3
        <5>. QED  BY <2>2, <4>1, <4>3, <5>1
      <4>. QED  BY <4>2, <4>3
    <3>. QED  BY <3>1, <3>2
  <2>. QED  BY <1>1, <2>1, <2>5, <2>6, <2>7
<1>4. n \in Good
  <2>1. SUFFICES ASSUME n \notin Good
                 PROVE  FALSE
    OBVIOUS
  <2>2. PICK Bad : Bad = {m \in 0 .. n : m \notin Good}
    OBVIOUS
  <2>3. Bad \in SUBSET Nat /\ n \in Bad
    BY <2>1, <2>2
  <2>4. PICK b \in Bad : \A y \in Bad : b <= y
    BY <2>3, LeastOf
  <2>5. b \in 0 .. n /\ b # 0 /\ b \notin Good
    BY <1>2, <2>2, <2>4
  <2>6. b - 1 \in 0 .. n /\ b - 1 < n /\ b - 1 < b /\ (b - 1) + 1 = b
    BY <2>5
  <2>7. b - 1 \in Good
    BY <2>2, <2>4, <2>6
  <2>. QED  BY <1>3, <2>5, <2>6, <2>7
<1>5. PICK f : /\ DOMAIN f = 0 .. n /\ f = [i \in 0 .. n |-> f[i]]
               /\ \A i \in 0 .. n : f[i] = IF i = 0 THEN NotParsed ELSE ParseLine(lines[i], f[i - 1])
  BY <1>1, <1>4
<1>6. f = [i \in 0 .. n |-> IF i = 0 THEN NotParsed ELSE ParseLine(lines[i], f[i - 1])]
  BY <1>5
<1>. QED  BY <1>0, <1>6 DEF LineAfterLine

\* A diff is a list of rows.
LEMMA DiffIsRows ==
    ASSUME NEW lines \in Seq(Lines)
    PROVE  ParseDiff(lines) \in Seq(Rows)
<1>0. PICK n \in Nat : n = Len(lines) /\ DOMAIN lines = 1 .. n
  OBVIOUS
<1>1. PICK f : f = CHOOSE g : LineAfterLine(lines, g)
  OBVIOUS
<1>2. LineAfterLine(lines, f)
  BY <1>1, ParseExists
<1>3. ParseDiff(lines) = f[n].rows
  BY <1>0, <1>1, Zenon DEF ParseDiff, LineAfterLine, NotParsed
<1>4. \A i \in 0 .. n : f[i] = IF i = 0 THEN NotParsed ELSE ParseLine(lines[i], f[i - 1])
  BY <1>0, <1>2 DEF LineAfterLine
<1>5. f[n] \in Parsed
  <2>1. SUFFICES ASSUME f[n] \notin Parsed
                 PROVE  FALSE
    OBVIOUS
  <2>2. PICK Bad : Bad = {m \in 0 .. n : f[m] \notin Parsed}
    OBVIOUS
  <2>3. Bad \in SUBSET Nat /\ n \in Bad
    BY <2>1, <2>2
  <2>4. PICK b \in Bad : \A y \in Bad : b <= y
    BY <2>3, LeastOf
  <2>5. b \in 0 .. n /\ f[b] \notin Parsed
    BY <2>2, <2>4
  <2>6. CASE b = 0
    <3>1. f[b] = NotParsed
      BY <1>4, <2>5, <2>6
    <3>. QED  BY <2>5, <3>1 DEF Parsed, NotParsed
  <2>7. CASE b # 0
    <3>1. b - 1 \in 0 .. n /\ b - 1 < b /\ b \in 1 .. n
      BY <2>5, <2>7
    <3>2. f[b - 1] \in Parsed
      BY <2>2, <2>4, <3>1
    <3>3. lines[b] \in Lines
      BY <1>0, <3>1, ElementIs
    <3>4. f[b] = ParseLine(lines[b], f[b - 1])
      BY <1>4, <2>5, <2>7
    <3>. QED  BY <2>5, <3>2, <3>3, <3>4, LineParsed
  <2>. QED  BY <2>6, <2>7
<1>. QED  BY <1>3, <1>5 DEF Parsed

-----------------------------------------------------------------------------
(* Side by side. *)

Items == [left : Rows \cup {NoRow}, right : Rows \cup {NoRow}]

\* A run ends.
LEMMA RunEnds ==
    ASSUME NEW rows \in Seq(Rows), NEW i \in 1 .. Len(rows) + 1, NEW kind
    PROVE  /\ RunEnd(rows, i, kind) \in i .. Len(rows) + 1
           /\ \A k \in i .. RunEnd(rows, i, kind) - 1 : rows[k].kind = kind
           /\ i <= Len(rows) /\ rows[i].kind = kind => RunEnd(rows, i, kind) # i
<1>0. PICK n \in Nat : n = Len(rows)
  OBVIOUS
<1>1. PICK T : T = {j \in i .. n + 1 : j = n + 1 \/ rows[j].kind # kind}
  OBVIOUS
<1>2. T \in SUBSET Nat /\ n + 1 \in T
  BY <1>0, <1>1
<1>3. PICK j \in T : \A y \in T : j <= y
  BY <1>2, LeastOf
<1>4. j \in i .. n + 1 /\ (j = n + 1 \/ rows[j].kind # kind)
  BY <1>1
<1>5. ASSUME NEW k \in i .. j - 1
      PROVE  rows[k].kind = kind
  <2>1. k \in i .. n + 1 /\ ~ (j <= k)
    BY <1>0, <1>4
  <2>2. k \notin T
    BY <1>3, <2>1
  <2>. QED  BY <1>1, <2>1, <2>2
<1>6. PICK e : e = RunEnd(rows, i, kind)
  OBVIOUS
<1>7. /\ e \in i .. Len(rows) + 1
      /\ \A k \in i .. e - 1 : rows[k].kind = kind
      /\ e = Len(rows) + 1 \/ rows[e].kind # kind
  <2>1. \E x \in i .. Len(rows) + 1 :
          /\ \A k \in i .. x - 1 : rows[k].kind = kind
          /\ x = Len(rows) + 1 \/ rows[x].kind # kind
    BY <1>0, <1>4, <1>5
  <2>. QED  BY <1>6, <2>1, Zenon DEF RunEnd
<1>8. i <= Len(rows) /\ rows[i].kind = kind => e # i
  BY <1>0, <1>7
<1>. QED  BY <1>6, <1>7, <1>8

\* What stands at a row: the row, or the run of deletions and additions that starts there.
Beside(rows, i, from) ==
    IF i > Len(rows) THEN <<>>
    ELSE IF rows[i].kind \notin {"del", "add"} THEN <<[left |-> rows[i], right |-> rows[i]]>> \o from[i + 1]
    ELSE LET d == RunEnd(rows, i, "del")
             a == RunEnd(rows, d, "add")
             n == IF d - i > a - d THEN d - i ELSE a - d
         IN  [k \in 1 .. n |-> [left  |-> IF k <= d - i THEN rows[i + k - 1] ELSE NoRow,
                                right |-> IF k <= a - d THEN rows[d + k - 1] ELSE NoRow]] \o from[a]

\* A run pairs rows with rows, and ends behind where it started.
LEMMA RunPairs ==
    ASSUME NEW rows \in Seq(Rows), NEW i \in 1 .. Len(rows), rows[i].kind \in {"del", "add"}
    PROVE  \E list \in Seq(Items), a \in i + 1 .. Len(rows) + 1 :
              \A from : Beside(rows, i, from) = list \o from[a]
<1>0. PICK n \in Nat : n = Len(rows) /\ DOMAIN rows = 1 .. n /\ \A k \in 1 .. n : rows[k] \in Rows
  BY ElementIs
<1>1. PICK d : d = RunEnd(rows, i, "del")
  OBVIOUS
<1>2. /\ d \in i .. n + 1
      /\ rows[i].kind = "del" => d # i
  BY <1>0, <1>1, RunEnds
<1>3. PICK a : a = RunEnd(rows, d, "add")
  OBVIOUS
<1>4. /\ a \in d .. n + 1
      /\ d <= n /\ rows[d].kind = "add" => a # d
  BY <1>0, <1>2, <1>3, RunEnds
<1>5. a \in i + 1 .. n + 1
  <2>1. i \in 1 .. n
    BY <1>0
  <2>2. d # i => d > i
    BY <1>2, <2>1
  <2>3. d = i => a > i
    BY <1>2, <1>4, <2>1
  <2>. QED  BY <1>2, <1>4, <2>1, <2>2, <2>3
<1>6. PICK m \in Nat : m = IF d - i > a - d THEN d - i ELSE a - d
  <2>1. i \in Nat /\ d \in Nat /\ a \in Nat /\ i <= d /\ d <= a
    BY <1>0, <1>2, <1>4
  <2>2. d - i \in Nat /\ a - d \in Nat
    BY ONLY <2>1
  <2>. QED  BY <2>2
<1>7. PICK list : list = [k \in 1 .. m |-> [left  |-> IF k <= d - i THEN rows[i + k - 1] ELSE NoRow,
                                            right |-> IF k <= a - d THEN rows[d + k - 1] ELSE NoRow]]
  OBVIOUS
<1>8. list \in Seq(Items)
  <2>1. ASSUME NEW k \in 1 .. m
        PROVE  /\ (IF k <= d - i THEN rows[i + k - 1] ELSE NoRow) \in Rows \cup {NoRow}
               /\ (IF k <= a - d THEN rows[d + k - 1] ELSE NoRow) \in Rows \cup {NoRow}
    <3>1. i \in 1 .. n /\ k \in 1 .. m
      BY <1>0
    <3>2. k <= d - i => i + k - 1 \in 1 .. n
      BY <1>2, <3>1
    <3>3. k <= a - d => d + k - 1 \in 1 .. n
      BY <1>2, <1>4, <3>1
    <3>. QED  BY <1>0, <3>2, <3>3
  <2>2. list \in [1 .. m -> Items]
    BY <1>7, <2>1 DEF Items
  <2>. QED  BY <2>2, ListIs
<1>9. \A from : Beside(rows, i, from) = list \o from[a]
  <2>1. i \in 1 .. n /\ ~ (i > Len(rows))
    BY <1>0
  <2>2. TAKE from
  <2>. QED  BY <1>1, <1>3, <1>6, <1>7, <2>1 DEF Beside
<1>. QED  BY <1>0, <1>5, <1>8, <1>9

\* What stands at a row is made of what stands further down.
LEMMA BesideIs ==
    ASSUME NEW rows \in Seq(Rows), NEW i \in 1 .. Len(rows) + 1
    PROVE  /\ i = Len(rows) + 1 => \A from : Beside(rows, i, from) = <<>>
           /\ i # Len(rows) + 1 => \E list \in Seq(Items), a \in i + 1 .. Len(rows) + 1 :
                                      \A from : Beside(rows, i, from) = list \o from[a]
<1>0. PICK n \in Nat : n = Len(rows) /\ DOMAIN rows = 1 .. n /\ \A k \in 1 .. n : rows[k] \in Rows
  BY ElementIs
<1>1. CASE i = Len(rows) + 1
  BY <1>0, <1>1 DEF Beside
<1>2. CASE i # Len(rows) + 1
  <2>1. i \in 1 .. Len(rows) /\ ~ (i > Len(rows)) /\ rows[i] \in Rows /\ i + 1 \in i + 1 .. Len(rows) + 1
    BY <1>0, <1>2
  <2>2. CASE rows[i].kind \in {"del", "add"}
    BY <1>2, <2>1, <2>2, RunPairs
  <2>3. CASE rows[i].kind \notin {"del", "add"}
    <3>1. PICK list : list = <<[left |-> rows[i], right |-> rows[i]]>>
      OBVIOUS
    <3>2. list \in Seq(Items)
      BY <2>1, <3>1 DEF Items
    <3>3. \A from : Beside(rows, i, from) = list \o from[i + 1]
      BY <2>1, <2>3, <3>1 DEF Beside
    <3>. QED  BY <1>2, <2>1, <3>2, <3>3
  <2>. QED  BY <2>2, <2>3
<1>. QED  BY <1>1, <1>2

\* f has what stands at each row.
RowByRow(rows, f) == f = [i \in 1 .. Len(rows) + 1 |-> Beside(rows, i, f)]

\* The recursion of SideBySide has a solution.
LEMMA SidesExist ==
    ASSUME NEW rows \in Seq(Rows)
    PROVE  \E f : RowByRow(rows, f)
<1>0. PICK n \in Nat : n = Len(rows)
  OBVIOUS
<1>1. PICK Good : Good = {m \in 0 .. n : \E f : f = [i \in 1 .. n + 1 |-> f[i]]
                                        /\ \A i \in (n + 1) - m .. n + 1 : f[i] = Beside(rows, i, f)}
  OBVIOUS
<1>2. 0 \in Good
  <2>1. PICK f : f = [i \in 1 .. n + 1 |-> <<>>]
    OBVIOUS
  <2>2. f = [i \in 1 .. n + 1 |-> f[i]]
    BY <2>1
  <2>3. ASSUME NEW i \in (n + 1) - 0 .. n + 1
        PROVE  f[i] = Beside(rows, i, f)
    <3>1. i = n + 1 /\ i \in 1 .. n + 1
      OBVIOUS
    <3>2. Beside(rows, i, f) = <<>>
      BY <1>0, <3>1, BesideIs
    <3>. QED  BY <2>1, <3>1, <3>2
  <2>. QED  BY <1>1, <2>2, <2>3
<1>3. ASSUME NEW m \in Good, m < n
      PROVE  m + 1 \in Good
  <2>1. m \in 0 .. n /\ m + 1 \in 0 .. n
    BY <1>1, <1>3
  <2>2. PICK f : /\ f = [i \in 1 .. n + 1 |-> f[i]]
                 /\ \A i \in (n + 1) - m .. n + 1 : f[i] = Beside(rows, i, f)
    BY <1>1, <1>3
  <2>3. PICK j : j = n - m
    OBVIOUS
  <2>4. j \in 1 .. n /\ (n + 1) - m = j + 1 /\ (n + 1) - (m + 1) = j
    BY <1>3, <2>1, <2>3
  <2>5. PICK e : e = Beside(rows, j, f)
    OBVIOUS
  <2>6. PICK g : g = [i \in 1 .. n + 1 |-> IF i = j THEN e ELSE f[i]]
    OBVIOUS
  <2>7. g[j] = e /\ \A i \in j + 1 .. n + 1 : g[i] = f[i]
    BY <2>4, <2>6
  <2>8. g = [i \in 1 .. n + 1 |-> g[i]]
    BY <2>6
  <2>9. ASSUME NEW i \in j .. n + 1
        PROVE  Beside(rows, i, g) = Beside(rows, i, f)
    <3>1. i \in 1 .. n + 1
      BY <2>4
    <3>2. CASE i = n + 1
      BY <1>0, <3>1, <3>2, BesideIs
    <3>3. CASE i # n + 1
      <4>1. PICK list \in Seq(Items), a \in i + 1 .. n + 1 : \A from : Beside(rows, i, from) = list \o from[a]
        BY <1>0, <3>1, <3>3, BesideIs
      <4>2. a \in j + 1 .. n + 1
        BY <2>4, <3>1, <4>1
      <4>. QED  BY <2>7, <4>1, <4>2
    <3>. QED  BY <3>2, <3>3
  <2>10. ASSUME NEW i \in j .. n + 1
         PROVE  g[i] = Beside(rows, i, g)
    <3>1. CASE i = j
      BY <2>5, <2>7, <2>9, <3>1
    <3>2. CASE i # j
      <4>1. i \in j + 1 .. n + 1
        BY <2>4, <3>2
      <4>2. f[i] = Beside(rows, i, f)
        BY <2>2, <2>4, <4>1
      <4>. QED  BY <2>7, <2>9, <4>1, <4>2
    <3>. QED  BY <3>1, <3>2
  <2>11. \A i \in (n + 1) - (m + 1) .. n + 1 : g[i] = Beside(rows, i, g)
    BY <2>4, <2>10
  <2>. QED  BY <1>1, <2>1, <2>8, <2>11
<1>4. n \in Good
  <2>1. SUFFICES ASSUME n \notin Good
                 PROVE  FALSE
    OBVIOUS
  <2>2. PICK Bad : Bad = {m \in 0 .. n : m \notin Good}
    OBVIOUS
  <2>3. Bad \in SUBSET Nat /\ n \in Bad
    BY <2>1, <2>2
  <2>4. PICK b \in Bad : \A y \in Bad : b <= y
    BY <2>3, LeastOf
  <2>5. b \in 0 .. n /\ b # 0 /\ b \notin Good
    BY <1>2, <2>2, <2>4
  <2>6. b - 1 \in 0 .. n /\ b - 1 < n /\ b - 1 < b /\ (b - 1) + 1 = b
    BY <2>5
  <2>7. b - 1 \in Good
    BY <2>2, <2>4, <2>6
  <2>. QED  BY <1>3, <2>5, <2>6, <2>7
<1>5. PICK f : /\ f = [i \in 1 .. n + 1 |-> f[i]]
               /\ \A i \in (n + 1) - n .. n + 1 : f[i] = Beside(rows, i, f)
  BY <1>1, <1>4
<1>6. f = [i \in 1 .. n + 1 |-> Beside(rows, i, f)]
  <2>1. (n + 1) - n = 1
    OBVIOUS
  <2>. QED  BY <1>5, <2>1
<1>. QED  BY <1>0, <1>6 DEF RowByRow

\* The split is a list of pairs of rows.
LEMMA SidesArePairs ==
    ASSUME NEW rows \in Seq(Rows)
    PROVE  SideBySide(rows) \in Seq(Items)
<1>0. PICK n \in Nat : n = Len(rows)
  OBVIOUS
<1>1. PICK f : f = CHOOSE g : RowByRow(rows, g)
  OBVIOUS
<1>2. RowByRow(rows, f)
  BY <1>1, SidesExist
<1>3. SideBySide(rows) = f[1]
  BY <1>1, Zenon DEF SideBySide, RowByRow, Beside
<1>4. \A i \in 1 .. n + 1 : f[i] = Beside(rows, i, f)
  BY <1>0, <1>2 DEF RowByRow
<1>5. f[1] \in Seq(Items)
  <2>1. SUFFICES ASSUME f[1] \notin Seq(Items)
                 PROVE  FALSE
    OBVIOUS
  <2>2. PICK Bad : Bad = {m \in 1 .. n + 1 : f[m] \notin Seq(Items)}
    OBVIOUS
  <2>3. Bad \in SUBSET (1 .. n + 1) /\ 1 \in Bad /\ n + 1 \in Nat
    BY <2>1, <2>2
  <2>4. PICK b \in Bad : \A y \in Bad : b >= y
    BY <2>3, GreatestOf
  <2>5. b \in 1 .. n + 1 /\ f[b] \notin Seq(Items) /\ f[b] = Beside(rows, b, f)
    BY <1>4, <2>2
  <2>6. CASE b = n + 1
    <3>1. f[b] = <<>>
      BY <1>0, <2>5, <2>6, BesideIs
    <3>2. <<>> \in Seq(Items)
      OBVIOUS
    <3>. QED  BY <2>5, <3>1, <3>2
  <2>7. CASE b # n + 1
    <3>1. PICK list \in Seq(Items), a \in b + 1 .. n + 1 : \A from : Beside(rows, b, from) = list \o from[a]
      BY <1>0, <2>5, <2>7, BesideIs
    <3>2. a \in 1 .. n + 1 /\ ~ (b >= a)
      BY <2>5, <3>1
    <3>3. f[a] \in Seq(Items)
      BY <2>2, <2>4, <3>2
    <3>4. list \o f[a] \in Seq(Items)
      BY ONLY <3>3, list \in Seq(Items)
    <3>. QED  BY <2>5, <3>1, <3>4
  <2>. QED  BY <2>6, <2>7
<1>. QED  BY <1>3, <1>5

-----------------------------------------------------------------------------
(* The view over the stage. *)

Viewed(v) == v \in OpenViews /\ ViewOf(v)
ViewReads == [path : Paths, group : Groups \cup {NoGroup}]

\* The parts of an open view.
LEMMA ViewParts ==
    ASSUME NEW v, Viewed(v)
    PROVE  /\ v \in OpenViews /\ v # None /\ v.kind \in {"file", "diff"}
           /\ v.reads \in Seq(ViewReads) /\ v.rows \in Seq(Rows) /\ v.items \in Seq(Items)
           /\ v.stops \in SUBSET Nat /\ v.matches \in Nat /\ v.at \in Nat /\ v.split \in BOOLEAN
           /\ v.path \in Paths \cup {None} /\ v.group \in Groups \cup {NoGroup} /\ v.asking \in SUBSET Paths
           /\ v.stops \subseteq DOMAIN v.items
           /\ v.kind = "diff" => v.at \in v.stops \cup {0}
           /\ v.kind = "file" => v.at \in (1 .. v.matches) \cup {0}
<1>1. v \in OpenViews /\ v # None
  BY NoneIsNothing DEF Viewed
<1>2. /\ v.stops \subseteq DOMAIN v.items
      /\ v.at \in (IF v.kind = "diff" THEN v.stops ELSE 1 .. v.matches) \cup {0}
  BY <1>1 DEF Viewed, ViewOf
<1>3. /\ v.kind = "diff" => v.at \in v.stops \cup {0}
      /\ v.kind = "file" => v.at \in (1 .. v.matches) \cup {0}
  BY <1>2
<1>4. /\ v.kind \in {"file", "diff"}
      /\ v.reads \in Seq(ViewReads) /\ v.rows \in Seq(Rows) /\ v.items \in Seq(Items)
      /\ v.stops \in SUBSET Nat /\ v.matches \in Nat /\ v.at \in Nat /\ v.split \in BOOLEAN
      /\ v.path \in Paths \cup {None} /\ v.group \in Groups \cup {NoGroup} /\ v.asking \in SUBSET Paths
  BY <1>1 DEF OpenViews, ViewReads, Items
<1>. QED  BY <1>1, <1>2, <1>3, <1>4

\* A view that stops and counts as it did.
LEMMA ViewedAlike ==
    ASSUME NEW v, Viewed(v), NEW g \in OpenViews, g.kind = v.kind, g.items = v.items, g.stops = v.stops,
           g.matches = v.matches, g.at = v.at
    PROVE  Viewed(g)
BY NoneIsNothing DEF Viewed, ViewOf

\* A new view.
LEMMA FreshIsViewed ==
    ASSUME NEW kind \in {"file", "diff"}, NEW split \in BOOLEAN
    PROVE  Viewed(FreshView(kind, split)) /\ FreshView(kind, split).kind = kind
<1>1. PICK g : g = FreshView(kind, split)
  OBVIOUS
<1>2. <<>> \in Seq(ViewReads) /\ <<>> \in Seq(Rows) /\ <<>> \in Seq(Items)
  OBVIOUS
<1>3. g \in OpenViews /\ g.stops = {} /\ g.at = 0 /\ g.kind = kind
  BY <1>1, <1>2 DEF FreshView, OpenViews, ViewReads, Items
<1>4. ViewOf(g)
  BY <1>3 DEF ViewOf
<1>. QED  BY <1>1, <1>3, <1>4 DEF Viewed

\* It is asked for a file or a diff.
LEMMA ViewTakes ==
    ASSUME NEW v, Viewed(v), NEW path \in Paths, NEW group \in Groups \cup {NoGroup}
    PROVE  Viewed(ViewOpens(v, path, group))
<1>0. /\ v \in OpenViews /\ v.reads \in Seq(ViewReads)
  BY ViewParts
<1>1. PICK r : r = [path |-> path, group |-> group]
  OBVIOUS
<1>2. PICK reads : reads = Append(v.reads, r)
  OBVIOUS
<1>3. reads \in Seq(ViewReads)
  <2>1. r \in ViewReads
    BY <1>1 DEF ViewReads
  <2>. QED  BY <1>0, <1>2, <2>1, AppendIs
<1>4. PICK none \in Seq(Rows) : none = <<>>
  <2>1. <<>> \in Seq(Rows)
    OBVIOUS
  <2>. QED  BY <2>1
<1>5. PICK h : h = [v EXCEPT !.path = path, !.group = group, !.body = "loading", !.rows = none, !.reads = reads]
  OBVIOUS
<1>6. /\ h \in OpenViews /\ h.kind = v.kind /\ h.items = v.items /\ h.stops = v.stops /\ h.matches = v.matches /\ h.at = v.at
      /\ h.asking = v.asking
  BY <1>0, <1>3, <1>5 DEF OpenViews, ViewReads
<1>7. Viewed(h)
  BY <1>6, ViewedAlike
<1>8. PICK g : g = ViewOpens(v, path, group)
  OBVIOUS
<1>9. CASE v.kind = "diff"
  BY <1>1, <1>2, <1>4, <1>5, <1>7, <1>9 DEF ViewOpens
<1>10. CASE v.kind # "diff"
  <2>1. PICK asking \in SUBSET Paths : asking = h.asking \cup {path}
    BY <1>6, <1>7, ViewParts
  <2>2. g = [h EXCEPT !.asking = asking, !.changes = NoGroup, !.find = "hidden", !.matches = 0, !.at = 0]
    BY <1>1, <1>2, <1>4, <1>5, <1>8, <1>10, <2>1 DEF ViewOpens
  <2>3. g \in OpenViews /\ g.kind = v.kind /\ g.items = v.items /\ g.stops = v.stops /\ g.at = 0
    BY <1>6, <2>1, <2>2 DEF OpenViews
  <2>4. g.stops \subseteq DOMAIN g.items
    BY <2>3, ViewParts
  <2>. QED  BY <1>8, <2>3, <2>4 DEF Viewed, ViewOf
<1>. QED  BY <1>9, <1>10

\* A diff goes to another stop.
LEMMA ViewGoes ==
    ASSUME NEW v, Viewed(v), v.kind = "diff", NEW delta
    PROVE  Viewed(Go(v, delta)) /\ Go(v, delta).kind = "diff"
<1>1. v \in OpenViews /\ v.items \in Seq(Items) /\ v.stops \subseteq DOMAIN v.items
  BY ViewParts
<1>2. CASE v.stops = {}
  BY <1>2 DEF Go
<1>3. CASE v.stops # {}
  <2>1. PICK n \in Nat : DOMAIN v.items = 1 .. n
    BY <1>1
  <2>2. PICK at : at = NextStop(v.stops, v.at, delta)
    OBVIOUS
  <2>3. at \in v.stops /\ at \in Nat
    <3>1. v.stops \in SUBSET (1 .. n)
      BY <1>1, <2>1
    <3>2. at \in v.stops
      BY <1>3, <2>2, <3>1, StopIsOne
    <3>. QED  BY <3>1, <3>2
  <2>4. Go(v, delta) = [v EXCEPT !.at = at]
    BY <1>3, <2>2 DEF Go
  <2>5. PICK g : g = [v EXCEPT !.at = at]
    OBVIOUS
  <2>6. g \in OpenViews /\ g.kind = "diff" /\ g.items = v.items /\ g.stops = v.stops /\ g.at = at
    BY <1>1, <2>3, <2>5 DEF OpenViews
  <2>. QED  BY <1>1, <2>3, <2>4, <2>5, <2>6 DEF Viewed, ViewOf
<1>. QED  BY <1>2, <1>3

\* A diff is drawn.
LEMMA DiffIsDrawn ==
    ASSUME NEW v, Viewed(v), v.kind = "diff"
    PROVE  Viewed(RenderDiff(v)) /\ RenderDiff(v).kind = "diff"
<1>1. v \in OpenViews /\ v.rows \in Seq(Rows)
  BY ViewParts
<1>2. PICK items : items = IF v.split THEN SideBySide(v.rows) ELSE Unified(v.rows)
  OBVIOUS
<1>3. items \in Seq(Items)
  <2>1. SideBySide(v.rows) \in Seq(Items)
    BY <1>1, SidesArePairs
  <2>2. Unified(v.rows) \in Seq(Items)
    <3>1. PICK n \in Nat : n = Len(v.rows) /\ DOMAIN v.rows = 1 .. n
      BY <1>1
    <3>2. \A i \in 1 .. n : v.rows[i] \in Rows
      BY <1>1, <3>1, ElementIs
    <3>3. Unified(v.rows) \in [1 .. n -> Items]
      BY <3>1, <3>2 DEF Unified, Items
    <3>. QED  BY <3>3, ListIs
  <2>. QED  BY <1>2, <2>1, <2>2
<1>4. PICK stops : stops = ChangeStops(items)
  OBVIOUS
<1>5. stops \subseteq DOMAIN items /\ stops \in SUBSET Nat
  <2>1. stops \subseteq DOMAIN items
    BY <1>4 DEF ChangeStops
  <2>2. PICK n \in Nat : DOMAIN items = 1 .. n
    BY <1>3
  <2>. QED  BY <2>1, <2>2
<1>6. PICK g : g = [v EXCEPT !.items = items, !.stops = stops, !.at = 0, !.body = "diff"]
  OBVIOUS
<1>7. g = RenderDiff(v)
  BY <1>2, <1>4, <1>6 DEF RenderDiff
<1>8. g \in OpenViews /\ g.kind = "diff" /\ g.items = items /\ g.stops = stops /\ g.at = 0
  BY <1>1, <1>3, <1>5, <1>6 DEF OpenViews, Items
<1>. QED  BY <1>5, <1>7, <1>8 DEF Viewed, ViewOf

\* A request of a view is answered; what it says is seen to next.
LEMMA ReadGone ==
    ASSUME NEW v, Viewed(v), NEW i \in DOMAIN v.reads, NEW body \in {"loading", "text", "message", "diff"}
    PROVE  /\ Viewed([v EXCEPT !.reads = RemoveAt(v.reads, i)])
           /\ [v EXCEPT !.reads = RemoveAt(v.reads, i)].kind = v.kind
           /\ Viewed([[v EXCEPT !.reads = RemoveAt(v.reads, i)] EXCEPT !.body = body])
<1>0. v \in OpenViews /\ v.reads \in Seq(ViewReads)
  BY ViewParts
<1>1. PICK reads : reads = RemoveAt(v.reads, i)
  OBVIOUS
<1>2. reads \in Seq(ViewReads)
  BY <1>0, <1>1, RemoveIs
<1>3. PICK h : h = [v EXCEPT !.reads = reads]
  OBVIOUS
<1>4. h \in OpenViews /\ h.kind = v.kind /\ h.items = v.items /\ h.stops = v.stops /\ h.matches = v.matches /\ h.at = v.at
  BY <1>0, <1>2, <1>3 DEF OpenViews, ViewReads
<1>5. PICK g : g = [h EXCEPT !.body = body]
  OBVIOUS
<1>6. g \in OpenViews /\ g.kind = v.kind /\ g.items = v.items /\ g.stops = v.stops /\ g.matches = v.matches /\ g.at = v.at
  BY <1>4, <1>5 DEF OpenViews
<1>7. Viewed(h) /\ Viewed(g)
  BY <1>4, <1>6, ViewedAlike
<1>. QED  BY <1>1, <1>3, <1>4, <1>5, <1>7

\* A diff comes.
LEMMA DiffComes ==
    ASSUME NEW v, Viewed(v), v.kind = "diff", NEW i \in DOMAIN v.reads, NEW lines \in Diffs,
           NEW how \in {"ok", "large", "fails"}
    PROVE  Viewed(DiffAnswers(v, i, lines, how))
<1>1. PICK h : h = [v EXCEPT !.reads = RemoveAt(v.reads, i)]
  OBVIOUS
<1>2. Viewed(h) /\ h.kind = "diff" /\ Viewed([h EXCEPT !.body = "message"])
  BY <1>1, ReadGone
<1>3. Viewed(DiffShows(h, lines))
  <2>1. PICK rows : rows = ParseDiff(lines)
    OBVIOUS
  <2>2. rows \in Seq(Rows)
    BY <2>1, DiffIsRows, PanelAssumption
  <2>3. PICK e : e = [h EXCEPT !.rows = rows]
    OBVIOUS
  <2>4. h \in OpenViews
    BY <1>2, ViewParts
  <2>5. /\ e \in OpenViews /\ e.kind = h.kind /\ e.items = h.items /\ e.stops = h.stops /\ e.matches = h.matches
        /\ e.at = h.at /\ e.rows = rows
    BY <2>2, <2>3, <2>4 DEF OpenViews
  <2>6. Viewed(e) /\ e.kind = "diff"
    BY <1>2, <2>5, ViewedAlike
  <2>7. CASE rows = <<>>
    <3>1. PICK f : f = [e EXCEPT !.body = "message"]
      OBVIOUS
    <3>2. f \in OpenViews /\ f.kind = e.kind /\ f.items = e.items /\ f.stops = e.stops /\ f.matches = e.matches /\ f.at = e.at
      BY <2>5, <3>1 DEF OpenViews
    <3>3. DiffShows(h, lines) = f
      BY <2>1, <2>3, <2>5, <2>7, <3>1 DEF DiffShows
    <3>. QED  BY <2>6, <3>2, <3>3, ViewedAlike
  <2>8. CASE rows # <<>>
    <3>1. PICK d : d = RenderDiff(e)
      OBVIOUS
    <3>2. Viewed(d) /\ d.kind = "diff"
      BY <2>6, <3>1, DiffIsDrawn
    <3>3. DiffShows(h, lines) = Go(d, 1)
      BY <2>1, <2>3, <2>5, <2>8, <3>1 DEF DiffShows
    <3>. QED  BY <3>2, <3>3, ViewGoes
  <2>. QED  BY <2>7, <2>8
<1>4. \/ DiffAnswers(v, i, lines, how) = h
      \/ DiffAnswers(v, i, lines, how) = [h EXCEPT !.body = "message"]
      \/ DiffAnswers(v, i, lines, how) = DiffShows(h, lines)
  BY <1>1 DEF DiffAnswers
<1>. QED  BY <1>2, <1>3, <1>4

\* The layout turns.
LEMMA LayoutTurns ==
    ASSUME NEW v, Viewed(v), v.kind = "diff"
    PROVE  Viewed(ToggleLayout(v))
<1>0. v \in OpenViews /\ v.split \in BOOLEAN
  BY ViewParts
<1>1. PICK split \in BOOLEAN : split = ~ v.split
  OBVIOUS
<1>2. PICK h : h = [v EXCEPT !.split = split]
  OBVIOUS
<1>3. h \in OpenViews /\ h.kind = v.kind /\ h.items = v.items /\ h.stops = v.stops /\ h.matches = v.matches /\ h.at = v.at
  BY <1>0, <1>2 DEF OpenViews
<1>4. Viewed(h) /\ h.kind = "diff"
  BY <1>3, ViewedAlike
<1>5. PICK d : d = RenderDiff(h)
  OBVIOUS
<1>6. Viewed(d) /\ d.kind = "diff"
  BY <1>4, <1>5, DiffIsDrawn
<1>7. ToggleLayout(v) = h \/ ToggleLayout(v) = Go(d, 1)
  BY <1>1, <1>2, <1>5 DEF ToggleLayout
<1>. QED  BY <1>4, <1>6, <1>7, ViewGoes

\* A file comes.
LEMMA FileComes ==
    ASSUME NEW v, Viewed(v), NEW i \in DOMAIN v.reads, NEW body \in {"text", "message"}
    PROVE  Viewed(FileAnswers(v, i, body))
<1>1. PICK h : h = [v EXCEPT !.reads = RemoveAt(v.reads, i)]
  OBVIOUS
<1>2. Viewed(h) /\ Viewed([h EXCEPT !.body = body])
  BY <1>1, ReadGone
<1>3. FileAnswers(v, i, body) = h \/ FileAnswers(v, i, body) = [h EXCEPT !.body = body]
  BY <1>1 DEF FileAnswers
<1>. QED  BY <1>2, <1>3

\* The find bar and its matches.
Found(v, n, at, find) == [v EXCEPT !.matches = n, !.at = at, !.find = find]
\* The box of a file over the stage finds some, at one of them or at none.
LEMMA MatchesMove ==
    ASSUME NEW v, Viewed(v), v.kind = "file"
    PROVE  \A n \in Nat, at \in Nat, find \in {"hidden", "find", "line"} :
               at = 0 \/ at \in 1 .. n => Viewed(Found(v, n, at, find))
<1>. SUFFICES ASSUME NEW n \in Nat, NEW at \in Nat, NEW find \in {"hidden", "find", "line"}, at = 0 \/ at \in 1 .. n
              PROVE  Viewed(Found(v, n, at, find))
  OBVIOUS
<1>0. v \in OpenViews /\ v.stops \subseteq DOMAIN v.items
  BY ViewParts
<1>1. PICK g : g = [v EXCEPT !.matches = n, !.at = at, !.find = find]
  OBVIOUS
<1>2. g \in OpenViews /\ g.kind = "file" /\ g.items = v.items /\ g.stops = v.stops /\ g.matches = n /\ g.at = at
  BY <1>0, <1>1 DEF OpenViews
<1>3. ViewOf(g)
  BY <1>0, <1>2 DEF ViewOf
<1>. QED  BY <1>1, <1>2, <1>3 DEF Viewed, Found

\* Whatever the keys of the file view do.
LEMMA FileKeys ==
    ASSUME NEW v, Viewed(v), v.kind = "file"
    PROVE  /\ \A as \in {"find", "line"} : Viewed(OpenFind(v, as))
           /\ Viewed(CloseFind(v))
           /\ \A n \in Nat : Viewed(RunFind(v, n))
           /\ \A delta \in {-1, 1} : Viewed(StepMatch(v, delta))
<1>0. /\ v \in OpenViews /\ v.matches \in Nat /\ v.at \in Nat /\ v.at \in (1 .. v.matches) \cup {0}
      /\ v.find \in {"hidden", "find", "line"}
  BY ViewParts DEF OpenViews
<1>1. ASSUME NEW as \in {"find", "line"}
      PROVE  Viewed(OpenFind(v, as))
  <2>1. \/ OpenFind(v, as) = v
        \/ OpenFind(v, as) = Found(v, 0, 0, as)
        \/ OpenFind(v, as) = Found(v, v.matches, v.at, as)
    BY <1>0 DEF OpenFind, ClearFind, OpenViews, Found
  <2>. QED  BY <1>0, <2>1, MatchesMove
<1>2. Viewed(CloseFind(v))
  <2>1. CloseFind(v) = Found(v, 0, 0, "hidden")
    BY <1>0 DEF CloseFind, ClearFind, OpenViews, Found
  <2>. QED  BY <2>1, MatchesMove
<1>3. ASSUME NEW n \in Nat
      PROVE  Viewed(RunFind(v, n))
  <2>1. PICK at \in Nat : at = IF n = 0 THEN 0 ELSE 1
    OBVIOUS
  <2>2. RunFind(v, n) = Found(v, n, at, v.find)
    BY <1>0, <2>1 DEF RunFind, OpenViews, Found
  <2>3. at = 0 \/ at \in 1 .. n
    BY <2>1
  <2>. QED  BY <1>0, <2>2, <2>3, MatchesMove
<1>4. ASSUME NEW delta \in {-1, 1}
      PROVE  Viewed(StepMatch(v, delta))
  <2>1. CASE v.matches = 0
    BY <2>1 DEF StepMatch
  <2>2. CASE v.matches # 0
    <3>1. PICK m \in Nat : m = v.matches /\ m > 0
      BY <1>0, <2>2
    <3>2. PICK x \in Int : x = v.at - 1 + delta + v.matches
      BY <1>0
    <3>3. x % m \in 0 .. m - 1
      BY ONLY <3>1, x \in Int, m \in Nat
    <3>4. PICK at \in 1 .. m : at = 1 + (x % m)
      BY ONLY <3>3, m \in Nat
    <3>5. StepMatch(v, delta) = Found(v, m, at, v.find)
      BY <1>0, <2>2, <3>1, <3>2, <3>4 DEF StepMatch, OpenViews, Found
    <3>6. at \in Nat
      BY <3>4
    <3>. QED  BY <1>0, <3>4, <3>5, <3>6, MatchesMove
  <2>. QED  BY <2>1, <2>2
<1>. QED  BY <1>1, <1>2, <1>3, <1>4

\* git says where the file belongs.
LEMMA MarkComes ==
    ASSUME NEW v, Viewed(v), NEW path, NEW group \in Groups
    PROVE  Viewed(Marked(v, path, group))
<1>0. v \in OpenViews /\ v.asking \in SUBSET Paths /\ v.changes \in Groups \cup {NoGroup}
  <2>1. v \in OpenViews /\ v.asking \in SUBSET Paths
    BY ViewParts
  <2>. QED  BY <2>1 DEF OpenViews
<1>1. PICK asking \in SUBSET Paths : asking = v.asking \ {path}
  BY <1>0
<1>2. PICK changes \in Groups \cup {NoGroup} : changes = IF v.path = path THEN group ELSE v.changes
  BY <1>0
<1>3. PICK g : g = [v EXCEPT !.asking = asking, !.changes = changes]
  OBVIOUS
<1>4. g = Marked(v, path, group)
  BY <1>1, <1>2, <1>3 DEF Marked
<1>5. g \in OpenViews /\ g.kind = v.kind /\ g.items = v.items /\ g.stops = v.stops /\ g.matches = v.matches /\ g.at = v.at
  BY <1>0, <1>3 DEF OpenViews
<1>. QED  BY <1>4, <1>5, ViewedAlike

-----------------------------------------------------------------------------
(* The frame: the keyboard, the column, the tabs. *)

Keys == {"terminal", "panel", "viewer", "box", "page"}

\* The panel but for its tabs, with nothing said yet of a hidden one.
Loose(p) ==
    /\ p \in Panels /\ (p.viewer # None => Viewed(p.viewer))
    /\ p.claims.viewer = IF p.viewer = None THEN 0 ELSE 1
    /\ p.claims.panel = IF p.claimed THEN 1 ELSE 0
    /\ p.claimed => p.keys = "panel"
    /\ p.keys = "viewer" => p.viewer # None
Framed(p) == Loose(p) /\ (~ p.open => p.keys # "panel")

\* q has the tabs of p.
Kin(p, q) == q.files = p.files /\ q.changes = p.changes /\ q.pr = p.pr /\ q.workspace = p.workspace
\* q has the rest of p.
Same(p, q) ==
    /\ q.open = p.open /\ q.keys = p.keys /\ q.claimed = p.claimed /\ q.claims = p.claims /\ q.viewer = p.viewer

\* The parts of a panel.
LEMMA PanelParts ==
    ASSUME NEW p \in Panels
    PROVE  /\ p.open \in BOOLEAN /\ p.pinned \in BOOLEAN /\ p.tab \in Tabs /\ p.workspace \in Places
           /\ p.asked \in SUBSET Workspaces /\ p.timer \in SUBSET Tabs /\ p.keys \in Keys /\ p.claimed \in BOOLEAN
           /\ p.claims \in [panel : Nat, viewer : Nat] /\ p.files \in FilesTabs /\ p.changes \in ChangesTabs
           /\ p.pr \in PrTabs /\ p.viewer \in OpenViews \cup {None} /\ p.split \in BOOLEAN
           /\ p.record \in {"unknown", "folder", "no folder"}
BY DEF Panels, Places, Keys

\* What Framed says is what the invariant says.
LEMMA FramedIs ==
    ASSUME NEW p
    PROVE  Framed(p) <=> p \in Panels /\ KeysOf(p) /\ ViewOf(p.viewer)
<1>1. ASSUME p \in Panels
      PROVE  (p.viewer # None => Viewed(p.viewer)) <=> ViewOf(p.viewer)
  BY <1>1, PanelParts DEF Viewed, ViewOf
<1>. QED  BY <1>1 DEF Framed, Loose, KeysOf

\* Nothing of the frame is about the rest of a panel.
LEMMA SameFrame ==
    ASSUME NEW p, NEW q \in Panels, Same(p, q)
    PROVE  (Loose(p) => Loose(q)) /\ (Framed(p) => Framed(q))
BY DEF Same, Loose, Framed

\* The timer is set.
LEMMA ScheduleIs ==
    ASSUME NEW p, Framed(p)
    PROVE  Framed(Schedule(p)) /\ Kin(p, Schedule(p)) /\ Same(p, Schedule(p))
<1>1. p \in Panels
  BY DEF Framed, Loose
<1>2. PICK timer \in SUBSET Tabs : timer = Polled(p)
  <2>1. Polled(p) \in SUBSET Tabs
    BY <1>1, PanelParts DEF Polled
  <2>. QED  BY <2>1
<1>3. PICK q : q = [p EXCEPT !.timer = timer]
  OBVIOUS
<1>4. q \in Panels /\ Kin(p, q) /\ Same(p, q)
  BY <1>1, <1>3 DEF Panels, Kin, Same
<1>5. q = Schedule(p)
  BY <1>2, <1>3 DEF Schedule
<1>. QED  BY <1>4, <1>5, SameFrame

\* The panel lets go of the keyboard.
LEMMA ReleaseIs ==
    ASSUME NEW p, Loose(p)
    PROVE  LET q == ReleasePanelFocus(p) IN
           Loose(q) /\ Kin(p, q) /\ q.open = p.open /\ q.viewer = p.viewer /\ q.keys = p.keys /\ q.claimed = FALSE
                    /\ q.tab = p.tab
<1>1. p \in Panels /\ p.claimed \in BOOLEAN /\ p.claims \in [panel : Nat, viewer : Nat]
  BY PanelParts DEF Loose
<1>2. CASE ~ p.claimed
  <2>1. ReleasePanelFocus(p) = p
    BY <1>2 DEF ReleasePanelFocus
  <2>. QED  BY <1>1, <1>2, <2>1 DEF Kin
<1>3. CASE p.claimed
  <2>1. p.claims.panel = 1
    BY <1>3 DEF Loose
  <2>2. PICK claims : claims = [p.claims EXCEPT !.panel = 0]
    OBVIOUS
  <2>3. claims \in [panel : Nat, viewer : Nat] /\ claims.panel = 0 /\ claims.viewer = p.claims.viewer
    BY <1>1, <2>2
  <2>4. PICK q : q = [p EXCEPT !.claimed = FALSE, !.claims = claims]
    OBVIOUS
  <2>5. q = ReleasePanelFocus(p)
    BY <1>3, <2>1, <2>2, <2>4 DEF ReleasePanelFocus, Released
  <2>6. /\ q \in Panels /\ Kin(p, q) /\ q.open = p.open /\ q.viewer = p.viewer /\ q.keys = p.keys /\ q.claimed = FALSE
        /\ q.claims = claims /\ q.tab = p.tab
    BY <1>1, <2>3, <2>4 DEF Panels, Kin
  <2>7. Loose(q)
    BY <2>3, <2>6 DEF Loose
  <2>. QED  BY <2>5, <2>6, <2>7
<1>. QED  BY <1>1, <1>2, <1>3

\* The keyboard goes elsewhere.
LEMMA FocusOutIs ==
    ASSUME NEW p, Loose(p), NEW to \in Keys, to # "panel", to = "viewer" => p.viewer # None
    PROVE  LET q == FocusOut(p, to) IN Framed(q) /\ Kin(p, q) /\ q.open = p.open /\ q.viewer = p.viewer /\ q.keys = to
<1>1. PICK r : r = ReleasePanelFocus(p)
  OBVIOUS
<1>2. Loose(r) /\ Kin(p, r) /\ r.open = p.open /\ r.viewer = p.viewer /\ r.claimed = FALSE
  BY <1>1, ReleaseIs
<1>3. r \in Panels
  BY <1>2 DEF Loose
<1>4. PICK q : q = [r EXCEPT !.keys = to]
  OBVIOUS
<1>5. /\ q \in Panels /\ Kin(r, q) /\ q.open = r.open /\ q.viewer = r.viewer /\ q.claimed = FALSE /\ q.claims = r.claims
      /\ q.keys = to
  BY <1>2, <1>3, <1>4 DEF Panels, Kin, Keys
<1>6. Framed(q)
  BY <1>2, <1>5 DEF Loose, Framed
<1>7. q = FocusOut(p, to)
  BY <1>1, <1>4 DEF FocusOut
<1>. QED  BY <1>2, <1>5, <1>6, <1>7 DEF Kin

\* The panel takes the keyboard.
LEMMA FocusInIs ==
    ASSUME NEW p, Framed(p), p.open
    PROVE  LET q == FocusIn(p) IN Framed(q) /\ Kin(p, q) /\ q.open = p.open /\ q.viewer = p.viewer
<1>1. p \in Panels /\ p.claims \in [panel : Nat, viewer : Nat] /\ Loose(p)
  BY PanelParts DEF Framed, Loose
<1>2. CASE p.claimed
  <2>1. PICK q : q = [p EXCEPT !.keys = "panel"]
    OBVIOUS
  <2>2. /\ q \in Panels /\ Kin(p, q) /\ q.open = p.open /\ q.viewer = p.viewer /\ q.claimed = p.claimed /\ q.claims = p.claims
        /\ q.keys = "panel"
    BY <1>1, <2>1 DEF Panels, Kin
  <2>3. Framed(q)
    BY <1>1, <2>2 DEF Loose, Framed
  <2>. QED  BY <1>2, <2>1, <2>2, <2>3 DEF FocusIn
<1>3. CASE ~ p.claimed
  <2>1. p.claims.panel = 0
    BY <1>1, <1>3 DEF Loose
  <2>2. PICK claims : claims = [p.claims EXCEPT !.panel = 1]
    OBVIOUS
  <2>3. claims \in [panel : Nat, viewer : Nat] /\ claims.panel = 1 /\ claims.viewer = p.claims.viewer
    BY <1>1, <2>2
  <2>4. PICK q : q = [p EXCEPT !.keys = "panel", !.claimed = TRUE, !.claims = claims]
    OBVIOUS
  <2>5. q = FocusIn(p)
    BY <1>3, <2>1, <2>2, <2>4 DEF FocusIn, Claimed
  <2>6. /\ q \in Panels /\ Kin(p, q) /\ q.open = p.open /\ q.viewer = p.viewer /\ q.claimed = TRUE /\ q.claims = claims
        /\ q.keys = "panel"
    BY <1>1, <2>3, <2>4 DEF Panels, Kin
  <2>7. Framed(q)
    BY <1>1, <2>3, <2>6 DEF Loose, Framed
  <2>. QED  BY <2>5, <2>6, <2>7
<1>. QED  BY <1>2, <1>3

\* The terminal takes it back, if nothing else claims it.
LEMMA FocusBackIs ==
    ASSUME NEW p, Loose(p)
    PROVE  LET q == FocusBack(p) IN
           /\ Loose(q) /\ Kin(p, q) /\ q.open = p.open /\ q.viewer = p.viewer
           /\ Framed(p) => Framed(q)
<1>1. FocusBack(p) = p \/ FocusBack(p) = FocusOut(p, "terminal")
  BY DEF FocusBack
<1>2. LET q == FocusOut(p, "terminal") IN Framed(q) /\ Kin(p, q) /\ q.open = p.open /\ q.viewer = p.viewer
  BY FocusOutIs DEF Keys
<1>3. CASE FocusBack(p) = p
  BY <1>3 DEF Kin
<1>4. CASE FocusBack(p) = FocusOut(p, "terminal")
  BY <1>2, <1>4 DEF Framed
<1>. QED  BY <1>1, <1>3, <1>4

\* A tab takes it, if it can.
LEMMA TabFocusIs ==
    ASSUME NEW p, Framed(p), p.open
    PROVE  LET q == TabFocus(p) IN Framed(q) /\ Kin(p, q) /\ q.open = p.open /\ q.viewer = p.viewer
<1>1. TabFocus(p) = p \/ TabFocus(p) = FocusIn(p)
  BY DEF TabFocus
<1>2. CASE TabFocus(p) = p
  BY <1>2 DEF Kin
<1>3. CASE TabFocus(p) = FocusIn(p)
  BY <1>3, FocusInIs
<1>. QED  BY <1>1, <1>2, <1>3

\* A confirmation gives it back.
LEMMA UnaskedIs ==
    ASSUME NEW p, Framed(p)
    PROVE  Framed(Unasked(p)) /\ Kin(p, Unasked(p))
<1>1. CASE p.open /\ p.keys = "box"
  BY <1>1, FocusInIs DEF Unasked
<1>2. CASE ~ (p.open /\ p.keys = "box")
  BY <1>2 DEF Unasked, Kin
<1>. QED  BY <1>1, <1>2

-----------------------------------------------------------------------------
(* The frame: what opens and closes. *)

\* The view over the stage closes.
LEMMA OverlayCloses ==
    ASSUME NEW p, Framed(p), NEW handBack \in BOOLEAN
    PROVE  LET q == CloseOverlay(p, handBack) IN
           /\ Framed(q) /\ Kin(p, q) /\ q.open = p.open /\ q.viewer = None
           /\ ~ handBack => q.tab = p.tab
<1>0. p \in Panels /\ Loose(p)
  BY DEF Framed, Loose
<1>1. CASE p.viewer = None
  BY <1>0, <1>1 DEF CloseOverlay, Kin
<1>2. CASE p.viewer # None
  <2>1. p.claims \in [panel : Nat, viewer : Nat] /\ p.keys \in Keys
    BY <1>0, PanelParts
  <2>2. PICK split \in BOOLEAN : split = p.viewer.split
    BY <1>0, <1>2, ViewParts DEF Loose
  <2>3. PICK claims : claims = [p.claims EXCEPT !.viewer = 0]
    OBVIOUS
  <2>4. claims \in [panel : Nat, viewer : Nat] /\ claims.viewer = 0 /\ claims.panel = p.claims.panel
    BY <2>1, <2>3
  <2>5. PICK keys \in Keys : keys = IF p.keys = "viewer" THEN "page" ELSE p.keys
    BY <2>1 DEF Keys
  <2>6. PICK gone : gone = [p EXCEPT !.viewer = None, !.split = split, !.claims = claims, !.keys = keys]
    OBVIOUS
  <2>7. /\ gone \in Panels /\ Kin(p, gone) /\ gone.open = p.open /\ gone.viewer = None /\ gone.claimed = p.claimed
        /\ gone.claims = claims /\ gone.keys = keys /\ gone.tab = p.tab
    BY <1>0, <2>2, <2>4, <2>5, <2>6 DEF Panels, Kin, Keys
  <2>8. Framed(gone)
    <3>1. keys # "viewer" /\ (keys = "panel" <=> p.keys = "panel")
      BY <2>5
    <3>2. Loose(gone)
      BY <1>0, <2>4, <2>7, <3>1 DEF Loose
    <3>. QED  BY <2>7, <3>1, <3>2 DEF Framed
  <2>9. p.claims.viewer = 1
    BY <1>0, <1>2 DEF Loose
  <2>10. gone = [p EXCEPT !.viewer = None, !.split = p.viewer.split, !.claims.viewer = Released(p.claims.viewer),
                          !.keys = IF p.keys = "viewer" THEN "page" ELSE p.keys]
    BY <2>2, <2>3, <2>5, <2>6, <2>9 DEF Released
  <2>11. CloseOverlay(p, handBack) = IF ~ handBack THEN gone ELSE IF gone.open THEN TabFocus(gone) ELSE FocusBack(gone)
    BY <1>2, <2>10 DEF CloseOverlay
  <2>12. CASE ~ handBack
    BY <2>7, <2>8, <2>11, <2>12
  <2>13. CASE handBack /\ gone.open
    <3>1. PICK q : q = TabFocus(gone)
      OBVIOUS
    <3>2. Framed(q) /\ Kin(gone, q) /\ q.open = gone.open /\ q.viewer = gone.viewer
      BY <2>8, <2>13, <3>1, TabFocusIs
    <3>. QED  BY <2>7, <2>11, <2>13, <3>1, <3>2 DEF Kin
  <2>14. CASE handBack /\ ~ gone.open
    <3>1. PICK q : q = FocusBack(gone)
      OBVIOUS
    <3>2. Framed(q) /\ Kin(gone, q) /\ q.open = gone.open /\ q.viewer = gone.viewer
      BY <2>8, <3>1, FocusBackIs DEF Framed
    <3>. QED  BY <2>7, <2>11, <2>14, <3>1, <3>2 DEF Kin
  <2>. QED  BY <2>12, <2>13, <2>14
<1>. QED  BY <1>1, <1>2

\* The panel hides.
LEMMA HiddenIs ==
    ASSUME NEW p, Framed(p), NEW handBack \in BOOLEAN
    PROVE  Framed(SetHidden(p, handBack)) /\ Kin(p, SetHidden(p, handBack))
<1>0. p \in Panels /\ Loose(p)
  BY DEF Framed, Loose
<1>1. PICK shut : shut = [p EXCEPT !.open = FALSE]
  OBVIOUS
<1>2. /\ shut \in Panels /\ Kin(p, shut) /\ shut.open = FALSE /\ shut.keys = p.keys /\ shut.claimed = p.claimed
      /\ shut.claims = p.claims /\ shut.viewer = p.viewer
  BY <1>0, <1>1 DEF Panels, Kin
<1>3. Loose(shut)
  BY <1>0, <1>2 DEF Loose
<1>4. PICK free : free = ReleasePanelFocus(shut)
  OBVIOUS
<1>5. Loose(free) /\ Kin(shut, free) /\ free.open = FALSE /\ free.claimed = FALSE
  BY <1>2, <1>3, <1>4, ReleaseIs
<1>6. PICK back : back = IF p.keys = "panel" /\ handBack THEN FocusBack(free) ELSE free
  OBVIOUS
<1>7. Loose(back) /\ Kin(free, back) /\ back.open = FALSE
  <2>1. CASE back = free
    BY <1>5, <2>1 DEF Kin
  <2>2. CASE back = FocusBack(free)
    BY <1>5, <2>2, FocusBackIs
  <2>. QED  BY <1>6, <2>1, <2>2
<1>c. back.claimed = FALSE
  <2>1. CASE back = free
    BY <1>5, <2>1
  <2>2. CASE back = FocusBack(free)
    <3>1. CASE back = FocusOut(free, "terminal")
      <4>1. Framed(back) /\ back.keys = "terminal"
        BY <1>5, <3>1, FocusOutIs DEF Keys
      <4>2. back.claimed \in BOOLEAN
        BY <1>7, PanelParts DEF Loose
      <4>. QED  BY <4>1, <4>2 DEF Framed, Loose
    <3>. QED  BY <1>5, <2>2, <3>1 DEF FocusBack
  <2>. QED  BY <1>6, <2>1, <2>2
<1>8. back \in Panels /\ back.keys \in Keys
  BY <1>7, PanelParts DEF Loose
<1>9. PICK keys \in Keys : keys = IF back.keys = "panel" THEN "page" ELSE back.keys
  BY <1>8 DEF Keys
<1>10. PICK q : q = [back EXCEPT !.keys = keys]
  OBVIOUS
<1>11. /\ q \in Panels /\ Kin(back, q) /\ q.open = FALSE /\ q.keys = keys /\ q.claimed = back.claimed
       /\ q.claims = back.claims /\ q.viewer = back.viewer
  BY <1>7, <1>8, <1>10 DEF Panels, Kin, Keys
<1>12. keys # "panel" /\ (keys = "viewer" => back.keys = "viewer")
  BY <1>9
<1>13. Framed(q)
  BY <1>7, <1>c, <1>11, <1>12 DEF Loose, Framed
<1>14. SetHidden(p, handBack) = Schedule(q)
  BY <1>1, <1>4, <1>6, <1>9, <1>10 DEF SetHidden
<1>15. Framed(Schedule(q)) /\ Kin(q, Schedule(q))
  BY <1>13, ScheduleIs
<1>. QED  BY <1>2, <1>5, <1>7, <1>11, <1>14, <1>15 DEF Kin

\* It hides by itself.
LEMMA AutoHideIs ==
    ASSUME NEW p, Framed(p), NEW reason
    PROVE  Framed(AutoHide(p, reason)) /\ Kin(p, AutoHide(p, reason))
<1>1. PICK back \in BOOLEAN : back = (reason # "terminal")
  OBVIOUS
<1>2. AutoHide(p, reason) = p \/ AutoHide(p, reason) = SetHidden(p, back)
  BY <1>1 DEF AutoHide
<1>3. CASE AutoHide(p, reason) = p
  BY <1>3 DEF Kin
<1>4. CASE AutoHide(p, reason) = SetHidden(p, back)
  BY <1>4, HiddenIs
<1>. QED  BY <1>2, <1>3, <1>4

\* A file or a diff opens over the stage.
LEMMA ViewerOpens ==
    ASSUME NEW p, Framed(p), NEW kind \in {"file", "diff"}, NEW path \in Paths, NEW group \in Groups \cup {NoGroup}
    PROVE  Framed(OpenViewer(p, kind, path, group)) /\ Kin(p, OpenViewer(p, kind, path, group))
<1>0. p \in Panels /\ Loose(p)
  BY DEF Framed, Loose
<1>1. PICK over : over = IF p.viewer # None /\ p.viewer.kind = kind THEN p
                         ELSE [CloseOverlay(p, FALSE) EXCEPT
                                  !.viewer = FreshView(kind, CloseOverlay(p, FALSE).split),
                                  !.claims.viewer = Claimed(CloseOverlay(p, FALSE).claims.viewer)]
  OBVIOUS
<1>2. Loose(over) /\ Kin(p, over) /\ over.viewer # None
  <2>1. CASE p.viewer # None /\ p.viewer.kind = kind
    BY <1>0, <1>1, <2>1 DEF Kin
  <2>2. CASE ~ (p.viewer # None /\ p.viewer.kind = kind)
    <3>1. PICK under : under = CloseOverlay(p, FALSE)
      OBVIOUS
    <3>2. Framed(under) /\ Kin(p, under) /\ under.viewer = None
      BY <3>1, OverlayCloses
    <3>3. /\ under \in Panels /\ under.split \in BOOLEAN /\ under.claims \in [panel : Nat, viewer : Nat]
          /\ under.claims.viewer = 0 /\ Loose(under)
      BY <3>2, PanelParts DEF Framed, Loose
    <3>4. PICK view : view = FreshView(kind, under.split)
      OBVIOUS
    <3>5. Viewed(view) /\ view \in OpenViews /\ view # None
      BY <3>3, <3>4, FreshIsViewed, ViewParts
    <3>6. PICK claims : claims = [under.claims EXCEPT !.viewer = 1]
      OBVIOUS
    <3>7. claims \in [panel : Nat, viewer : Nat] /\ claims.viewer = 1 /\ claims.panel = under.claims.panel
      BY <3>3, <3>6
    <3>8. PICK o : o = [under EXCEPT !.viewer = view, !.claims = claims]
      OBVIOUS
    <3>9. /\ o \in Panels /\ Kin(under, o) /\ o.keys = under.keys /\ o.claimed = under.claimed
          /\ o.claims = claims /\ o.viewer = view
      BY <3>3, <3>5, <3>7, <3>8 DEF Panels, Kin
    <3>10. Loose(o)
      BY <3>3, <3>5, <3>7, <3>9 DEF Loose
    <3>11. over = o
      <4>1. over = [under EXCEPT !.viewer = view, !.claims.viewer = Claimed(under.claims.viewer)]
        BY <1>1, <2>2, <3>1, <3>4
      <4>2. Claimed(under.claims.viewer) = 1
        BY <3>3 DEF Claimed
      <4>. QED  BY <3>6, <3>8, <4>1, <4>2
    <3>. QED  BY <3>2, <3>5, <3>9, <3>10, <3>11 DEF Kin
  <2>. QED  BY <2>1, <2>2
<1>3. PICK view : view = ViewOpens(over.viewer, path, group)
  OBVIOUS
<1>4. Viewed(view) /\ view \in OpenViews /\ view # None
  <2>1. Viewed(over.viewer)
    BY <1>2 DEF Loose
  <2>2. Viewed(view)
    BY <1>3, <2>1, ViewTakes
  <2>. QED  BY <2>2, ViewParts
<1>5. PICK e : e = [over EXCEPT !.viewer = view]
  OBVIOUS
<1>6. over \in Panels
  BY <1>2 DEF Loose
<1>7. /\ e \in Panels /\ Kin(over, e) /\ e.keys = over.keys /\ e.claimed = over.claimed
      /\ e.claims = over.claims /\ e.viewer = view
  BY <1>4, <1>5, <1>6 DEF Panels, Kin
<1>8. Loose(e)
  BY <1>2, <1>4, <1>7 DEF Loose
<1>9. PICK q : q = FocusOut(e, "viewer")
  OBVIOUS
<1>10. Framed(q) /\ Kin(e, q)
  BY <1>4, <1>7, <1>8, <1>9, FocusOutIs DEF Keys
<1>11. q = OpenViewer(p, kind, path, group)
  BY <1>1, <1>3, <1>5, <1>9 DEF OpenViewer
<1>. QED  BY <1>2, <1>7, <1>10, <1>11 DEF Kin

-----------------------------------------------------------------------------
(* The whole panel follows a workspace. *)

\* A panel as the invariant wants it; what runs for it is what ran.
Whole(p) == Framed(p) /\ TabsOf(p, typed)
StillRuns(p, q) == SameWork(p.changes, q.changes) /\ q.pr.merges = p.pr.merges
Settled(p, q) == Whole(q) /\ StillRuns(p, q)

\* Tabs that are the same are as good, and run the same.
LEMMA KinSettles ==
    ASSUME NEW p, NEW q, Kin(p, q)
    PROVE  /\ \A kept : TabsOf(p, kept) => TabsOf(q, kept)
           /\ StillRuns(p, q)
BY DEF Kin, TabsOf, StillRuns, SameWork

\* A tab asks again.
LEMMA TabRefreshed ==
    ASSUME Around, NEW p, Whole(p), NEW t \in Tabs, NEW poll \in BOOLEAN
    PROVE  LET q == RefreshTab(p, t, poll) IN Settled(p, q) /\ Same(p, q) /\ q.workspace = p.workspace /\ q.tab = p.tab
<1>0. /\ p \in Panels /\ p.workspace \in Places
      /\ FilesOf(p.files, p.workspace) /\ Held(p.changes, p.workspace, typed) /\ PrOf(p.pr, p.workspace)
  <2>1. p \in Panels
    BY DEF Whole, Framed, Loose
  <2>. QED  BY <2>1, PanelParts DEF Whole, TabsOf, Held
<1>1. repo \in [Workspaces -> Repositories] /\ hub \in [Workspaces -> PullRequests]
  BY DEF Around
<1>2. PICK q : q = RefreshTab(p, t, poll)
  OBVIOUS
<1>3. CASE t = "files"
  <2>1. PICK f : f = FilesRefresh(p.files, p.workspace, poll)
    OBVIOUS
  <2>2. FilesOf(f, p.workspace)
    BY <1>0, <2>1, FilesRefreshed
  <2>3. q = [p EXCEPT !.files = f]
    BY <1>2, <1>3, <2>1 DEF RefreshTab
  <2>4. f \in FilesTabs
    BY <2>2 DEF FilesOf
  <2>5. /\ q \in Panels /\ Same(p, q) /\ q.workspace = p.workspace /\ q.files = f /\ q.changes = p.changes /\ q.pr = p.pr
        /\ q.tab = p.tab
    BY <1>0, <2>3, <2>4 DEF Panels, Same
  <2>6. Framed(q)
    BY <2>5, SameFrame DEF Whole
  <2>7. TabsOf(q, typed) /\ StillRuns(p, q)
    BY <1>0, <2>2, <2>5 DEF TabsOf, Held, StillRuns, SameWork
  <2>. QED  BY <1>2, <2>5, <2>6, <2>7 DEF Settled, Whole
<1>4. CASE t = "changes"
  <2>1. PICK c : c = ChangesRefresh(p.changes, p.workspace, repo, poll)
    OBVIOUS
  <2>2. Held(c, p.workspace, typed) /\ SameWork(p.changes, c)
    BY <1>0, <1>1, <2>1, ChangesRefreshed
  <2>3. q = [p EXCEPT !.changes = c]
    BY <1>2, <1>4, <2>1 DEF RefreshTab
  <2>4. c \in ChangesTabs
    BY <2>2 DEF Held, ChangesOf
  <2>5. /\ q \in Panels /\ Same(p, q) /\ q.workspace = p.workspace /\ q.files = p.files /\ q.changes = c /\ q.pr = p.pr
        /\ q.tab = p.tab
    BY <1>0, <2>3, <2>4 DEF Panels, Same
  <2>6. Framed(q)
    BY <2>5, SameFrame DEF Whole
  <2>7. TabsOf(q, typed) /\ StillRuns(p, q)
    BY <1>0, <2>2, <2>5 DEF TabsOf, Held, StillRuns
  <2>. QED  BY <1>2, <2>5, <2>6, <2>7 DEF Settled, Whole
<1>5. CASE t = "pr"
  <2>1. PICK r : r = PrRefresh(p.pr, p.workspace, hub, poll)
    OBVIOUS
  <2>2. PrOf(r, p.workspace) /\ r.merges = p.pr.merges
    BY <1>0, <1>1, <2>1, PrRefreshed
  <2>3. q = [p EXCEPT !.pr = r]
    BY <1>2, <1>5, <2>1 DEF RefreshTab
  <2>4. r \in PrTabs
    BY <2>2 DEF PrOf
  <2>5. /\ q \in Panels /\ Same(p, q) /\ q.workspace = p.workspace /\ q.files = p.files /\ q.changes = p.changes /\ q.pr = r
        /\ q.tab = p.tab
    BY <1>0, <2>3, <2>4 DEF Panels, Same
  <2>6. Framed(q)
    BY <2>5, SameFrame DEF Whole
  <2>7. TabsOf(q, typed) /\ StillRuns(p, q)
    BY <1>0, <2>2, <2>5 DEF TabsOf, Held, StillRuns, SameWork
  <2>. QED  BY <1>2, <2>5, <2>6, <2>7 DEF Settled, Whole
<1>. QED  BY <1>3, <1>4, <1>5 DEF Tabs

\* The tab on screen asks again.
LEMMA ShownRefreshed ==
    ASSUME Around, NEW p, Whole(p)
    PROVE  Settled(p, RefreshShown(p)) /\ RefreshShown(p).open = p.open
<1>1. p.tab \in Tabs
  BY PanelParts DEF Whole, Framed, Loose
<1>2. RefreshShown(p) = p \/ RefreshShown(p) = RefreshTab(p, p.tab, FALSE)
  BY DEF RefreshShown
<1>3. CASE RefreshShown(p) = p
  BY <1>3 DEF Settled, StillRuns, SameWork
<1>4. CASE RefreshShown(p) = RefreshTab(p, p.tab, FALSE)
  BY <1>1, <1>4, TabRefreshed DEF Same
<1>. QED  BY <1>2, <1>3, <1>4

\* Step after step.
LEMMA SettledThen ==
    ASSUME NEW p, NEW q, NEW r, StillRuns(p, q), Settled(q, r)
    PROVE  Settled(p, r)
BY DEF Settled, StillRuns, SameWork

\* The timer is set, of a whole panel.
LEMMA ScheduledWhole ==
    ASSUME NEW p, Whole(p)
    PROVE  Settled(p, Schedule(p)) /\ Schedule(p).open = p.open
BY ScheduleIs, KinSettles DEF Whole, Settled, Same

\* The panel follows to another workspace.
LEMMA FollowIs ==
    ASSUME Around, NEW p, Whole(p)
    PROVE  Settled(p, Follow(p)) /\ Follow(p).open = p.open
<1>0. /\ p \in Panels /\ Framed(p) /\ shown \in Places
      /\ FilesOf(p.files, p.workspace) /\ Held(p.changes, p.workspace, typed) /\ PrOf(p.pr, p.workspace)
  BY DEF Whole, Framed, Loose, TabsOf, Held, Around, Places
<1>1. CASE shown = p.workspace
  BY <1>1 DEF Follow, Settled, StillRuns, SameWork
<1>2. CASE shown # p.workspace
  <2>1. PICK b : b = [p EXCEPT !.workspace = shown, !.record = "unknown"]
    OBVIOUS
  <2>2. /\ b \in Panels /\ Same(p, b) /\ b.files = p.files /\ b.changes = p.changes /\ b.pr = p.pr /\ b.workspace = shown
    BY <1>0, <2>1 DEF Panels, Same, Places
  <2>3. Framed(b)
    BY <1>0, <2>2, SameFrame
  <2>4. PICK over : over = CloseOverlay(b, FALSE)
    OBVIOUS
  <2>5. Framed(over) /\ Kin(b, over) /\ over.open = b.open
    BY <2>3, <2>4, OverlayCloses
  <2>6. over \in Panels
    BY <2>5 DEF Framed, Loose
  <2>7. PICK f : f = FilesReset(over.files)
    OBVIOUS
  <2>8. PICK c : c = ChangesReset(over.changes)
    OBVIOUS
  <2>9. PICK r : r = PrReset(over.pr)
    OBVIOUS
  <2>10. over.files = p.files /\ over.changes = p.changes /\ over.pr = p.pr /\ over.workspace = shown
    BY <2>2, <2>5 DEF Kin
  <2>11. FilesOf(f, shown)
    BY <1>0, <2>7, <2>10, FilesLeft
  <2>12. Held(c, shown, typed) /\ SameWork(p.changes, c)
    BY <1>0, <2>8, <2>10, ChangesLeft
  <2>13. PrOf(r, shown) /\ r.merges = p.pr.merges
    BY <1>0, <2>9, <2>10, PrLeft
  <2>14. f \in FilesTabs /\ c \in ChangesTabs /\ r \in PrTabs
    BY <2>11, <2>12, <2>13 DEF FilesOf, Held, ChangesOf, PrOf
  <2>15. PICK asked \in SUBSET Workspaces : asked = IF shown = None THEN over.asked ELSE over.asked \cup {shown}
    BY <1>0, <2>6, PanelParts DEF Places
  <2>16. PICK clean : clean = [over EXCEPT !.files = f, !.changes = c, !.pr = r, !.asked = asked]
    OBVIOUS
  <2>17. /\ clean \in Panels /\ Same(over, clean) /\ clean.files = f /\ clean.changes = c /\ clean.pr = r
         /\ clean.workspace = over.workspace
    BY <2>6, <2>14, <2>15, <2>16 DEF Panels, Same
  <2>18. Framed(clean)
    BY <2>5, <2>17, SameFrame
  <2>19. TabsOf(clean, typed) /\ StillRuns(p, clean)
    BY <2>10, <2>11, <2>12, <2>13, <2>17 DEF TabsOf, Held, StillRuns
  <2>20. clean.open = p.open
    BY <2>2, <2>5, <2>17 DEF Same
  <2>21. PICK s : s = RefreshShown(clean)
    OBVIOUS
  <2>22. Whole(clean)
    BY <2>18, <2>19 DEF Whole
  <2>23. Settled(clean, s) /\ s.open = clean.open
    BY <2>21, <2>22, ShownRefreshed
  <2>24. Settled(p, s)
    BY <2>19, <2>23, SettledThen
  <2>25. Settled(s, Schedule(s)) /\ Schedule(s).open = s.open
    BY <2>24, ScheduledWhole DEF Settled
  <2>26. Settled(p, Schedule(s))
    BY <2>24, <2>25, SettledThen DEF Settled
  <2>27. Follow(p) = Schedule(s)
    BY <1>2, <2>1, <2>4, <2>7, <2>8, <2>9, <2>15, <2>16, <2>21 DEF Follow
  <2>. QED  BY <2>20, <2>23, <2>25, <2>26, <2>27
<1>. QED  BY <1>1, <1>2

\* It opens.
LEMMA OpenIs ==
    ASSUME Around, NEW p, Whole(p)
    PROVE  Settled(p, SetOpen(p)) /\ SetOpen(p).open
<1>0. p \in Panels
  BY DEF Whole, Framed, Loose
<1>1. PICK open : open = [p EXCEPT !.open = TRUE]
  OBVIOUS
<1>2. /\ open \in Panels /\ Kin(p, open) /\ open.open /\ open.keys = p.keys /\ open.claimed = p.claimed
      /\ open.claims = p.claims /\ open.viewer = p.viewer
  BY <1>0, <1>1 DEF Panels, Kin
<1>3. Whole(open) /\ StillRuns(p, open)
  <2>1. Framed(open)
    BY <1>2 DEF Whole, Framed, Loose
  <2>. QED  BY <1>2, <2>1, KinSettles DEF Whole
<1>4. PICK s : s = IF shown # p.workspace THEN Follow(open) ELSE RefreshShown(open)
  OBVIOUS
<1>5. Settled(open, s) /\ s.open
  <2>1. Settled(open, Follow(open)) /\ Follow(open).open = open.open
    BY <1>3, FollowIs
  <2>2. Settled(open, RefreshShown(open)) /\ RefreshShown(open).open = open.open
    BY <1>3, ShownRefreshed
  <2>. QED  BY <1>2, <1>4, <2>1, <2>2
<1>6. Settled(p, s)
  BY <1>3, <1>5, SettledThen
<1>7. Settled(s, Schedule(s)) /\ Schedule(s).open = s.open
  BY <1>6, ScheduledWhole DEF Settled
<1>8. Settled(p, Schedule(s))
  BY <1>6, <1>7, SettledThen DEF Settled
<1>9. SetOpen(p) = Schedule(s)
  BY <1>1, <1>4 DEF SetOpen
<1>. QED  BY <1>5, <1>7, <1>8, <1>9

\* A tab is chosen.
LEMMA SelectIs ==
    ASSUME Around, NEW p, Whole(p), NEW t \in Tabs, NEW focus \in BOOLEAN
    PROVE  Settled(p, Select(p, t, focus))
<1>0. p \in Panels
  BY DEF Whole, Framed, Loose
<1>1. PICK on : on = [p EXCEPT !.tab = t]
  OBVIOUS
<1>2. on \in Panels /\ Kin(p, on) /\ Same(p, on)
  BY <1>0, <1>1 DEF Panels, Kin, Same
<1>3. Whole(on) /\ StillRuns(p, on)
  BY <1>2, SameFrame, KinSettles DEF Whole
<1>4. PICK s : s = IF on.open THEN RefreshTab(on, t, FALSE) ELSE SetOpen(on)
  OBVIOUS
<1>5. Settled(on, s) /\ s.open
  <2>1. CASE on.open
    <3>1. s = RefreshTab(on, t, FALSE)
      BY <1>4, <2>1
    <3>. QED  BY <1>3, <2>1, <3>1, TabRefreshed DEF Same
  <2>2. CASE ~ on.open
    <3>1. s = SetOpen(on)
      BY <1>4, <2>2
    <3>. QED  BY <1>3, <3>1, OpenIs
  <2>. QED  BY <2>1, <2>2
<1>6. Settled(p, s)
  BY <1>3, <1>5, SettledThen
<1>7. PICK up : up = Schedule(s)
  OBVIOUS
<1>8. Settled(s, up) /\ up.open
  BY <1>5, <1>6, <1>7, ScheduledWhole DEF Settled
<1>9. Settled(p, up)
  BY <1>6, <1>8, SettledThen DEF Settled
<1>10. Select(p, t, focus) = IF focus THEN FocusIn(TabFocus(up)) ELSE up
  BY <1>1, <1>4, <1>7 DEF Select
<1>11. CASE ~ focus
  BY <1>9, <1>10, <1>11
<1>12. CASE focus
  <2>1. PICK e : e = TabFocus(up)
    OBVIOUS
  <2>2. Framed(up)
    BY <1>8 DEF Settled, Whole
  <2>3. Framed(e) /\ Kin(up, e) /\ e.open
    BY <1>8, <2>1, <2>2, TabFocusIs
  <2>4. PICK q : q = FocusIn(e)
    OBVIOUS
  <2>5. Framed(q) /\ Kin(e, q)
    BY <2>3, <2>4, FocusInIs
  <2>6. Kin(up, q)
    BY <2>3, <2>5 DEF Kin
  <2>7. Settled(up, q)
    BY <1>8, <2>5, <2>6, KinSettles DEF Settled, Whole
  <2>8. Settled(p, q)
    BY <1>9, <2>7, SettledThen DEF Settled
  <2>. QED  BY <1>10, <1>12, <2>1, <2>4, <2>8
<1>. QED  BY <1>11, <1>12

-----------------------------------------------------------------------------
(* The invariant, before and after a step. *)

\* What the invariant says of a state.
LEMMA InvNow ==
    ASSUME IInv
    PROVE  /\ Around /\ Whole(panel) /\ Framed(panel) /\ TabsOf(panel, typed) /\ BoxOf(panel, box)
           /\ panel \in Panels /\ panel.workspace \in Places
           /\ FilesOf(panel.files, panel.workspace) /\ Held(panel.changes, panel.workspace, typed)
           /\ PrOf(panel.pr, panel.workspace)
           /\ box \in Boxes \cup {None} /\ shown \in Places /\ repo \in [Workspaces -> Repositories]
           /\ hub \in [Workspaces -> PullRequests] /\ typed \in [Workspaces -> Messages \cup {Blank}]
<1>1. Framed(panel)
  BY FramedIs DEF IInv
<1>2. panel \in Panels /\ panel.workspace \in Places
  BY PanelParts DEF IInv
<1>. QED  BY <1>1, <1>2 DEF IInv, Whole, TabsOf, Held, Around, Places

\* What it takes after a step.
LEMMA InvNext ==
    ASSUME Framed(panel'), TabsOf(panel', typed'), BoxOf(panel', box'),
           box' \in Boxes \cup {None}, shown' \in Places, repo' \in [Workspaces -> Repositories],
           hub' \in [Workspaces -> PullRequests], typed' \in [Workspaces -> Messages \cup {Blank}]
    PROVE  IInv'
<1>1. panel' \in Panels /\ KeysOf(panel') /\ ViewOf(panel'.viewer)
  BY FramedIs
<1>2. Around'
  BY DEF Around, Places
<1>. QED  BY <1>1, <1>2 DEF IInv

\* The confirmation waits for what it waited for.
LEMMA BoxStays ==
    ASSUME NEW p, NEW q, NEW b, BoxOf(p, b), StillRuns(p, q)
    PROVE  BoxOf(q, b)
BY DEF BoxOf, StillRuns, SameWork

\* A step of the panel alone, with nothing started or ended.
LEMMA FrameStep ==
    ASSUME IInv, Settled(panel, panel'), Frame
    PROVE  IInv'
<1>1. Framed(panel') /\ TabsOf(panel', typed) /\ StillRuns(panel, panel')
  BY DEF Settled, Whole
<1>2. BoxOf(panel', box)
  BY <1>1, InvNow, BoxStays
<1>3. /\ box \in Boxes \cup {None} /\ shown \in Places /\ repo \in [Workspaces -> Repositories]
      /\ hub \in [Workspaces -> PullRequests] /\ typed \in [Workspaces -> Messages \cup {Blank}]
  BY InvNow
<1>. QED  BY <1>1, <1>2, <1>3, InvNext DEF Frame

\* A step of the keyboard, the view or the timer alone.
LEMMA KinStep ==
    ASSUME IInv, Framed(panel'), Kin(panel, panel'), Frame
    PROVE  IInv'
BY InvNow, KinSettles, FrameStep DEF Settled, Whole

\* One tab changed.
LEMMA TabStep ==
    ASSUME NEW p, Framed(p),
           NEW q \in Panels, Same(p, q), q.workspace = p.workspace
    PROVE  Framed(q)
BY SameFrame
-----------------------------------------------------------------------------
(* Steps of the frame. *)

\* A tab is chosen.
LEMMA StepSelectTab ==
    ASSUME IInv, NEW t \in Tabs, NEW focus \in BOOLEAN, SelectTab(t, focus)
    PROVE  IInv'
BY InvNow, SelectIs, FrameStep DEF SelectTab

\* The panel is shown or hidden.
LEMMA StepToggle ==
    ASSUME IInv, Toggle
    PROVE  IInv'
<1>1. CASE panel.open
  <2>1. panel' = SetHidden(panel, TRUE) /\ Frame
    BY <1>1 DEF Toggle
  <2>2. Framed(panel') /\ Kin(panel, panel')
    BY <2>1, InvNow, HiddenIs
  <2>. QED  BY <2>1, <2>2, KinStep
<1>2. CASE ~ panel.open
  <2>1. panel' = Select(panel, panel.tab, TRUE) /\ Frame
    BY <1>2 DEF Toggle
  <2>2. panel.tab \in Tabs
    BY InvNow, PanelParts
  <2>3. Settled(panel, panel')
    BY <2>1, <2>2, InvNow, SelectIs
  <2>. QED  BY <2>1, <2>3, FrameStep
<1>. QED  BY <1>1, <1>2

\* The panel is pinned or let go.
LEMMA StepPin ==
    ASSUME IInv, Pin
    PROVE  IInv'
<1>1. PICK pinned \in BOOLEAN : pinned = ~ panel.pinned
  OBVIOUS
<1>2. panel' = [panel EXCEPT !.pinned = pinned] /\ Frame
  BY <1>1 DEF Pin
<1>3. panel \in Panels /\ Framed(panel)
  BY InvNow
<1>4. panel' \in Panels /\ Kin(panel, panel') /\ Same(panel, panel')
  BY <1>2, <1>3 DEF Panels, Kin, Same
<1>. QED  BY <1>2, <1>3, <1>4, SameFrame, KinStep

\* The panel follows the column that has the stage.
LEMMA StepFollows ==
    ASSUME IInv, Follows
    PROVE  IInv'
BY InvNow, FollowIs, FrameStep DEF Follows

\* Another column has the stage: the panel is not told yet.
LEMMA StepColumnChanges ==
    ASSUME IInv, NEW w \in Workspaces \cup {None}, ColumnChanges(w)
    PROVE  IInv'
<1>1. shown' = w /\ UNCHANGED <<panel, away, box, repo, hub, typed>>
  BY DEF ColumnChanges
<1>. QED  BY <1>1, InvNow, InvNext DEF Places

\* What the registry knows of a workspace comes.
LEMMA StepDetailsAnswer ==
    ASSUME IInv, NEW w \in Workspaces, DetailsAnswer(w)
    PROVE  IInv'
<1>0. panel \in Panels /\ Framed(panel) /\ panel.asked \in SUBSET Workspaces /\ Frame
  BY InvNow, PanelParts DEF DetailsAnswer
<1>1. PICK asked \in SUBSET Workspaces : asked = panel.asked \ {w}
  BY <1>0
<1>2. PICK heard : heard = [panel EXCEPT !.asked = asked]
  OBVIOUS
<1>3. heard \in Panels /\ Kin(panel, heard) /\ Same(panel, heard)
  BY <1>0, <1>2 DEF Panels, Kin, Same
<1>4. PICK record \in {"unknown", "folder", "no folder"} : record = IF w \in Folderless THEN "no folder" ELSE "folder"
  OBVIOUS
<1>5. PICK known : known = [heard EXCEPT !.record = record]
  OBVIOUS
<1>6. known \in Panels /\ Kin(heard, known) /\ Same(heard, known)
  BY <1>3, <1>5 DEF Panels, Kin, Same
<1>7. Framed(heard) /\ Framed(known)
  BY <1>0, <1>3, <1>6, SameFrame
<1>8. Framed(AutoHide(known, "no-folder")) /\ Kin(known, AutoHide(known, "no-folder"))
  BY <1>7, AutoHideIs
<1>9. panel' = heard \/ panel' = known \/ panel' = AutoHide(known, "no-folder")
  BY <1>1, <1>2, <1>4, <1>5 DEF DetailsAnswer
<1>10. Framed(panel') /\ Kin(panel, panel')
  BY <1>3, <1>6, <1>7, <1>8, <1>9 DEF Kin
<1>. QED  BY <1>0, <1>10, KinStep

\* A terminal is clicked.
LEMMA StepTerminalTouched ==
    ASSUME IInv, TerminalTouched
    PROVE  IInv'
<1>1. PICK out : out = FocusOut(panel, "terminal")
  OBVIOUS
<1>2. panel' = AutoHide(out, "terminal") /\ Frame
  BY <1>1 DEF TerminalTouched
<1>3. Loose(panel)
  BY InvNow DEF Framed
<1>4. Framed(out) /\ Kin(panel, out)
  BY <1>1, <1>3, FocusOutIs DEF Keys
<1>5. Framed(panel') /\ Kin(out, panel')
  BY <1>2, <1>4, AutoHideIs
<1>6. Kin(panel, panel')
  BY <1>4, <1>5 DEF Kin
<1>. QED  BY <1>2, <1>5, <1>6, KinStep

\* The panel is clicked.
LEMMA StepClickPanel ==
    ASSUME IInv, ClickPanel
    PROVE  IInv'
BY InvNow, FocusInIs, KinStep DEF ClickPanel

\* Escape in the panel: it hides, or gives the keyboard back.
LEMMA StepEscape ==
    ASSUME IInv, Escape
    PROVE  IInv'
<1>1. Frame /\ (panel' = AutoHide(panel, "escape") \/ panel' = FocusBack(ReleasePanelFocus(panel)))
  BY DEF Escape
<1>2. CASE panel' = AutoHide(panel, "escape")
  BY <1>1, <1>2, InvNow, AutoHideIs, KinStep
<1>3. CASE panel' = FocusBack(ReleasePanelFocus(panel))
  <2>1. PICK free : free = ReleasePanelFocus(panel)
    OBVIOUS
  <2>2. Framed(panel) /\ Loose(panel)
    BY InvNow DEF Framed
  <2>3. Loose(free) /\ Kin(panel, free) /\ free.open = panel.open /\ free.keys = panel.keys
    BY <2>1, <2>2, ReleaseIs
  <2>4. Framed(free)
    BY <2>2, <2>3 DEF Framed
  <2>5. Framed(panel') /\ Kin(free, panel')
    BY <1>3, <2>1, <2>3, <2>4, FocusBackIs
  <2>6. Kin(panel, panel')
    BY <2>3, <2>5 DEF Kin
  <2>. QED  BY <1>1, <2>5, <2>6, KinStep
<1>. QED  BY <1>1, <1>2, <1>3

\* The page is hidden: nothing is polled.
LEMMA StepPageHides ==
    ASSUME IInv, PageHides
    PROVE  IInv'
<1>1. panel' = [panel EXCEPT !.timer = {}] /\ UNCHANGED <<shown, box, repo, hub, typed>>
  BY DEF PageHides
<1>2. panel \in Panels /\ Framed(panel) /\ TabsOf(panel, typed) /\ BoxOf(panel, box)
  BY InvNow
<1>3. panel' \in Panels /\ Kin(panel, panel') /\ Same(panel, panel')
  BY <1>1, <1>2 DEF Panels, Kin, Same
<1>4. Framed(panel') /\ TabsOf(panel', typed) /\ BoxOf(panel', box)
  BY <1>2, <1>3, SameFrame, KinSettles, BoxStays
<1>. QED  BY <1>1, <1>4, InvNow, InvNext

\* The page is seen again: the tab asks, and is polled.
LEMMA StepPageShows ==
    ASSUME IInv, PageShows
    PROVE  IInv'
<1>0. UNCHANGED <<shown, box, repo, hub, typed>>
  BY DEF PageShows
<1>1. PICK q : q = RefreshTab(panel, panel.tab, FALSE)
  OBVIOUS
<1>2. panel.tab \in Tabs
  BY InvNow, PanelParts
<1>3. Settled(panel, q)
  BY <1>1, <1>2, InvNow, TabRefreshed
<1>4. PICK timer \in SUBSET Tabs : timer = {panel.tab}
  BY <1>2
<1>5. PICK r : r = [q EXCEPT !.timer = timer]
  OBVIOUS
<1>6. q \in Panels
  BY <1>3 DEF Settled, Whole, Framed, Loose
<1>7. r \in Panels /\ Kin(q, r) /\ Same(q, r)
  BY <1>5, <1>6 DEF Panels, Kin, Same
<1>8. Framed(r) /\ TabsOf(r, typed) /\ StillRuns(panel, r)
  BY <1>3, <1>7, SameFrame, KinSettles DEF Settled, Whole, StillRuns, SameWork
<1>9. BoxOf(r, box)
  BY <1>8, InvNow, BoxStays
<1>10. panel' = r \/ panel' = panel
  BY <1>1, <1>4, <1>5 DEF PageShows
<1>. QED  BY <1>0, <1>8, <1>9, <1>10, InvNow, InvNext

\* The window has the focus again: the tab that is shown asks.
LEMMA StepWindowFocused ==
    ASSUME IInv, WindowFocused
    PROVE  IInv'
BY InvNow, ShownRefreshed, FrameStep DEF WindowFocused

\* A tab's timer rings.
LEMMA StepTick ==
    ASSUME IInv, NEW t \in Tabs, Tick(t)
    PROVE  IInv'
BY InvNow, TabRefreshed, FrameStep DEF Tick

-----------------------------------------------------------------------------
(* Steps of the Files tab. *)

\* A panel with another Files tab.
LEMMA FilesTurn ==
    ASSUME IInv, NEW f, FilesOf(f, panel.workspace), panel' = [panel EXCEPT !.files = f], Frame
    PROVE  IInv'
<1>1. f \in FilesTabs /\ panel \in Panels /\ Framed(panel)
  BY InvNow DEF FilesOf
<1>2. /\ panel' \in Panels /\ Same(panel, panel') /\ panel'.workspace = panel.workspace
      /\ panel'.files = f /\ panel'.changes = panel.changes /\ panel'.pr = panel.pr
  BY <1>1 DEF Panels, Same
<1>3. Framed(panel')
  BY <1>1, <1>2, SameFrame
<1>4. TabsOf(panel', typed) /\ StillRuns(panel, panel')
  BY <1>2, InvNow DEF TabsOf, StillRuns, SameWork
<1>. QED  BY <1>3, <1>4, FrameStep DEF Settled, Whole

\* A folder is opened or closed.
LEMMA StepOpenFolder ==
    ASSUME IInv, NEW d \in Dirs, OpenFolder(d)
    PROVE  IInv'
<1>1. panel.workspace \in Workspaces
  BY InvNow DEF OpenFolder, In, Places
<1>2. PICK f : f = ToggleDir(panel.files, panel.workspace, d)
  OBVIOUS
<1>3. FilesOf(f, panel.workspace)
  BY <1>1, <1>2, InvNow, FolderTurns
<1>4. panel' = [panel EXCEPT !.files = f] /\ Frame
  BY <1>2 DEF OpenFolder, FilesDo
<1>. QED  BY <1>3, <1>4, FilesTurn

\* The filter is typed in.
LEMMA StepTypeFilter ==
    ASSUME IInv, NEW q \in Queries \cup {NoQuery}, TypeFilter(q)
    PROVE  IInv'
<1>1. PICK f : f = ScheduleSearch(panel.files, q)
  OBVIOUS
<1>2. FilesOf(f, panel.workspace)
  BY <1>1, InvNow, FilterKeeps
<1>3. panel' = [panel EXCEPT !.files = f] /\ Frame
  BY <1>1 DEF TypeFilter, FilesDo
<1>. QED  BY <1>2, <1>3, FilesTurn

\* The search it asked for goes.
LEMMA StepSearchDue ==
    ASSUME IInv, SearchDue
    PROVE  IInv'
<1>1. PICK f : f = RunSearch(panel.files, panel.workspace)
  OBVIOUS
<1>2. FilesOf(f, panel.workspace)
  BY <1>1, InvNow, SearchKeeps
<1>3. panel' = [panel EXCEPT !.files = f] /\ Frame
  BY <1>1 DEF SearchDue, FilesDo
<1>. QED  BY <1>2, <1>3, FilesTurn

\* A folder of a request is answered.
LEMMA StepListingAnswer ==
    ASSUME IInv, NEW i \in DOMAIN panel.files.loads, NEW ok \in BOOLEAN, ListingAnswer(i, ok)
    PROVE  IInv'
<1>1. PICK d \in panel.files.loads[i].want : FilesDo(ListingAnswers(panel.files, i, d, ok))
  BY DEF ListingAnswer
<1>2. PICK f : f = ListingAnswers(panel.files, i, d, ok)
  OBVIOUS
<1>3. FilesOf(f, panel.workspace)
  BY <1>2, InvNow, ListingCome
<1>4. panel' = [panel EXCEPT !.files = f] /\ Frame
  BY <1>1, <1>2 DEF ListingAnswer, FilesDo
<1>. QED  BY <1>3, <1>4, FilesTurn

\* A search is answered.
LEMMA StepSearchAnswer ==
    ASSUME IInv, NEW i \in DOMAIN panel.files.searches, NEW ok \in BOOLEAN, SearchAnswer(i, ok)
    PROVE  IInv'
<1>1. PICK f : f = SearchAnswers(panel.files, i, ok)
  OBVIOUS
<1>2. FilesOf(f, panel.workspace)
  BY <1>1, InvNow, HitsCome
<1>3. panel' = [panel EXCEPT !.files = f] /\ Frame
  BY <1>1 DEF SearchAnswer, FilesDo
<1>. QED  BY <1>2, <1>3, FilesTurn

-----------------------------------------------------------------------------
(* Steps of the views. *)

\* The view on screen turned into another.
LEMMA ViewTurn ==
    ASSUME IInv, panel.viewer # None, NEW v, Viewed(v), Views(v), Frame
    PROVE  IInv'
<1>1. v \in OpenViews /\ v # None /\ panel \in Panels /\ Framed(panel)
  BY InvNow, ViewParts
<1>2. panel' = [panel EXCEPT !.viewer = v]
  BY DEF Views
<1>3. /\ panel' \in Panels /\ Kin(panel, panel') /\ panel'.viewer = v /\ panel'.open = panel.open
      /\ panel'.keys = panel.keys /\ panel'.claimed = panel.claimed /\ panel'.claims = panel.claims
  BY <1>1, <1>2 DEF Panels, Kin
<1>4. Framed(panel')
  BY <1>1, <1>3 DEF Framed, Loose
<1>. QED  BY <1>3, <1>4, KinStep

\* The view on screen is a view.
LEMMA ViewNow ==
    ASSUME IInv, View # None
    PROVE  Viewed(View)
BY InvNow DEF Framed, Loose, View

\* A file is opened, from the tree or from its diff.
LEMMA StepOpenFile ==
    ASSUME IInv, NEW path \in Paths, OpenFile(path)
    PROVE  IInv'
BY InvNow, ViewerOpens, KinStep DEF OpenFile

\* A diff is opened, from the list or from its file.
LEMMA StepOpenDiff ==
    ASSUME IInv, NEW path \in Paths, NEW group \in Groups, OpenDiff(path, group)
    PROVE  IInv'
BY InvNow, ViewerOpens, KinStep DEF OpenDiff

\* A view is closed.
LEMMA StepViewerCloses ==
    ASSUME IInv, ViewerCloses
    PROVE  IInv'
BY InvNow, OverlayCloses, KinStep DEF ViewerCloses

\* A file comes.
LEMMA StepFileAnswer ==
    ASSUME IInv, View # None, NEW i \in DOMAIN View.reads, NEW body \in {"text", "message"}, FileAnswer(i, body)
    PROVE  IInv'
<1>1. Viewed(FileAnswers(View, i, body))
  BY ViewNow, FileComes
<1>. QED  BY <1>1, ViewTurn DEF FileAnswer, View

\* Git says whether a file is changed.
LEMMA StepMarkAnswer ==
    ASSUME IInv, NEW path \in Paths, NEW group \in Groups, MarkAnswer(path, group)
    PROVE  IInv'
<1>1. View # None
  BY DEF MarkAnswer, Showing
<1>2. Viewed(Marked(View, path, group))
  BY <1>1, ViewNow, MarkComes
<1>. QED  BY <1>1, <1>2, ViewTurn DEF MarkAnswer, View

\* A diff comes.
LEMMA StepDiffAnswer ==
    ASSUME IInv, View # None, NEW i \in DOMAIN View.reads, NEW lines \in Diffs, NEW how \in {"ok", "large", "fails"},
           DiffAnswer(i, lines, how)
    PROVE  IInv'
<1>1. View.kind = "diff"
  BY DEF DiffAnswer, Showing
<1>2. Viewed(DiffAnswers(View, i, lines, how))
  BY <1>1, ViewNow, DiffComes
<1>. QED  BY <1>2, ViewTurn DEF DiffAnswer, View

\* n, p and the other layout.
LEMMA StepDiffKeys ==
    ASSUME IInv, TurnLayout \/ \E delta \in {-1, 1} : StepDiff(delta)
    PROVE  IInv'
<1>1. View # None /\ View.kind = "diff" /\ Frame
  BY DEF TurnLayout, StepDiff, Showing, ViewerKeys
<1>2. Viewed(View)
  BY <1>1, ViewNow
<1>3. Viewed(ToggleLayout(View)) /\ \A delta \in {-1, 1} : Viewed(Go(View, delta))
  BY <1>1, <1>2, LayoutTurns, ViewGoes
<1>. QED  BY <1>1, <1>3, ViewTurn DEF TurnLayout, StepDiff, View

\* The keys of the bar in a file.
LEMMA StepFileKeys ==
    ASSUME IInv,
           \/ FindEnds
           \/ \E as \in {"find", "line"} : Find(as)
           \/ \E n \in 0 .. 2 : FindText(n)
           \/ \E delta \in {-1, 1} : FindStep(delta)
    PROVE  IInv'
<1>1. View # None /\ View.kind = "file" /\ Frame
  BY DEF FindEnds, Find, FindText, FindStep, Showing, ViewerKeys
<1>2. Viewed(View)
  BY <1>1, ViewNow
<1>3. PICK v : Viewed(v) /\ Views(v)
  <2>1. CASE FindEnds
    BY <1>1, <1>2, <2>1, FileKeys DEF FindEnds
  <2>2. CASE \E as \in {"find", "line"} : Find(as)
    BY <1>1, <1>2, <2>2, FileKeys DEF Find
  <2>3. CASE \E n \in 0 .. 2 : FindText(n)
    BY <1>1, <1>2, <2>3, FileKeys DEF FindText
  <2>4. CASE \E delta \in {-1, 1} : FindStep(delta)
    BY <1>1, <1>2, <2>4, FileKeys DEF FindStep
  <2>. QED  BY <2>1, <2>2, <2>3, <2>4
<1>. QED  BY <1>1, <1>3, ViewTurn DEF View

-----------------------------------------------------------------------------
(* What the confirmation waits for. *)

Free(b) == b = None \/ ~ b.busy
Idle(works, merges) == (\A i \in DOMAIN works : ~ works[i].boxed) /\ DOMAIN merges = {}

\* A confirmation that does not wait has nothing running for it, and the other way round.
LEMMA FreeIsIdle ==
    ASSUME NEW works, NEW merges, NEW jobs, NEW b, Free(b)
    PROVE  Awaited(works, merges, jobs, b) <=> Idle(works, merges)
<1>1. ~ (b # None /\ b.busy)
  BY DEF Free
<1>2. ASSUME Awaited(works, merges, jobs, b) PROVE Idle(works, merges)
  <2>1. \A i \in DOMAIN works : works[i].boxed => b # None /\ b.busy
    BY <1>2 DEF Awaited
  <2>2. \A i \in DOMAIN merges : b # None /\ b.busy
    BY <1>2 DEF Awaited
  <2>. QED  BY <1>1, <2>1, <2>2 DEF Idle
<1>3. ASSUME Idle(works, merges) PROVE Awaited(works, merges, jobs, b)
  BY <1>1, <1>3 DEF Idle, Awaited
<1>. QED  BY <1>2, <1>3

\* More git actions run.
LEMMA MoreJobs ==
    ASSUME NEW works, NEW merges, NEW jobs, NEW b \in Boxes \cup {None}, Awaited(works, merges, jobs, b),
           NEW more, \A w \in Workspaces : jobs[w] # None => more[w] # None
    PROVE  Awaited(works, merges, more, b)
<1>1. b # None => b.ws \in Workspaces /\ b.what \in {"amend", "discard", "merge"}
  BY DEF Boxes
<1>. QED  BY <1>1 DEF Awaited

\* The git action of one workspace ends, with the confirmation that waited for it.
LEMMA JobLess ==
    ASSUME NEW works, NEW merges, NEW jobs, NEW b \in Boxes \cup {None}, Awaited(works, merges, jobs, b),
           NEW w, NEW less, \A u \in Workspaces \ {w} : less[u] = jobs[u],
           NEW c, c = IF b # None /\ b.busy /\ b.what = "amend" /\ b.ws = w THEN None ELSE b
    PROVE  Awaited(works, merges, less, c)
<1>1. CASE b # None /\ b.busy /\ b.what = "amend" /\ b.ws = w
  <2>1. Idle(works, merges)
    <3>1. \A i \in DOMAIN works : ~ works[i].boxed
      BY <1>1 DEF Awaited
    <3>2. \A i \in DOMAIN merges : FALSE
      BY <1>1 DEF Awaited
    <3>. QED  BY <3>1, <3>2 DEF Idle
  <2>2. c = None
    BY <1>1
  <2>. QED  BY <2>1, <2>2, FreeIsIdle DEF Free
<1>2. CASE ~ (b # None /\ b.busy /\ b.what = "amend" /\ b.ws = w)
  <2>1. c = b
    BY <1>2
  <2>2. b # None => b.ws \in Workspaces /\ b.what \in {"amend", "discard", "merge"}
    BY DEF Boxes
  <2>3. b # None /\ b.busy /\ b.what = "amend" => less[b.ws] = jobs[b.ws]
    BY <1>2, <2>2
  <2>. QED  BY <2>1, <2>2, <2>3 DEF Awaited
<1>. QED  BY <1>1, <1>2

\* Staging or discarding starts.
LEMMA MoreWork ==
    ASSUME NEW works, NEW merges, NEW jobs, NEW b, NEW e, NEW more, Grown(works, e, more)
    PROVE  /\ Awaited(works, merges, jobs, b) /\ ~ e.boxed => Awaited(more, merges, jobs, b)
           /\ /\ Idle(works, merges) /\ e.boxed
              /\ b # None /\ b.busy /\ b.what = "discard" /\ b.ws = e.ws
              => Awaited(more, merges, jobs, b)
<1>1. PICK n \in Nat : n = Len(works)
  BY DEF Grown
<1>2. /\ DOMAIN works = 1 .. n /\ DOMAIN more = 1 .. n + 1 /\ more[n + 1] = e
      /\ \A i \in 1 .. n : more[i] = works[i]
  BY <1>1 DEF Grown
<1>3. \A i \in DOMAIN more : i = n + 1 \/ i \in DOMAIN works
  BY <1>2
<1>4. n + 1 \in DOMAIN more /\ \A i \in DOMAIN works : i \in DOMAIN more
  BY <1>2
<1>5. ASSUME Awaited(works, merges, jobs, b), ~ e.boxed PROVE Awaited(more, merges, jobs, b)
  <2>1. \A i \in DOMAIN more : more[i].boxed => i \in DOMAIN works /\ more[i] = works[i]
    BY <1>2, <1>3, <1>5
  <2>2. (\E i \in DOMAIN works : works[i].boxed) => \E i \in DOMAIN more : more[i].boxed
    BY <1>2, <1>4
  <2>3. \A i \in DOMAIN more : more[i].boxed => b # None /\ b.busy /\ b.what = "discard" /\ b.ws = more[i].ws
    BY <1>5, <2>1 DEF Awaited
  <2>4. \A i, j \in DOMAIN more : more[i].boxed /\ more[j].boxed => i = j
    <3>1. \A i, j \in DOMAIN works : works[i].boxed /\ works[j].boxed => i = j
      BY <1>5 DEF Awaited
    <3>. QED  BY <2>1, <3>1
  <2>. QED  BY <1>5, <2>2, <2>3, <2>4 DEF Awaited
<1>6. ASSUME Idle(works, merges), e.boxed, b # None /\ b.busy /\ b.what = "discard" /\ b.ws = e.ws
      PROVE  Awaited(more, merges, jobs, b)
  <2>1. \A i \in DOMAIN more : more[i].boxed => i = n + 1
    BY <1>2, <1>3, <1>6 DEF Idle
  <2>2. \A i \in DOMAIN more : more[i].boxed => b.ws = more[i].ws
    BY <1>2, <1>6, <2>1
  <2>3. \E i \in DOMAIN more : more[i].boxed
    BY <1>2, <1>4, <1>6
  <2>4. \A i \in DOMAIN merges : FALSE
    BY <1>6 DEF Idle
  <2>. QED  BY <1>6, <2>1, <2>2, <2>3, <2>4 DEF Awaited
<1>. QED  BY <1>5, <1>6

\* Staging or discarding ends.
LEMMA LessWork ==
    ASSUME NEW works, NEW merges, NEW jobs, NEW b, Awaited(works, merges, jobs, b), NEW i \in DOMAIN works,
           NEW less, Shrunk(works, i, less)
    PROVE  /\ ~ works[i].boxed => Awaited(less, merges, jobs, b)
           /\ works[i].boxed => b # None /\ b.busy /\ b.what = "discard" /\ b.ws = works[i].ws /\ Idle(less, merges)
<1>1. /\ \A j \in DOMAIN less : less[j] = works[Behind(i, j)] /\ Behind(i, j) \in DOMAIN works \ {i}
      /\ \A k \in DOMAIN works \ {i} : \E j \in DOMAIN less : less[j] = works[k]
  BY DEF Shrunk
<1>2. \A j, k \in DOMAIN less : Behind(i, j) = Behind(i, k) => j = k
  <2>1. PICK n \in Nat : n = Len(works)
    BY DEF Shrunk
  <2>2. DOMAIN less = 1 .. n - 1 /\ DOMAIN works = 1 .. n
    BY <2>1 DEF Shrunk
  <2>. QED  BY <2>1, <2>2 DEF Behind
<1>3. ASSUME ~ works[i].boxed PROVE Awaited(less, merges, jobs, b)
  <2>1. \A j \in DOMAIN less : less[j].boxed => b # None /\ b.busy /\ b.what = "discard" /\ b.ws = less[j].ws
    BY <1>1 DEF Awaited
  <2>2. \A j, k \in DOMAIN less : less[j].boxed /\ less[k].boxed => j = k
    <3>1. \A j, k \in DOMAIN works : works[j].boxed /\ works[k].boxed => j = k
      BY DEF Awaited
    <3>. QED  BY <1>1, <1>2, <3>1
  <2>3. (\E k \in DOMAIN works : works[k].boxed) => \E j \in DOMAIN less : less[j].boxed
    BY <1>1, <1>3
  <2>. QED  BY <2>1, <2>2, <2>3 DEF Awaited
<1>4. ASSUME works[i].boxed
      PROVE  b # None /\ b.busy /\ b.what = "discard" /\ b.ws = works[i].ws /\ Idle(less, merges)
  <2>1. b # None /\ b.busy /\ b.what = "discard" /\ b.ws = works[i].ws
    BY <1>4 DEF Awaited
  <2>2. \A j \in DOMAIN less : ~ less[j].boxed
    <3>1. \A k \in DOMAIN works : works[k].boxed => k = i
      BY <1>4 DEF Awaited
    <3>. QED  BY <1>1, <3>1
  <2>3. \A j \in DOMAIN merges : b.what = "merge"
    BY DEF Awaited
  <2>. QED  BY <2>1, <2>2, <2>3 DEF Idle
<1>. QED  BY <1>3, <1>4

\* A merge starts, or ends.
LEMMA MoreMerges ==
    ASSUME NEW works, NEW merges, NEW jobs, NEW b, NEW e, NEW more, Grown(merges, e, more), Idle(works, merges),
           b # None, b.busy, b.what = "merge", b.ws = e.ws
    PROVE  Awaited(works, more, jobs, b)
<1>1. \A i \in DOMAIN more : more[i] = e
  BY DEF Grown, Idle
<1>2. \A i, j \in DOMAIN more : i = j
  <2>1. PICK n \in Nat : n = Len(merges)
    BY DEF Grown
  <2>2. DOMAIN merges = 1 .. n /\ DOMAIN more = 1 .. n + 1
    BY <2>1 DEF Grown
  <2>3. 1 .. n = {}
    BY <2>2 DEF Idle
  <2>4. n = 0
    BY <2>1, <2>3
  <2>. QED  BY <2>2, <2>4
<1>3. more # <<>>
  BY DEF Grown
<1>4. \A i \in DOMAIN works : ~ works[i].boxed
  BY DEF Idle
<1>. QED  BY <1>1, <1>2, <1>3, <1>4 DEF Awaited

\* The one merge ends: nothing is left that a confirmation waits for.
LEMMA LessMerges ==
    ASSUME NEW works, NEW merges, NEW jobs, NEW b, Awaited(works, merges, jobs, b), NEW i \in DOMAIN merges,
           NEW less, Shrunk(merges, i, less)
    PROVE  b # None /\ b.busy /\ b.what = "merge" /\ b.ws = merges[i].ws /\ Idle(works, less)
<1>1. b # None /\ b.busy /\ b.what = "merge" /\ b.ws = merges[i].ws
  BY DEF Awaited
<1>2. \A j \in DOMAIN works : ~ works[j].boxed
  BY <1>1 DEF Awaited
<1>3. \A j, k \in DOMAIN merges : j = k
  BY DEF Awaited
<1>4. \A j \in DOMAIN less : FALSE
  BY <1>3 DEF Shrunk
<1>. QED  BY <1>1, <1>2, <1>4 DEF Idle

-----------------------------------------------------------------------------
(* Steps of the confirmation and of the Changes tab. *)

Turned(p, c, after, q) ==
    /\ Framed(q) /\ TabsOf(q, after) /\ Same(p, q) /\ q.workspace = p.workspace
    /\ q.changes = c /\ q.pr = p.pr

\* A panel with another Changes tab.
LEMMA ChangesTurn ==
    ASSUME NEW p, Framed(p), NEW kept, TabsOf(p, kept), NEW c, NEW after, Held(c, p.workspace, after), NEW q,
           q = [p EXCEPT !.changes = c]
    PROVE  Turned(p, c, after, q)
<1>1. c \in ChangesTabs /\ p \in Panels
  BY DEF Held, ChangesOf, Framed, Loose
<1>2. /\ q \in Panels /\ Same(p, q) /\ q.workspace = p.workspace
      /\ q.files = p.files /\ q.changes = c /\ q.pr = p.pr
  BY <1>1 DEF Panels, Same
<1>3. Framed(q)
  BY <1>1, <1>2, SameFrame
<1>4. TabsOf(q, after)
  BY <1>2 DEF TabsOf, Held
<1>. QED  BY <1>2, <1>3, <1>4 DEF Turned

\* A panel with another Pull request tab.
LEMMA PrTurn ==
    ASSUME NEW p, Framed(p), NEW kept, TabsOf(p, kept), NEW r, PrOf(r, p.workspace), NEW q, q = [p EXCEPT !.pr = r]
    PROVE  /\ Framed(q) /\ TabsOf(q, kept) /\ Same(p, q) /\ q.workspace = p.workspace
           /\ q.changes = p.changes /\ q.pr = r
<1>1. r \in PrTabs /\ p \in Panels
  BY DEF PrOf, Framed, Loose
<1>2. /\ q \in Panels /\ Same(p, q) /\ q.workspace = p.workspace
      /\ q.files = p.files /\ q.changes = p.changes /\ q.pr = r
  BY <1>1 DEF Panels, Same
<1>3. Framed(q)
  BY <1>1, <1>2, SameFrame
<1>4. TabsOf(q, kept)
  BY <1>2 DEF TabsOf
<1>. QED  BY <1>2, <1>3, <1>4

\* What the confirmation may be turned into.
LEMMA BoxTurns ==
    ASSUME NEW b \in Boxes
    PROVE  /\ b # None
           /\ [b EXCEPT !.busy = FALSE] \in Boxes /\ Free([b EXCEPT !.busy = FALSE])
           /\ [b EXCEPT !.busy = TRUE] \in Boxes
           /\ [b EXCEPT !.busy = TRUE].busy /\ [b EXCEPT !.busy = TRUE].what = b.what /\ [b EXCEPT !.busy = TRUE].ws = b.ws
           /\ \A w \in Workspaces : LET c == [b EXCEPT !.busy = TRUE, !.ws = w] IN
                  c \in Boxes /\ c.busy /\ c.what = b.what /\ c.ws = w
BY NoneIsNothing DEF Boxes, Free

\* The tabs of a panel, whatever has the keyboard.
LEMMA KinKeeps ==
    ASSUME NEW p, NEW q, Kin(p, q), NEW kept, TabsOf(p, kept), NEW b, BoxOf(p, b)
    PROVE  TabsOf(q, kept) /\ BoxOf(q, b)
BY KinSettles, BoxStays

\* A button asks first.
LEMMA AskIs ==
    ASSUME IInv, NEW what \in {"amend", "discard", "merge"}, NEW head \in Nat, panel.workspace \in Workspaces,
           Ask(what, head), Outside
    PROVE  IInv'
<1>1. PICK b : b = [what |-> what, ws |-> panel.workspace, head |-> head, busy |-> FALSE]
  OBVIOUS
<1>2. b \in Boxes /\ Free(b) /\ box' = b /\ Free(box)
  BY <1>1 DEF Boxes, Free, Ask
<1>3. panel' = FocusOut(panel, "box") /\ typed' = typed
  BY DEF Ask
<1>4. Loose(panel)
  BY InvNow DEF Framed
<1>5. Framed(panel') /\ Kin(panel, panel')
  BY <1>3, <1>4, FocusOutIs DEF Keys
<1>6. BoxOf(panel, b)
  BY <1>2, InvNow, FreeIsIdle DEF BoxOf
<1>7. TabsOf(panel', typed') /\ BoxOf(panel', box')
  BY <1>2, <1>3, <1>5, <1>6, InvNow, KinKeeps
<1>. QED  BY <1>2, <1>3, <1>5, <1>7, InvNow, InvNext DEF Outside

\* It is cancelled.
LEMMA StepBoxCancels ==
    ASSUME IInv, BoxCancels
    PROVE  IInv'
<1>1. Free(box) /\ box' = None /\ panel' = Unasked(panel) /\ Outside /\ typed' = typed
  BY DEF BoxCancels, Free
<1>2. Framed(panel') /\ Kin(panel, panel')
  BY <1>1, InvNow, UnaskedIs
<1>3. BoxOf(panel, None)
  BY <1>1, InvNow, FreeIsIdle DEF BoxOf, Free
<1>4. TabsOf(panel', typed') /\ BoxOf(panel', box')
  BY <1>1, <1>2, <1>3, InvNow, KinKeeps
<1>. QED  BY <1>1, <1>2, <1>4, InvNow, InvNext DEF Outside

\* It is confirmed.
LEMMA StepBoxRuns ==
    ASSUME IInv, BoxRuns
    PROVE  IInv'
<1>1. box \in Boxes /\ Free(box) /\ Outside /\ typed' = typed
  BY InvNow DEF BoxRuns, Free
<1>2. /\ box.what \in {"amend", "discard", "merge"} /\ box.ws \in Workspaces /\ box.head \in Nat
      /\ panel.workspace \in Places /\ Framed(panel) /\ TabsOf(panel, typed)
      /\ Held(panel.changes, panel.workspace, typed) /\ PrOf(panel.pr, panel.workspace)
  BY <1>1, InvNow DEF Boxes
<1>3. Idle(panel.changes.works, panel.pr.merges) /\ Awaited(panel.changes.works, panel.pr.merges, panel.changes.jobs, None)
  BY <1>1, InvNow, FreeIsIdle DEF BoxOf, Free
<1>4. PICK busy : busy = [box EXCEPT !.busy = TRUE]
  OBVIOUS
<1>5. busy \in Boxes /\ busy # None /\ busy.busy /\ busy.what = box.what /\ busy.ws = box.ws
  BY <1>1, <1>4, BoxTurns
<1>6. CASE box.what = "discard"
  <2>1. PICK e \in Works : e = [ws |-> box.ws, action |-> "discard", boxed |-> TRUE]
    BY <1>2 DEF Works
  <2>2. PICK c : c = WorkStarts(panel.changes, e.ws, e.action, e.boxed)
    OBVIOUS
  <2>3. Held(c, panel.workspace, typed) /\ OneMore(panel.changes, e, c)
    BY <1>2, <2>2, StagingStarts
  <2>4. c = WorkStarts(panel.changes, box.ws, "discard", TRUE)
    BY <2>1, <2>2
  <2>5. panel' = [panel EXCEPT !.changes = c] /\ box' = busy
    BY <1>4, <1>6, <2>4 DEF BoxRuns
  <2>6. /\ Framed(panel') /\ TabsOf(panel', typed) /\ panel'.changes = c /\ panel'.pr = panel.pr
    BY <1>2, <2>3, <2>5, ChangesTurn DEF Turned
  <2>7. Awaited(c.works, panel.pr.merges, c.jobs, busy)
    BY <1>3, <1>5, <1>6, <2>1, <2>3, MoreWork DEF OneMore
  <2>8. BoxOf(panel', box')
    BY <2>5, <2>6, <2>7 DEF BoxOf
  <2>. QED  BY <1>1, <1>5, <2>5, <2>6, <2>8, InvNow, InvNext DEF Outside
<1>7. CASE box.what = "merge"
  <2>1. PICK e \in Merges : e = [ws |-> box.ws, head |-> box.head]
    BY <1>2 DEF Merges
  <2>2. PICK r : r = MergeStarts(panel.pr, e.ws, e.head)
    OBVIOUS
  <2>3. PrOf(r, panel.workspace) /\ Grown(panel.pr.merges, e, r.merges)
    BY <1>2, <2>2, MergingStarts
  <2>4. r = MergeStarts(panel.pr, box.ws, box.head)
    BY <2>1, <2>2
  <2>5. panel' = [panel EXCEPT !.pr = r] /\ box' = busy
    BY <1>4, <1>7, <2>4 DEF BoxRuns
  <2>6. /\ Framed(panel') /\ TabsOf(panel', typed) /\ panel'.changes = panel.changes /\ panel'.pr = r
    BY <1>2, <2>3, <2>5, PrTurn
  <2>7. Awaited(panel.changes.works, r.merges, panel.changes.jobs, busy)
    BY <1>3, <1>5, <1>7, <2>1, <2>3, MoreMerges
  <2>8. BoxOf(panel', box')
    BY <2>5, <2>6, <2>7 DEF BoxOf
  <2>. QED  BY <1>1, <1>5, <2>5, <2>6, <2>8, InvNow, InvNext DEF Outside
<1>8. CASE box.what = "amend"
  <2>1. PICK c : c = GitStarts(panel.changes, panel.workspace, "amend", TRUE)
    OBVIOUS
  <2>2. Held(c, panel.workspace, typed) /\ Started(panel.changes, panel.workspace, c)
    BY <1>2, <2>1, ActionStarts DEF Actions
  <2>3. panel' = [panel EXCEPT !.changes = c]
    BY <1>8, <2>1 DEF BoxRuns
  <2>4. /\ Framed(panel') /\ TabsOf(panel', typed) /\ panel'.changes = c /\ panel'.pr = panel.pr
    BY <1>2, <2>2, <2>3, ChangesTurn DEF Turned
  <2>5. Idle(c.works, panel.pr.merges)
    BY <1>3, <2>2 DEF Started
  <2>6. CASE panel.workspace # None /\ panel.changes.running[panel.workspace] = None
    <3>1. PICK mine : mine = [box EXCEPT !.busy = TRUE, !.ws = panel.workspace]
      OBVIOUS
    <3>2. panel.workspace \in Workspaces
      BY <1>2, <2>6 DEF Places
    <3>3. mine \in Boxes /\ mine # None /\ mine.busy /\ mine.what = "amend" /\ mine.ws = panel.workspace
      BY <1>1, <1>8, <3>1, <3>2, BoxTurns
    <3>4. box' = mine
      BY <1>8, <2>6, <3>1 DEF BoxRuns
    <3>5. c.jobs[mine.ws] # None
      BY <2>2, <2>6, <3>3 DEF Started
    <3>6. Awaited(c.works, panel.pr.merges, c.jobs, mine)
      BY <2>5, <3>3, <3>5 DEF Idle, Awaited
    <3>7. BoxOf(panel', box')
      BY <2>4, <3>4, <3>6 DEF BoxOf
    <3>. QED  BY <1>1, <2>4, <3>3, <3>4, <3>7, InvNow, InvNext DEF Outside
  <2>7. CASE ~ (panel.workspace # None /\ panel.changes.running[panel.workspace] = None)
    <3>1. box' = None
      BY <1>8, <2>7 DEF BoxRuns
    <3>2. BoxOf(panel', box')
      BY <2>4, <2>5, <3>1, FreeIsIdle DEF BoxOf, Free
    <3>. QED  BY <1>1, <2>4, <3>1, <3>2, InvNow, InvNext DEF Outside
  <2>. QED  BY <2>6, <2>7
<1>. QED  BY <1>2, <1>6, <1>7, <1>8

\* A message is typed.
LEMMA StepTypeMessage ==
    ASSUME IInv, NEW m \in Messages, TypeMessage(m)
    PROVE  IInv'
<1>1. panel.workspace \in Workspaces
  BY InvNow DEF TypeMessage, In, Places
<1>2. panel.changes.draftFor = panel.workspace
  BY InvNow DEF TypeMessage, Held, ChangesOf
<1>3. PICK c : c = [panel.changes EXCEPT !.message = m]
  OBVIOUS
<1>4. PICK after : after = [typed EXCEPT ![panel.workspace] = m]
  OBVIOUS
<1>5. after \in [Workspaces -> Messages \cup {Blank}]
  BY <1>1, <1>4, InvNow
<1>6. Held(c, panel.workspace, after) /\ SameWork(panel.changes, c)
  BY <1>1, <1>2, <1>3, <1>4, InvNow, MessageTyped
<1>7. panel' = [panel EXCEPT !.changes = c] /\ typed' = after /\ UNCHANGED <<shown, away, box, repo, hub>>
  BY <1>3, <1>4 DEF TypeMessage, ChangesDo
<1>8. Framed(panel') /\ TabsOf(panel', typed') /\ panel'.changes = c /\ panel'.pr = panel.pr
  <2>1. Framed(panel) /\ TabsOf(panel, typed)
    BY InvNow
  <2>2. PICK q : q = [panel EXCEPT !.changes = c]
    OBVIOUS
  <2>3. Turned(panel, c, after, q)
    BY <1>6, <2>1, <2>2, ChangesTurn
  <2>. QED  BY <1>7, <2>2, <2>3 DEF Turned
<1>9. BoxOf(panel', box')
  BY <1>6, <1>7, <1>8, InvNow DEF BoxOf, SameWork
<1>. QED  BY <1>5, <1>7, <1>8, <1>9, InvNow, InvNext

\* A git action is chosen.
LEMMA StepGit ==
    ASSUME IInv, NEW action \in Actions, Git(action)
    PROVE  IInv'
<1>1. panel.workspace \in Workspaces
  BY InvNow DEF Git, In, Places
<1>2. CASE Ask("amend", 0) /\ Outside
  BY <1>1, <1>2, AskIs
<1>3. CASE ChangesDo(GitStarts(panel.changes, panel.workspace, action, FALSE)) /\ Frame
  <2>1. PICK c : c = GitStarts(panel.changes, panel.workspace, action, FALSE)
    OBVIOUS
  <2>2. Held(c, panel.workspace, typed) /\ Started(panel.changes, panel.workspace, c)
    BY <2>1, InvNow, ActionStarts
  <2>3. panel' = [panel EXCEPT !.changes = c] /\ Frame
    BY <1>3, <2>1 DEF ChangesDo
  <2>4. Framed(panel') /\ TabsOf(panel', typed) /\ panel'.changes = c /\ panel'.pr = panel.pr
    <3>1. Framed(panel) /\ TabsOf(panel, typed)
      BY InvNow
    <3>2. PICK q : q = [panel EXCEPT !.changes = c]
      OBVIOUS
    <3>3. Turned(panel, c, typed, q)
      BY <2>2, <3>1, <3>2, ChangesTurn
    <3>. QED  BY <2>3, <3>2, <3>3 DEF Turned
  <2>5. Awaited(c.works, panel.pr.merges, c.jobs, box)
    BY <2>2, InvNow, MoreJobs DEF BoxOf, Started
  <2>6. BoxOf(panel', box)
    BY <2>4, <2>5 DEF BoxOf
  <2>. QED  BY <2>3, <2>4, <2>6, InvNow, InvNext DEF Frame
<1>. QED  BY <1>2, <1>3 DEF Git

-----------------------------------------------------------------------------
(* Steps of what runs. *)

Doings == (Actions \ {"commit-push"}) \cup {"stage", "unstage", "discard"}

\* What git does with a repository is one.
LEMMA DoesIs ==
    ASSUME NEW step \in Doings, NEW r \in Repositories
    PROVE  Does(step, r) \in Repositories
<1>0. /\ r.files \in SUBSET {"staged", "changes", "untracked"} /\ r.ahead \in Nat /\ r.behind \in Nat
      /\ r.upstream \in BOOLEAN
  BY DEF Repositories
<1>1. \A files \in SUBSET {"staged", "changes", "untracked"} : [r EXCEPT !.files = files] \in Repositories
  BY DEF Repositories
<1>2. \A n \in Nat : [r EXCEPT !.ahead = n] \in Repositories /\ [r EXCEPT !.behind = n] \in Repositories
  BY DEF Repositories
<1>3. CASE step = "commit"
  <2>1. PICK n \in Nat : n = IF r.ahead < MaxAhead THEN r.ahead + 1 ELSE r.ahead
    BY <1>0
  <2>2. PICK files \in SUBSET {"staged", "changes", "untracked"} : files = r.files \ {"staged"}
    BY <1>0
  <2>3. Does(step, r) = [r EXCEPT !.files = files, !.ahead = n]
    BY <1>3, <2>1, <2>2 DEF Does
  <2>. QED  BY <2>3 DEF Repositories
<1>4. CASE step = "amend"
  <2>1. PICK n \in Nat : n = IF HeadIsPushed(r) THEN 1 ELSE r.ahead
    BY <1>0
  <2>2. PICK m \in Nat : m = IF HeadIsPushed(r) THEN 1 ELSE r.behind
    BY <1>0
  <2>3. PICK files \in SUBSET {"staged", "changes", "untracked"} : files = r.files \ {"staged"}
    BY <1>0
  <2>4. Does(step, r) = [r EXCEPT !.files = files, !.ahead = n, !.behind = m]
    BY <1>4, <2>1, <2>2, <2>3 DEF Does
  <2>. QED  BY <2>4 DEF Repositories
<1>5. CASE step \in {"unstage", "stage-all", "stage", "discard"}
  <2>1. PICK files \in SUBSET {"staged", "changes", "untracked"} :
            files = IF step = "unstage" THEN (r.files \ {"staged"}) \cup {"changes"}
                    ELSE IF step = "discard" THEN r.files \ {"changes", "untracked"} ELSE {"staged"}
    BY <1>0
  <2>2. Does(step, r) = [r EXCEPT !.files = files]
    BY <1>5, <2>1 DEF Does
  <2>. QED  BY <1>1, <2>2
<1>6. CASE step \in {"push", "pull"}
  BY <1>2, <1>6 DEF Does
<1>7. CASE step = "publish"
  <2>1. Does(step, r) = [r EXCEPT !.ahead = 0, !.upstream = TRUE]
    BY <1>7 DEF Does
  <2>2. \A n \in Nat, up \in BOOLEAN : [r EXCEPT !.ahead = n, !.upstream = up] \in Repositories
    BY DEF Repositories
  <2>. QED  BY <2>1, <2>2
<1>. QED  BY <1>3, <1>4, <1>5, <1>6, <1>7 DEF Doings, Actions

\* So every repository stays one.
LEMMA RepoStays ==
    ASSUME NEW r \in [Workspaces -> Repositories], NEW w \in Workspaces, NEW step \in Doings, NEW done \in BOOLEAN,
           NEW s, s = IF done THEN [r EXCEPT ![w] = Does(step, r[w])] ELSE r
    PROVE  s \in [Workspaces -> Repositories]
<1>1. Does(step, r[w]) \in Repositories
  BY DoesIs
<1>. QED  BY <1>1

\* The steps a running action has left.
LEMMA JobIs ==
    ASSUME NEW c \in ChangesTabs, NEW w \in Workspaces, c.jobs[w] # None
    PROVE  Head(c.jobs[w].steps) \in Doings
<1>1. c.jobs[w] \in Jobs
  BY ChangesParts
<1>2. c.jobs[w].steps \in Seq(Actions \ {"commit-push"}) /\ c.jobs[w].steps # <<>>
  BY <1>1 DEF Jobs
<1>3. PICK steps \in Seq(Actions \ {"commit-push"}) : steps = c.jobs[w].steps
  BY <1>2
<1>4. Head(steps) \in Actions \ {"commit-push"}
  BY <1>2, <1>3
<1>. QED  BY <1>3, <1>4 DEF Doings

\* The message that is kept after a step of git's.
LEMMA TypedStays ==
    ASSUME NEW c, NEW w, NEW v \in Workspaces, NEW how, NEW kept \in [Workspaces -> Messages \cup {Blank}]
    PROVE  TypedAfter(c, w, v, how, kept) \in [Workspaces -> Messages \cup {Blank}]
BY DEF TypedAfter

\* The confirmation goes with what it waited for.
LEMMA LeavesIs ==
    ASSUME NEW p, Framed(p), NEW what, NEW w, NEW ok
    PROVE  Framed(BoxLeaves(what, w, ok, p)) /\ Kin(p, BoxLeaves(what, w, ok, p))
<1>1. Framed(Unasked(p)) /\ Kin(p, Unasked(p))
  BY UnaskedIs
<1>2. Kin(p, p)
  BY DEF Kin
<1>. QED  BY <1>1, <1>2 DEF BoxLeaves

\* A step of a git action ends.
LEMMA StepGitStep ==
    ASSUME IInv, NEW w \in Workspaces, NEW how \in {"ok", "refused", "error"}, GitStep(w, how)
    PROVE  IInv'
<1>0. /\ panel.workspace \in Places /\ Framed(panel) /\ TabsOf(panel, typed) /\ BoxOf(panel, box)
      /\ Held(panel.changes, panel.workspace, typed) /\ panel.changes \in ChangesTabs
      /\ typed \in [Workspaces -> Messages \cup {Blank}] /\ repo \in [Workspaces -> Repositories]
      /\ box \in Boxes \cup {None} /\ UNCHANGED <<shown, away, hub>>
  BY InvNow DEF GitStep, Held, ChangesOf
<1>1. PICK c : c = panel.changes
  OBVIOUS
<1>2. c.jobs[w] # None
  BY <1>1 DEF GitStep
<1>3. Head(c.jobs[w].steps) \in Doings
  BY <1>0, <1>1, <1>2, JobIs
<1>4. repo' = IF how = "ok" THEN [repo EXCEPT ![w] = Does(Head(c.jobs[w].steps), repo[w])] ELSE repo
  BY <1>1 DEF GitStep
<1>5. repo' \in [Workspaces -> Repositories]
  <2>1. PICK done \in BOOLEAN : done <=> how = "ok"
    OBVIOUS
  <2>2. repo' = IF done THEN [repo EXCEPT ![w] = Does(Head(c.jobs[w].steps), repo[w])] ELSE repo
    BY <1>4, <2>1
  <2>. QED  BY <1>0, <1>3, <2>2, RepoStays
<1>6. PICK after : after = TypedAfter(c, panel.workspace, w, how, typed)
  OBVIOUS
<1>7. typed' = after /\ after \in [Workspaces -> Messages \cup {Blank}]
  <2>1. typed' = after
    BY <1>1, <1>6 DEF GitStep, TypedAfter
  <2>. QED  BY <1>0, <1>6, <2>1, TypedStays
<1>8. PICK r : r = repo'
  OBVIOUS
<1>9. PICK g : g = GitStepEnds(c, w, panel.workspace, r, how)
  OBVIOUS
<1>10. /\ Held(g, panel.workspace, after)
       /\ g.works = c.works /\ \A u \in Workspaces \ {w} : g.jobs[u] = c.jobs[u]
       /\ how = "ok" /\ Len(c.jobs[w].steps) # 1 => g.jobs[w] # None
  BY <1>0, <1>1, <1>2, <1>5, <1>6, <1>8, <1>9, StepEnds
<1>11. PICK p : p = [panel EXCEPT !.changes = g]
  OBVIOUS
<1>12. Turned(panel, g, after, p)
  BY <1>0, <1>10, <1>11, ChangesTurn
<1>13. Framed(p) /\ TabsOf(p, after) /\ p.changes = g /\ p.pr = panel.pr
  BY <1>12 DEF Turned
<1>14. Awaited(c.works, panel.pr.merges, c.jobs, box)
  BY <1>0, <1>1 DEF BoxOf
<1>15. CASE how # "ok" \/ Len(c.jobs[w].steps) = 1
  <2>1. panel' = BoxLeaves("amend", w, TRUE, p) /\ BoxHears("amend", w, TRUE)
    BY <1>1, <1>8, <1>9, <1>11, <1>15 DEF GitStep
  <2>2. Framed(panel') /\ Kin(p, panel')
    BY <1>13, <2>1, LeavesIs
  <2>3. box' = IF box # None /\ box.busy /\ box.what = "amend" /\ box.ws = w THEN None ELSE box
    BY <2>1 DEF BoxHears, Waits
  <2>4. Awaited(c.works, panel.pr.merges, g.jobs, box')
    <3>1. PICK b : b = IF box # None /\ box.busy /\ box.what = "amend" /\ box.ws = w THEN None ELSE box
      OBVIOUS
    <3>2. \A u \in Workspaces \ {w} : g.jobs[u] = c.jobs[u]
      BY <1>10
    <3>3. Awaited(c.works, panel.pr.merges, g.jobs, b)
      BY <1>0, <1>14, <3>1, <3>2, JobLess
    <3>. QED  BY <2>3, <3>1, <3>3
  <2>5. BoxOf(p, box')
    BY <1>10, <1>13, <2>4 DEF BoxOf
  <2>6. TabsOf(panel', after) /\ BoxOf(panel', box')
    BY <1>13, <2>2, <2>5, KinKeeps
  <2>7. box' \in Boxes \cup {None}
    BY <1>0, <2>3
  <2>. QED  BY <1>0, <1>5, <1>7, <2>2, <2>6, <2>7, InvNow, InvNext
<1>16. CASE ~ (how # "ok" \/ Len(c.jobs[w].steps) = 1)
  <2>1. panel' = p /\ box' = box
    BY <1>1, <1>8, <1>9, <1>11, <1>16 DEF GitStep
  <2>2. \A u \in Workspaces : c.jobs[u] # None => g.jobs[u] # None
    BY <1>10, <1>16
  <2>3. Awaited(g.works, panel.pr.merges, g.jobs, box)
    BY <1>0, <1>10, <1>14, <2>2, MoreJobs
  <2>4. BoxOf(panel', box')
    BY <1>13, <2>1, <2>3 DEF BoxOf
  <2>. QED  BY <1>0, <1>5, <1>7, <1>13, <2>1, <2>4, InvNow, InvNext
<1>. QED  BY <1>15, <1>16

\* Files are staged or unstaged.
LEMMA StepWork ==
    ASSUME IInv, NEW action \in {"stage", "unstage"}, Work(action)
    PROVE  IInv'
<1>0. /\ Framed(panel) /\ TabsOf(panel, typed) /\ Held(panel.changes, panel.workspace, typed)
      /\ BoxOf(panel, box) /\ panel.workspace \in Workspaces
  BY InvNow DEF Work, In, Places
<1>1. PICK e \in Works : e = [ws |-> panel.workspace, action |-> action, boxed |-> FALSE]
  BY <1>0 DEF Works
<1>2. PICK c : c = WorkStarts(panel.changes, e.ws, e.action, e.boxed)
  OBVIOUS
<1>3. Held(c, panel.workspace, typed) /\ OneMore(panel.changes, e, c)
  BY <1>0, <1>2, StagingStarts
<1>4. PICK q : q = [panel EXCEPT !.changes = c]
  OBVIOUS
<1>5. Turned(panel, c, typed, q)
  BY <1>0, <1>3, <1>4, ChangesTurn
<1>6. panel' = q /\ Frame
  BY <1>1, <1>2, <1>4 DEF Work, ChangesDo
<1>7. Awaited(c.works, panel.pr.merges, c.jobs, box)
  BY <1>0, <1>1, <1>3, MoreWork DEF OneMore, BoxOf
<1>8. BoxOf(panel', box)
  BY <1>5, <1>6, <1>7 DEF BoxOf, Turned
<1>. QED  BY <1>5, <1>6, <1>8, InvNow, InvNext DEF Frame, Turned

\* The panel asks before it discards.
LEMMA StepAskDiscard ==
    ASSUME IInv, AskDiscard
    PROVE  IInv'
<1>1. panel.workspace \in Workspaces /\ Ask("discard", 0) /\ Outside
  BY InvNow DEF AskDiscard, In, Places
<1>. QED  BY <1>1, AskIs

\* Staging or discarding ends.
LEMMA StepWorkAnswer ==
    ASSUME IInv, NEW i \in DOMAIN panel.changes.works, NEW ok \in BOOLEAN, WorkAnswer(i, ok)
    PROVE  IInv'
<1>0. /\ panel.workspace \in Places /\ Framed(panel) /\ TabsOf(panel, typed) /\ BoxOf(panel, box)
      /\ Held(panel.changes, panel.workspace, typed) /\ panel.changes \in ChangesTabs
      /\ repo \in [Workspaces -> Repositories] /\ box \in Boxes \cup {None} /\ UNCHANGED <<shown, away, hub, typed>>
  BY InvNow DEF WorkAnswer, Held, ChangesOf
<1>1. PICK w : w = panel.changes.works[i]
  OBVIOUS
<1>2. w \in Works
  <2>1. panel.changes.works \in Seq(Works)
    BY <1>0, ChangesParts
  <2>. QED  BY <1>1, <2>1, ElementIs
<1>3. w.ws \in Workspaces /\ w.action \in Doings
  BY <1>2 DEF Works, Doings
<1>4. repo' = IF ok THEN [repo EXCEPT ![w.ws] = Does(w.action, repo[w.ws])] ELSE repo
  BY <1>1 DEF WorkAnswer
<1>5. repo' \in [Workspaces -> Repositories]
  BY <1>0, <1>3, <1>4, RepoStays
<1>6. PICK r : r = repo'
  OBVIOUS
<1>7. PICK g : g = WorkEnds(panel.changes, i, panel.workspace, r, ok)
  OBVIOUS
<1>8. Held(g, panel.workspace, typed) /\ g.jobs = panel.changes.jobs /\ Shrunk(panel.changes.works, i, g.works)
  BY <1>0, <1>5, <1>6, <1>7, StagingEnds
<1>9. PICK p : p = [panel EXCEPT !.changes = g]
  OBVIOUS
<1>10. Turned(panel, g, typed, p)
  BY <1>0, <1>8, <1>9, ChangesTurn
<1>11. Framed(p) /\ TabsOf(p, typed) /\ p.changes = g /\ p.pr = panel.pr
  BY <1>10 DEF Turned
<1>12. Awaited(panel.changes.works, panel.pr.merges, panel.changes.jobs, box)
  BY <1>0 DEF BoxOf
<1>13. CASE w.boxed
  <2>1. panel' = BoxLeaves("discard", w.ws, ok, p) /\ BoxHears("discard", w.ws, ok)
    BY <1>1, <1>6, <1>7, <1>9, <1>13 DEF WorkAnswer
  <2>2. Framed(panel') /\ Kin(p, panel')
    BY <1>11, <2>1, LeavesIs
  <2>3. /\ box # None /\ box.busy /\ box.what = "discard" /\ box.ws = w.ws
        /\ Idle(g.works, panel.pr.merges)
    BY <1>1, <1>8, <1>12, <1>13, LessWork
  <2>4. box' = IF ok THEN None ELSE [box EXCEPT !.busy = FALSE]
    BY <2>1, <2>3 DEF BoxHears, Waits
  <2>5. box \in Boxes
    BY <1>0, <2>3
  <2>6. box' \in Boxes \cup {None} /\ Free(box')
    BY <2>4, <2>5, BoxTurns DEF Free
  <2>7. BoxOf(p, box')
    BY <1>11, <2>3, <2>6, FreeIsIdle DEF BoxOf
  <2>8. TabsOf(panel', typed) /\ BoxOf(panel', box')
    BY <1>11, <2>2, <2>7, KinKeeps
  <2>. QED  BY <1>0, <1>5, <2>2, <2>6, <2>8, InvNow, InvNext
<1>14. CASE ~ w.boxed
  <2>1. panel' = p /\ box' = box
    BY <1>1, <1>6, <1>7, <1>9, <1>14 DEF WorkAnswer
  <2>2. Awaited(g.works, panel.pr.merges, panel.changes.jobs, box)
    BY <1>1, <1>8, <1>12, <1>14, LessWork
  <2>3. BoxOf(panel', box')
    BY <1>8, <1>11, <2>1, <2>2 DEF BoxOf
  <2>. QED  BY <1>0, <1>5, <1>11, <2>1, <2>3, InvNow, InvNext
<1>. QED  BY <1>13, <1>14

\* Git says how the workspace stands.
LEMMA StepChangesHeard ==
    ASSUME IInv, NEW i \in DOMAIN panel.changes.asks, NEW how \in {"asked", "now", "fails", "no repository"},
           ChangesHeard(i, how)
    PROVE  IInv'
<1>0. /\ panel.workspace \in Places /\ Framed(panel) /\ TabsOf(panel, typed) /\ BoxOf(panel, box)
      /\ Held(panel.changes, panel.workspace, typed) /\ repo \in [Workspaces -> Repositories]
  BY InvNow
<1>1. PICK c : c = ChangesAnswer(panel.changes, i, repo, how)
  OBVIOUS
<1>2. Held(c, panel.workspace, typed) /\ SameWork(panel.changes, c)
  BY <1>0, <1>1, ChangesCome
<1>3. PICK q : q = [panel EXCEPT !.changes = c]
  OBVIOUS
<1>4. Turned(panel, c, typed, q)
  BY <1>0, <1>2, <1>3, ChangesTurn
<1>5. panel' = q /\ Frame
  BY <1>1, <1>3 DEF ChangesHeard, ChangesDo
<1>6. Settled(panel, panel')
  BY <1>2, <1>4, <1>5 DEF Settled, Whole, StillRuns, Turned
<1>. QED  BY <1>5, <1>6, FrameStep

\* A file of a workspace is written.
LEMMA StepFileWritten ==
    ASSUME IInv, NEW w \in Workspaces, FileWritten(w)
    PROVE  IInv'
<1>0. repo \in [Workspaces -> Repositories] /\ UNCHANGED <<panel, shown, away, box, hub, typed>>
  BY InvNow DEF FileWritten
<1>1. PICK files \in SUBSET {"staged", "changes", "untracked"} : files = repo[w].files \cup {"changes"}
  BY <1>0 DEF Repositories
<1>2. PICK r : r = [repo[w] EXCEPT !.files = files]
  OBVIOUS
<1>3. r \in Repositories
  BY <1>0, <1>2 DEF Repositories
<1>4. repo' = [repo EXCEPT ![w] = r]
  BY <1>1, <1>2 DEF FileWritten
<1>5. repo' \in [Workspaces -> Repositories]
  BY <1>0, <1>3, <1>4
<1>. QED  BY <1>0, <1>5, InvNow, InvNext

-----------------------------------------------------------------------------
(* Steps of the Pull request tab. *)

\* A panel whose Pull request tab changed, with the same merges.
LEMMA PrStep ==
    ASSUME IInv, NEW r, PrOf(r, panel.workspace), r.merges = panel.pr.merges,
           panel' = [panel EXCEPT !.pr = r], Frame
    PROVE  IInv'
<1>0. Framed(panel) /\ TabsOf(panel, typed)
  BY InvNow
<1>1. PICK q : q = [panel EXCEPT !.pr = r]
  OBVIOUS
<1>2. Framed(q) /\ TabsOf(q, typed) /\ q.changes = panel.changes /\ q.pr = r
  BY <1>0, <1>1, PrTurn
<1>3. Settled(panel, panel')
  BY <1>1, <1>2 DEF Settled, Whole, StillRuns, SameWork
<1>. QED  BY <1>3, FrameStep

\* A failing check is opened or closed.
LEMMA StepOpenCheck ==
    ASSUME IInv, NEW k \in Checks, OpenCheck(k)
    PROVE  IInv'
<1>1. PICK r : r = ToggleCheck(panel.pr, k)
  OBVIOUS
<1>2. PrOf(r, panel.workspace) /\ r.merges = panel.pr.merges
  BY <1>1, InvNow, CheckTurns
<1>3. panel' = [panel EXCEPT !.pr = r] /\ Frame
  BY <1>1 DEF OpenCheck, PrDo
<1>. QED  BY <1>2, <1>3, PrStep

\* The log of a check comes.
LEMMA StepLogAnswer ==
    ASSUME IInv, NEW i \in DOMAIN panel.pr.reads, NEW ok \in BOOLEAN, LogAnswer(i, ok)
    PROVE  IInv'
<1>1. PICK r : r = LogAnswers(panel.pr, i, ok)
  OBVIOUS
<1>2. PrOf(r, panel.workspace) /\ r.merges = panel.pr.merges
  BY <1>1, InvNow, LogCome
<1>3. panel' = [panel EXCEPT !.pr = r] /\ Frame
  BY <1>1 DEF LogAnswer, PrDo
<1>. QED  BY <1>2, <1>3, PrStep

\* GitHub answers.
LEMMA StepPrHeard ==
    ASSUME IInv, NEW i \in DOMAIN panel.pr.asks, NEW ok \in BOOLEAN, PrHeard(i, ok)
    PROVE  IInv'
<1>1. PICK r : r = PrAnswer(panel.pr, i, ok)
  OBVIOUS
<1>2. PrOf(r, panel.workspace) /\ r.merges = panel.pr.merges
  BY <1>1, InvNow, PrCome
<1>3. panel' = [panel EXCEPT !.pr = r] /\ Frame
  BY <1>1 DEF PrHeard, PrDo
<1>. QED  BY <1>2, <1>3, PrStep

\* A merge asks first, naming the head on screen.
LEMMA StepAskMerge ==
    ASSUME IInv, AskMerge
    PROVE  IInv'
<1>1. panel.workspace \in Workspaces /\ panel.pr.data # None /\ panel.pr.data.pr # None
  BY InvNow DEF AskMerge, PrOnScreen, In, Places
<1>2. panel.pr \in PrTabs
  BY InvNow DEF PrOf
<1>3. panel.pr.data.pr \in PullRequests
  BY <1>1, <1>2, PrParts
<1>4. panel.pr.data.pr.head \in Nat
  BY <1>1, <1>3 DEF PullRequests
<1>5. Ask("merge", panel.pr.data.pr.head) /\ Outside
  BY DEF AskMerge
<1>. QED  BY <1>1, <1>4, <1>5, AskIs

\* GitHub merged, or refused.
LEMMA StepMergeAnswer ==
    ASSUME IInv, NEW i \in DOMAIN panel.pr.merges, MergeAnswer(i)
    PROVE  IInv'
<1>0. /\ panel.workspace \in Places /\ Framed(panel) /\ TabsOf(panel, typed) /\ BoxOf(panel, box)
      /\ PrOf(panel.pr, panel.workspace) /\ panel.pr \in PrTabs
      /\ hub \in [Workspaces -> PullRequests] /\ box \in Boxes \cup {None} /\ UNCHANGED <<shown, away, repo, typed>>
  BY InvNow DEF MergeAnswer, PrOf
<1>1. PICK m : m = panel.pr.merges[i]
  OBVIOUS
<1>2. m \in Merges
  <2>1. panel.pr.merges \in Seq(Merges)
    BY <1>0, PrParts
  <2>. QED  BY <1>1, <2>1, ElementIs
<1>3. PICK ok \in BOOLEAN : ok = MergeTakes(hub[m.ws], m.head)
  BY DEF MergeTakes, MayMerge
<1>4. PICK fine \in BOOLEAN : fine = (ok \/ m.ws # panel.workspace)
  OBVIOUS
<1>5. hub' \in [Workspaces -> PullRequests]
  <2>1. hub' = IF ok THEN [hub EXCEPT ![m.ws].state = "MERGED"] ELSE hub
    BY <1>1, <1>3 DEF MergeAnswer
  <2>2. m.ws \in Workspaces
    BY <1>2 DEF Merges
  <2>3. PICK pr : pr = [hub[m.ws] EXCEPT !.state = "MERGED"]
    OBVIOUS
  <2>4. ok => pr \in PullRequests
    <3>1. ok => hub[m.ws] # None /\ hub[m.ws] \in PullRequests
      BY <1>0, <1>3, <2>2 DEF MergeTakes
    <3>. QED  BY <2>3, <3>1 DEF PullRequests
  <2>5. hub' = IF ok THEN [hub EXCEPT ![m.ws] = pr] ELSE hub
    BY <2>1, <2>3
  <2>. QED  BY <1>0, <2>2, <2>4, <2>5
<1>6. PICK h : h = hub'
  OBVIOUS
<1>7. PICK r : r = MergeEnds(panel.pr, i, panel.workspace, h)
  OBVIOUS
<1>8. PrOf(r, panel.workspace) /\ Shrunk(panel.pr.merges, i, r.merges)
  BY <1>0, <1>5, <1>6, <1>7, MergingEnds
<1>9. PICK p : p = [panel EXCEPT !.pr = r]
  OBVIOUS
<1>10. Framed(p) /\ TabsOf(p, typed) /\ p.changes = panel.changes /\ p.pr = r
  BY <1>0, <1>8, <1>9, PrTurn
<1>11. panel' = BoxLeaves("merge", m.ws, fine, p) /\ BoxHears("merge", m.ws, fine)
  BY <1>1, <1>3, <1>4, <1>6, <1>7, <1>9 DEF MergeAnswer
<1>12. Framed(panel') /\ Kin(p, panel')
  BY <1>10, <1>11, LeavesIs
<1>13. /\ box # None /\ box.busy /\ box.what = "merge" /\ box.ws = m.ws
       /\ Idle(panel.changes.works, r.merges)
  <2>1. Awaited(panel.changes.works, panel.pr.merges, panel.changes.jobs, box)
    BY <1>0 DEF BoxOf
  <2>. QED  BY <1>1, <1>8, <2>1, LessMerges
<1>14. box' = IF fine THEN None ELSE [box EXCEPT !.busy = FALSE]
  BY <1>11, <1>13 DEF BoxHears, Waits
<1>15. box \in Boxes
  BY <1>0, <1>13
<1>16. box' \in Boxes \cup {None} /\ Free(box')
  BY <1>14, <1>15, BoxTurns DEF Free
<1>17. BoxOf(p, box')
  BY <1>10, <1>13, <1>16, FreeIsIdle DEF BoxOf
<1>18. TabsOf(panel', typed) /\ BoxOf(panel', box')
  BY <1>10, <1>12, <1>17, KinKeeps
<1>. QED  BY <1>0, <1>5, <1>12, <1>16, <1>18, InvNow, InvNext

\* Someone pushes.
LEMMA StepBranchMoves ==
    ASSUME IInv, NEW w \in Workspaces, BranchMoves(w)
    PROVE  IInv'
<1>0. /\ hub \in [Workspaces -> PullRequests] /\ hub[w] # None
      /\ UNCHANGED <<panel, shown, away, box, repo, typed>>
  BY InvNow DEF BranchMoves
<1>1. PICK n : n = hub[w].head + 1
  OBVIOUS
<1>2. PICK pr : pr = [hub[w] EXCEPT !.head = n]
  OBVIOUS
<1>3. pr \in PullRequests
  BY <1>0, <1>1, <1>2 DEF PullRequests
<1>4. hub' = [hub EXCEPT ![w] = pr]
  BY <1>1, <1>2 DEF BranchMoves
<1>5. hub' \in [Workspaces -> PullRequests]
  BY <1>0, <1>3, <1>4
<1>. QED  BY <1>0, <1>5, InvNow, InvNext
-----------------------------------------------------------------------------
(* The invariant, and what it says. *)

\* A tab, a repository, a confirmation that nobody used yet.
LEMMA FreshIs ==
    ASSUME NEW s \in Starts, NEW p, p = [Fresh EXCEPT !.tab = s.tab, !.pinned = s.pinned],
           NEW kept, kept = [w \in Workspaces |-> Blank]
    PROVE  Framed(p) /\ TabsOf(p, kept) /\ Idle(p.changes.works, p.pr.merges)
<1>0. s.tab \in Tabs /\ s.pinned \in BOOLEAN
  BY PanelAssumption
<1>1. NoFiles \in FilesTabs /\ FilesOf(NoFiles, None)
  <2>1. PICK listed : listed = [d \in Dirs |-> Unlisted]
    OBVIOUS
  <2>2. listed \in [Dirs -> Workspaces \cup {Unlisted, Nothing}] /\ \A d \in Dirs : listed[d] = Unlisted
    BY <2>1
  <2>3. <<>> \in Seq(Loads) /\ <<>> \in Seq(Searches) /\ DOMAIN <<>> = {}
    OBVIOUS
  <2>4. NoFiles = [listed |-> listed, expanded |-> {}, spinning |-> {}, rows |-> {},
                   query |-> NoQuery, due |-> FALSE, hits |-> None, loads |-> <<>>, searches |-> <<>>]
    BY <2>1 DEF NoFiles
  <2>5. NoFiles \in FilesTabs
    BY <2>2, <2>3, <2>4 DEF FilesTabs
  <2>. QED  BY <2>2, <2>3, <2>4, <2>5 DEF FilesOf
<1>2. NoChanges \in ChangesTabs /\ Held(NoChanges, None, kept)
  <2>1. PICK none : none = [w \in Workspaces |-> None]
    OBVIOUS
  <2>2. /\ none \in [Workspaces -> Actions \cup {None}] /\ none \in [Workspaces -> Jobs \cup {None}]
        /\ none \in [Workspaces -> [fix : BOOLEAN] \cup {None}] /\ \A w \in Workspaces : none[w] = None
    BY <2>1
  <2>3. kept \in [Workspaces -> Messages \cup {Blank}] /\ \A w \in Workspaces : kept[w] = Blank
    OBVIOUS
  <2>4. <<>> \in Seq(ChangeAsks) /\ <<>> \in Seq(Works) /\ DOMAIN <<>> = {}
    OBVIOUS
  <2>5. NoChanges = [data |-> None, asks |-> <<>>, message |-> Blank, draftFor |-> None, drafts |-> kept,
                     running |-> none, said |-> none, jobs |-> none, works |-> <<>>]
    BY <2>1 DEF NoChanges
  <2>6. NoChanges \in ChangesTabs
    BY <2>2, <2>3, <2>4, <2>5 DEF ChangesTabs, ChangeAsks
  <2>7. ChangesOf(NoChanges, None)
    BY <2>2, <2>4, <2>5, <2>6 DEF ChangesOf
  <2>8. Kept(NoChanges, kept)
    BY <2>3, <2>5, PanelAssumption DEF Kept
  <2>. QED  BY <2>6, <2>7, <2>8 DEF Held
<1>3. NoPr \in PrTabs /\ PrOf(NoPr, None)
  <2>1. PICK logs : logs = [k \in Checks |-> None]
    OBVIOUS
  <2>2. logs \in [Checks -> LogStates] /\ \A k \in Checks : logs[k] = None
    BY <2>1 DEF LogStates
  <2>3. <<>> \in Seq(PrAsks) /\ <<>> \in Seq(Merges) /\ <<>> \in Seq(Checks) /\ DOMAIN <<>> = {}
    OBVIOUS
  <2>4. NoPr = [data |-> None, asks |-> <<>>, loading |-> FALSE, expanded |-> {},
                logs |-> logs, reads |-> <<>>, merges |-> <<>>]
    BY <2>1 DEF NoPr
  <2>5. NoPr \in PrTabs
    BY <2>2, <2>3, <2>4 DEF PrTabs, PrAsks, Merges, LogStates
  <2>6. None # "loading"
    BY NoneIsNothing
  <2>. QED  BY <2>2, <2>3, <2>4, <2>5, <2>6 DEF PrOf
<1>4. Fresh \in Panels
  <2>1. [panel |-> 0, viewer |-> 0] \in [panel : Nat, viewer : Nat]
    OBVIOUS
  <2>. QED  BY <1>1, <1>2, <1>3, <2>1 DEF Fresh, Panels, Tabs
<1>5. p \in Panels
  BY <1>0, <1>4 DEF Panels
<1>6. /\ p.workspace = None /\ p.files = NoFiles /\ p.changes = NoChanges /\ p.pr = NoPr /\ p.viewer = None
      /\ p.claimed = FALSE /\ p.keys = "terminal" /\ p.claims.viewer = 0 /\ p.claims.panel = 0
  BY DEF Fresh
<1>7. Framed(p)
  BY <1>5, <1>6 DEF Framed, Loose
<1>8. TabsOf(p, kept)
  BY <1>1, <1>2, <1>3, <1>6 DEF TabsOf, Held
<1>9. Idle(p.changes.works, p.pr.merges)
  <2>1. DOMAIN <<>> = {}
    OBVIOUS
  <2>. QED  BY <1>6, <2>1 DEF Idle, NoChanges, NoPr
<1>. QED  BY <1>7, <1>8, <1>9

\* It holds at the start, of a panel that comes back pinned too.
LEMMA InvStarts ==
    ASSUME Init
    PROVE  IInv
<1>1. PICK s \in Starts :
          /\ shown = s.shown
          /\ LET p == [Fresh EXCEPT !.tab = s.tab, !.pinned = s.pinned] IN
             panel = IF s.pinned THEN SetOpen(p) ELSE p
  BY DEF Init
<1>2. /\ box = None /\ repo \in [Workspaces -> Repositories] /\ hub \in [Workspaces -> PullRequests]
      /\ typed = [w \in Workspaces |-> Blank] /\ shown \in Workspaces \cup {None}
  BY <1>1, PanelAssumption DEF Init
<1>3. Around
  BY <1>2 DEF Around
<1>4. PICK p : p = [Fresh EXCEPT !.tab = s.tab, !.pinned = s.pinned]
  OBVIOUS
<1>5. Framed(p) /\ TabsOf(p, typed) /\ Idle(p.changes.works, p.pr.merges)
  BY <1>2, <1>4, FreshIs
<1>6. Settled(p, SetOpen(p))
  BY <1>3, <1>5, OpenIs DEF Whole
<1>7. Framed(panel) /\ TabsOf(panel, typed) /\ Idle(panel.changes.works, panel.pr.merges)
  BY <1>1, <1>4, <1>5, <1>6 DEF Settled, Whole, StillRuns, SameWork
<1>8. BoxOf(panel, box)
  BY <1>2, <1>7, FreeIsIdle DEF BoxOf, Free
<1>. QED  BY <1>3, <1>7, <1>8, FramedIs DEF IInv

\* A step of the frame keeps it.
LEMMA FrameNextKeeps ==
    ASSUME IInv, FrameNext
    PROVE  IInv'
BY StepSelectTab, StepToggle, StepPin, StepFollows, StepTerminalTouched, StepClickPanel, StepEscape, StepColumnChanges,
   StepDetailsAnswer, StepPageHides, StepPageShows, StepWindowFocused, StepBoxCancels, StepBoxRuns, StepTick
   DEF FrameNext

\* A step of the Files tab.
LEMMA FilesNextKeeps ==
    ASSUME IInv, FilesNext
    PROVE  IInv'
BY StepOpenFolder, StepTypeFilter, StepSearchDue, StepListingAnswer, StepSearchAnswer DEF FilesNext

\* A step of the Changes tab.
LEMMA ChangesNextKeeps ==
    ASSUME IInv, ChangesNext
    PROVE  IInv'
<1>1. {"commit", "commit-push", "amend", "push", "publish", "pull", "stage-all"} = Actions
  BY DEF Actions
<1>. QED  BY <1>1, StepTypeMessage, StepGit, StepGitStep, StepWork, StepAskDiscard, StepWorkAnswer, StepChangesHeard,
             StepFileWritten DEF ChangesNext

\* A step of the Pull request tab.
LEMMA PrNextKeeps ==
    ASSUME IInv, PrNext
    PROVE  IInv'
BY StepOpenCheck, StepLogAnswer, StepPrHeard, StepAskMerge, StepMergeAnswer, StepBranchMoves DEF PrNext

\* A step of a view.
LEMMA ViewerNextKeeps ==
    ASSUME IInv, ViewerNext
    PROVE  IInv'
BY StepOpenFile, StepOpenDiff, StepMarkAnswer, StepFileAnswer, StepDiffAnswer, StepDiffKeys, StepFileKeys,
   StepViewerCloses DEF ViewerNext

\* The frame, the keyboard, every tab, view and confirmation keep together in every behaviour.
THEOREM PanelHoldsTogether == Spec => []IInv
<1>1. Init => IInv
  BY InvStarts
<1>2. IInv /\ [Next]_vars => IInv'
  <2>. SUFFICES ASSUME IInv, [Next]_vars PROVE IInv'
    OBVIOUS
  <2>1. CASE Next
    BY <2>1, FrameNextKeeps, FilesNextKeeps, ChangesNextKeeps, PrNextKeeps, ViewerNextKeeps DEF Next
  <2>2. CASE UNCHANGED vars
    <3>1. UNCHANGED <<panel, shown, box, repo, hub, typed>>
      BY <2>2 DEF vars
    <3>. QED  BY <3>1, InvNow, InvNext
  <2>. QED  BY <2>1, <2>2
<1>. QED  BY <1>1, <1>2, PTL DEF Spec

\* No tab of the panel ever draws what was asked for another workspace: of every listing, row,
\* draft, state of git and pull request it shows, the workspace is the one the panel is on,
\* whatever answer came late (rp_files.js, rp_changes.js, rp_pr.js).
THEOREM NothingOfAnother == Spec => []TabsShowTheirWorkspace
<1>1. IInv => TabsShowTheirWorkspace
  BY DEF IInv, TabsOf, FilesOf, ChangesOf, PrOf, TabsShowTheirWorkspace
<1>. QED  BY <1>1, PanelHoldsTogether, PTL

\* What was typed for a workspace and not committed from it is on screen there or in its draft
\* (rp_changes.js takeDraft, reset, committed).
THEOREM MessageIsKept == Spec => []TypedMessageIsKept
<1>1. IInv => TypedMessageIsKept
  BY DEF IInv, TabsOf, Kept, TypedMessageIsKept
<1>. QED  BY <1>1, PanelHoldsTogether, PTL

\* The panel and the view over the stage hold one claim each while they are up and none after,
\* however they went (right_panel.js, focus.js).
THEOREM KeyboardIsGivenBack == Spec => []KeyboardComesBack
<1>1. IInv => KeyboardComesBack
  BY DEF IInv, KeysOf, KeyboardComesBack, View
<1>. QED  BY <1>1, PanelHoldsTogether, PTL

\* Whatever the panel shows as waiting, a request, a git action or a merge is behind it, and
\* every variable has its type.
THEOREM WaitingHasWork == Spec => []BusyHasWork
<1>1. IInv => TypeOK
  BY DEF IInv, Around, ViewOf, TypeOK, View
<1>2. IInv => BusyHasWork
  <2>. SUFFICES ASSUME IInv PROVE BusyHasWork
    OBVIOUS
  <2>1. /\ \A d \in panel.files.spinning :
              \E i \in DOMAIN panel.files.loads : panel.files.loads[i].kind = "toggle" /\ panel.files.loads[i].want = {d}
        /\ panel.pr.loading => \E i \in DOMAIN panel.pr.asks : panel.pr.asks[i].live
        /\ \A w \in Workspaces : panel.changes.running[w] # None <=> panel.changes.jobs[w] # None
        /\ \A k \in Checks : panel.pr.logs[k] = "loading" => \E i \in DOMAIN panel.pr.reads : panel.pr.reads[i] = k
    BY DEF IInv, TabsOf, FilesOf, ChangesOf, PrOf
  <2>2. box # None /\ box.busy =>
          \/ box.what = "amend" /\ panel.changes.jobs[box.ws] # None
          \/ box.what = "discard" /\ \E i \in DOMAIN panel.changes.works : panel.changes.works[i].boxed
          \/ box.what = "merge" /\ panel.pr.merges # <<>>
    <3>. SUFFICES ASSUME box # None, box.busy
                  PROVE  \/ box.what = "amend" /\ panel.changes.jobs[box.ws] # None
                         \/ box.what = "discard" /\ \E i \in DOMAIN panel.changes.works : panel.changes.works[i].boxed
                         \/ box.what = "merge" /\ panel.pr.merges # <<>>
      OBVIOUS
    <3>1. box.what \in {"amend", "discard", "merge"}
      BY DEF IInv, Around, Boxes
    <3>. QED  BY <3>1 DEF IInv, BoxOf, Awaited
  <2>. QED  BY <1>1, <2>1, <2>2 DEF BusyHasWork
<1>. QED  BY <1>2, PanelHoldsTogether, PTL
=============================================================================
