------------------------------- MODULE Layout -------------------------------
(***************************************************************************)
(* The layout of one document (layout.js, split_tree.js, pane_move.js): a     *)
(* binary tree of splits whose leaves are panes, the elements on the page     *)
(* that lag behind it while a closed pane slides shut, zoom, focus, broadcast *)
(* and the panes nobody can see.  A node is named by its path from the root,  *)
(* 1 for the first child and 2 for the second.  Pixel geometry is left open:  *)
(* whether a split has room, and which neighbour an arrow key finds.          *)
(***************************************************************************)
EXTENDS Naturals, Sequences, FiniteSets, SequencesExt

CONSTANTS
    Panes,      \* the Pane objects; a disposed one is used again for a new one
    NoPane,
    Steps,      \* a ratio in steps: 20 in the code (0.05)
    Margin      \* the smallest ratio a key or a restore gives: 2 in the code (0.1)

ASSUME LayoutAssumption ==
    /\ NoPane \notin Panes
    /\ Steps \in Nat /\ Margin \in Nat /\ Steps % 2 = 0
    /\ 0 < Margin /\ 2 * Margin < Steps

VARIABLES
    leaf,       \* this.root: the pane at each leaf
    split,      \* this.root: direction and ratio of each inner node
    grid,       \* the panes' elements in the grid, at the leaves of the last render
    slides,     \* panes that slide shut; value: no render since (_renderGeneration)
    zoom,       \* zoomedPane, in the zoom host; NoPane when not zoomed
    focused,    \* this.focused
    lit,        \* the panes whose element carries the focus class
    viewHidden, \* the shell shows another view
    offscreen,  \* the panes told that nobody can see them
    broadcasting,
    outlined,   \* the panes told that they take part in a broadcast
    announced   \* the tree the last onLayoutChange (or restore) told of

tree  == <<leaf, split>>
dom   == <<grid, slides, zoom>>
flags == <<viewHidden, offscreen, broadcasting, outlined>>
vars  == <<tree, dom, focused, lit, flags, announced>>

Dirs  == {"h", "v"}
Zones == {"left", "right", "top", "bottom", "center"}
Half  == Steps \div 2
Other(side) == 3 - side
Up(path) == Front(path)
Side(path) == Last(path)

-----------------------------------------------------------------------------
(* The tree (split_tree.js). *)

LeavesOf(l) == {l[path] : path \in DOMAIN l}
PathTo(l, p) == CHOOSE path \in DOMAIN l : l[path] = p
Shown == LeavesOf(leaf)

\* A map over the paths of a tree, the subtree at `from` taking the place of its
\* parent and the rest of the parent's subtree dropped.
Lifted(f, from) ==
    LET up    == Up(from)
        stays == {path \in DOMAIN f : ~ IsPrefix(up, path)}
        moves == {path \in DOMAIN f : IsPrefix(from, path)}
        To(path)   == up \o SubSeq(path, Len(from) + 1, Len(path))
        From(path) == from \o SubSeq(path, Len(up) + 1, Len(path))
    IN  [path \in stays \cup {To(m) : m \in moves} |->
            IF path \in stays THEN f[path] ELSE f[From(path)]]

\* The tree without the leaf of p, whose sibling takes the parent's place.
Without(l, s, p) ==
    LET path    == PathTo(l, p)
        sibling == Append(Up(path), Other(Side(path)))
    IN  <<Lifted(l, sibling), Lifted(s, sibling)>>

\* The leaf at path becomes a split of its pane and p, p on the given side.
With(l, s, path, p, side, dir) ==
    <<[q \in (DOMAIN l \ {path}) \cup {Append(path, 1), Append(path, 2)} |->
          IF q = Append(path, side) THEN p
          ELSE IF q = Append(path, Other(side)) THEN l[path] ELSE l[q]],
      [q \in DOMAIN s \cup {path} |->
          IF q = path THEN [dir |-> dir, ratio |-> Half] ELSE s[q]]>>

Leaf(p) == <<[path \in {<< >>} |-> p], [path \in {} |-> 0]>>

\* pane_move.js movePaneNode: whether a drop changes anything, and the tree it leaves.
DirOf(zone)  == IF zone \in {"left", "right"} THEN "h" ELSE "v"
SideOf(zone) == IF zone \in {"left", "top"} THEN 1 ELSE 2
CanMove(p, target, zone) ==
    /\ p # target /\ {p, target} \subseteq Shown
    /\ LET from == PathTo(leaf, p)
           to   == PathTo(leaf, target)
       IN  zone # "center" =>
               ~ /\ Up(from) = Up(to)
                 /\ split[Up(from)].dir = DirOf(zone)
                 /\ Side(from) = SideOf(zone)
\* Fault: the dropped pane always comes second.
MovedBehind(p, target, zone) ==
    LET rest == Without(leaf, split, p)
    IN  IF zone = "center" THEN <<leaf, split>>
        ELSE With(rest[1], rest[2], PathTo(rest[1], target), p, 2, DirOf(zone))
Moved(p, target, zone) ==
    IF zone = "center"
    THEN <<[path \in DOMAIN leaf |-> CASE leaf[path] = p -> target
                                       [] leaf[path] = target -> p
                                       [] OTHER -> leaf[path]], split>>
    ELSE LET rest == Without(leaf, split, p)
         IN  With(rest[1], rest[2], PathTo(rest[1], target), p, SideOf(zone), DirOf(zone))

-----------------------------------------------------------------------------
(* Every split has two children, every pane has one leaf.                     *)
TypeOK ==
    /\ leaf \in [DOMAIN leaf -> Panes] /\ DOMAIN leaf \subseteq Seq({1, 2})
    /\ split \in [DOMAIN split -> [dir: Dirs, ratio: 1 .. Steps - 1]]
    /\ {Up(path) : path \in (DOMAIN leaf \cup DOMAIN split) \ {<< >>}} = DOMAIN split
    /\ DOMAIN leaf \cap DOMAIN split = {}
    /\ Cardinality(Shown) = Cardinality(DOMAIN leaf)
    /\ Cardinality(Shown) = Cardinality(DOMAIN split) + 1
    /\ grid \in [DOMAIN grid -> Panes]
    /\ slides \in [DOMAIN slides -> BOOLEAN] /\ DOMAIN slides \subseteq Panes
    /\ zoom \in Panes \cup {NoPane} /\ focused \in Panes
    /\ lit \subseteq Panes /\ offscreen \subseteq Panes /\ outlined \subseteq Panes
    /\ viewHidden \in BOOLEAN /\ broadcasting \in BOOLEAN

-----------------------------------------------------------------------------
(* What the operations share. *)

Free == Panes \ (Shown \cup LeavesOf(grid) \cup DOMAIN slides)

\* _syncVisibility: the panes of the tree that nobody can see.
Unseen(l, hidden, z) ==
    IF hidden THEN LeavesOf(l) ELSE IF z = NoPane THEN {} ELSE LeavesOf(l) \ {z}

\* render: every zoom ends, the grid is built from the tree, and each pane is told
\* whether it can be seen; born are the panes newPane made for this operation.
Render(l, born, hidden) ==
    /\ grid' = l
    /\ slides' = [p \in DOMAIN slides |-> FALSE]
    /\ zoom' = NoPane
    /\ offscreen' = Unseen(l, hidden, NoPane)
    /\ outlined' = (outlined \cap LeavesOf(l)) \cup (IF broadcasting THEN born ELSE {})

\* focusPane when no zoom hides the pane.
Focus(p) ==
    /\ focused' = p
    /\ lit' = (lit \ {focused}) \cup {p}

Changed(t) ==
    /\ leaf' = t[1] /\ split' = t[2]
    /\ announced' = t

Init ==
    \E p \in Panes :
        /\ leaf = Leaf(p)[1] /\ split = Leaf(p)[2] /\ announced = Leaf(p)
        /\ grid = Leaf(p)[1]
        /\ slides = [q \in {} |-> FALSE]
        /\ zoom = NoPane
        /\ focused = p /\ lit = {p}
        /\ viewHidden = FALSE /\ offscreen = {}
        /\ broadcasting = FALSE /\ outlined = {}

-----------------------------------------------------------------------------
(* Structure. *)

\* splitPane.  Without room it still ends the zoom.
SplitPane(p, dir) ==
    /\ p \in Shown
    /\ \/ \E fresh \in Free :
              LET t == With(leaf, split, PathTo(leaf, p), fresh, 2, dir)
              IN  /\ Changed(t)
                  /\ Render(t[1], {fresh}, viewHidden)
                  /\ Focus(fresh)
       \/ /\ zoom # NoPane
          /\ Render(leaf, {}, viewHidden)
          /\ Focus(focused)
          /\ UNCHANGED <<tree, announced>>
    /\ UNCHANGED <<viewHidden, broadcasting>>

MovePane(p, target, zone) ==
    /\ CanMove(p, target, zone)
    /\ LET t == Moved(p, target, zone)
       IN  /\ Changed(t)
           /\ Render(t[1], {}, viewHidden)
    /\ Focus(p)
    /\ UNCHANGED <<viewHidden, broadcasting>>

\* _wireDrag, _dropHint: the target and the zone under the pointer when it last moved.
\* The drag began without a zoom, but a key may have zoomed since, and by the time of
\* the drop either pane may be gone.
Drop(p) == \E target \in Panes \ {p}, zone \in Zones : MovePane(p, target, zone)

\* A pane that is closed is disposed: it is told nothing any more.
Dispose(p) == /\ offscreen' = offscreen \ {p}
              /\ outlined' = outlined \ {p}

\* closePane of the only pane: a fresh one takes its place.
CloseLast(p) ==
    /\ Shown = {p}
    /\ \E fresh \in Free :
          /\ Changed(Leaf(fresh))
          /\ Render(Leaf(fresh)[1], {fresh}, viewHidden)
          /\ Focus(fresh)
    /\ UNCHANGED <<viewHidden, broadcasting>>

\* _animateLeave can slide p shut only if its element is a direct child of its split:
\* its neighbour in the grid must still show something.
CanSlide(p) ==
    LET path == PathTo(grid, p)
        beside == Append(Up(path), Other(Side(path)))
    IN  \E q \in DOMAIN grid : IsPrefix(beside, q) /\ grid[q] \in Shown

\* Where the focus goes: the first pane of what took the place.
FirstOf(l, paths) ==
    l[CHOOSE path \in paths : \A q \in paths :
        path = q \/ \E n \in 0 .. Len(path) - 1 :
            /\ n < Len(q) /\ SubSeq(path, 1, n) = SubSeq(q, 1, n)
            /\ path[n + 1] < q[n + 1]]
NextAfter(p, t) ==
    LET up == Up(PathTo(leaf, p))
    IN  FirstOf(t[1], {path \in DOMAIN t[1] : IsPrefix(up, path)})

\* closePane of one among others.  A zoom ends first, which renders.  Then the pane
\* slides shut in the grid as it is, or the grid is rendered without it at once.
ClosePane(p, slide) ==
    /\ p \in Shown /\ Shown # {p}
    /\ slide => zoom # NoPane \/ CanSlide(p)
    /\ LET t == Without(leaf, split, p)
           old == [q \in DOMAIN slides |-> slides[q] /\ zoom = NoPane]
       IN  /\ Changed(t)
           /\ zoom' = NoPane
           /\ IF slide
              THEN /\ grid' = IF zoom = NoPane THEN grid ELSE leaf
                   /\ slides' = [q \in DOMAIN slides \cup {p} |-> IF q = p THEN TRUE ELSE old[q]]
                   /\ IF zoom = NoPane
                      THEN Dispose(p)
                      ELSE /\ offscreen' = Unseen(leaf, viewHidden, NoPane) \ {p}
                           /\ outlined' = outlined \ {p}
              ELSE Render(t[1], {}, viewHidden)
           /\ Focus(NextAfter(p, t))
    /\ UNCHANGED <<viewHidden, broadcasting>>

\* Fault: a slide that ends after another change leaves the grid as it is.
EndsBare(p) ==
    /\ p \in DOMAIN slides
    /\ slides' = [q \in DOMAIN slides \ {p} |-> slides[q]]
    /\ UNCHANGED <<tree, grid, zoom, focused, lit, flags, announced>>

\* The timer of _animateLeave: the grid catches up, unless a render has done it.
\* Rendering ends a zoom that began during the slide.
SlideEnds(p) ==
    /\ p \in DOMAIN slides
    /\ IF slides[p]
       THEN /\ grid' = leaf
            /\ zoom' = NoPane
            /\ offscreen' = Unseen(leaf, viewHidden, NoPane)
            /\ slides' = [q \in DOMAIN slides \ {p} |-> FALSE]
       ELSE /\ slides' = [q \in DOMAIN slides \ {p} |-> slides[q]]
            /\ UNCHANGED <<grid, zoom, offscreen>>
    /\ Focus(focused)
    /\ UNCHANGED <<tree, viewHidden, broadcasting, outlined, announced>>

\* restore: the old panes go at once, broadcast ends, and the saved tree is built.
Restore(fresh, l, s) ==
    /\ LeavesOf(l) = fresh
    /\ Changed(<<l, s>>)
    /\ grid' = l
    /\ slides' = [p \in DOMAIN slides |-> FALSE]
    /\ zoom' = NoPane
    /\ offscreen' = Unseen(l, viewHidden, NoPane)
    /\ broadcasting' = FALSE /\ outlined' = {}
    /\ focused' = FirstOf(l, DOMAIN l) /\ lit' = {FirstOf(l, DOMAIN l)}
    /\ UNCHANGED viewHidden

-----------------------------------------------------------------------------
(* Zoom, focus, broadcast, visibility. *)

\* toggleZoom; with one pane it only says so.
ToggleZoom ==
    /\ IF zoom # NoPane
       THEN Render(leaf, {}, viewHidden) /\ Focus(focused)
       ELSE /\ Cardinality(Shown) > 1
            /\ zoom' = focused
            /\ offscreen' = Unseen(leaf, viewHidden, focused)
            /\ UNCHANGED <<grid, slides, outlined, focused, lit>>
    /\ UNCHANGED <<tree, viewHidden, broadcasting, announced>>

\* Fault: a pane behind the zoom takes the keyboard.
FocusBehind(p) ==
    /\ p \in Shown
    /\ Focus(p)
    /\ UNCHANGED <<tree, dom, flags, announced>>

\* focusPane of a pane the zoom hides ends the zoom; so does focusDir, whatever it finds.
FocusPane(p) ==
    /\ p \in Shown
    /\ IF zoom \in {NoPane, p}
       THEN UNCHANGED <<dom, offscreen, outlined>>
       ELSE Render(leaf, {}, viewHidden)
    /\ Focus(p)
    /\ UNCHANGED <<tree, viewHidden, broadcasting, announced>>

FocusDir ==
    /\ IF zoom = NoPane
       THEN UNCHANGED <<dom, offscreen, outlined>>
       ELSE Render(leaf, {}, viewHidden)
    /\ \E p \in Shown : Focus(p)
    /\ UNCHANGED <<tree, viewHidden, broadcasting, announced>>

SetBroadcast(on) ==
    /\ broadcasting' = on
    /\ outlined' = IF on THEN Shown ELSE {}
    /\ UNCHANGED <<tree, dom, focused, lit, viewHidden, offscreen, announced>>

SetViewHidden(hidden) ==
    /\ viewHidden' = hidden
    /\ offscreen' = Unseen(leaf, hidden, zoom)
    /\ UNCHANGED <<tree, dom, focused, lit, broadcasting, outlined, announced>>

-----------------------------------------------------------------------------
(* Ratios. *)

Clamp(r) == IF r < Margin THEN Margin ELSE IF r > Steps - Margin THEN Steps - Margin ELSE r

\* The splitter: arrow keys, Home, a double-click, or a drag to where the pointer is,
\* which may come closer to the edge than a key.
Splitter(at, ratio) ==
    /\ zoom = NoPane /\ at \in DOMAIN split
    /\ split' = [split EXCEPT ![at].ratio = ratio]
    /\ announced' = <<leaf, split'>>
    /\ UNCHANGED <<leaf, dom, focused, lit, flags>>

-----------------------------------------------------------------------------
Next ==
    \/ \E p \in Panes, dir \in Dirs : SplitPane(p, dir)
    \/ \E p \in Panes : Drop(p) \/ CloseLast(p) \/ SlideEnds(p) \/ FocusPane(p)
    \/ \E p \in Panes, slide \in BOOLEAN : ClosePane(p, slide)
    \/ \E p \in Free : Restore({p}, Leaf(p)[1], Leaf(p)[2])
    \/ \E p, q \in Free, dir \in Dirs, ratio \in 1 .. Steps - 1 :
          LET t == With(Leaf(p)[1], Leaf(p)[2], << >>, q, 2, dir)
          IN  p # q /\ Restore({p, q}, t[1], [t[2] EXCEPT ![<< >>].ratio = Clamp(ratio)])
    \/ ToggleZoom \/ FocusDir
    \/ \E on \in BOOLEAN : SetBroadcast(on) \/ SetViewHidden(on)
    \/ \E at \in DOMAIN split, ratio \in 1 .. Steps - 1 : Splitter(at, ratio)

Spec == Init /\ [][Next]_vars
-----------------------------------------------------------------------------
\* A pane of the tree is always on the page, and the page holds a pane that has left
\* the tree only while it slides shut: closes, splits, drops and zooms that fall into
\* the slide leave no terminal without a box and no dead box behind.  The autosave has
\* been told of that tree: what it saves is what a restart shows.
PageFollowsTree ==
    /\ TypeOK /\ announced = tree
    /\ Shown \subseteq LeavesOf(grid)
    /\ \A p \in LeavesOf(grid) \ Shown : p \in DOMAIN slides /\ slides[p]
    /\ (\A p \in DOMAIN slides : ~ slides[p]) => grid = leaf

\* The keyboard is in one pane, which the zoom does not hide; and each pane knows
\* whether it can be seen (or it keeps a renderer it should give back, or draws
\* nothing) and whether it takes part in a broadcast.
KeysGoWhereSeen ==
    /\ focused \in Shown /\ lit = {focused}
    /\ zoom # NoPane => zoom = focused /\ Cardinality(Shown) > 1
    /\ offscreen = {p \in Shown : viewHidden \/ zoom \notin {NoPane, p}}
    /\ outlined = IF broadcasting THEN Shown ELSE {}

Before(l, p, q) == FirstOf(l, {PathTo(l, p), PathTo(l, q)}) = p

\* A drop moves the dragged pane and nothing else: it lands beside its target on the
\* side it was dropped on, and the others keep their order; a swap exchanges two.
DropMovesOnePane ==
    [][tree' # tree => \A target \in Shown, zone \in Zones :
          LET p == focused'
          IN  MovePane(p, target, zone) =>
              /\ LeavesOf(leaf') = Shown
              /\ IF zone = "center"
                 THEN /\ split' = split
                      /\ leaf'[PathTo(leaf, p)] = target /\ leaf'[PathTo(leaf, target)] = p
                 ELSE LET at == PathTo(leaf', p)
                      IN  /\ Side(at) = SideOf(zone)
                          /\ split'[Up(at)].dir = DirOf(zone)
                          /\ leaf'[Append(Up(at), Other(Side(at)))] = target
                          /\ \A q, r \in Shown \ {p} : Before(leaf', q, r) = Before(leaf, q, r)
      ]_vars

=============================================================================
