---------------------------- MODULE MCRightPanel -----------------------------
(* Two workspaces, one of them with no folder; in a behaviour one tab gets the commands. *)
EXTENDS RightPanel
CONSTANTS wsApp, wsBare

Parts == {"frame", "records", "polls", "files", "changes", "pr", "viewer"}
Start(tab, pinned, ws, frame, others) ==
    [tab |-> tab, pinned |-> pinned, shown |-> ws,
     left |-> [x \in Parts |-> IF x = "frame" THEN frame ELSE IF x \in DOMAIN others THEN others[x] ELSE 0]]
MCStarts ==
    {Start(t, pinned, wsApp, 3, [records |-> 2, polls |-> 1]) : t \in {"files", "changes"}, pinned \in BOOLEAN}
    \cup {Start("pr", FALSE, None, 3, [records |-> 1, polls |-> 1]),
          Start("files", TRUE, wsApp, 2, [files |-> 3]),
          Start("files", TRUE, wsApp, 2, [files |-> 1, polls |-> 1]),
          Start("changes", TRUE, wsApp, 2, [changes |-> 2]),
          Start("changes", TRUE, wsApp, 1, [changes |-> 3]),
          Start("changes", TRUE, wsApp, 0, [changes |-> 4]),
          Start("pr", TRUE, wsApp, 2, [pr |-> 2]),
          Start("files", TRUE, wsApp, 1, [viewer |-> 2]),
          Start("files", FALSE, wsApp, 1, [viewer |-> 3]),
          Start("files", TRUE, wsApp, 0, [viewer |-> 5]),
          Start("changes", TRUE, wsApp, 0, [viewer |-> 4])}

Tidy == [files |-> {"staged", "changes"}, ahead |-> 1, behind |-> 0, upstream |-> TRUE]
MCRepos == {Tidy}
MCPulls == {[state |-> "OPEN", draft |-> FALSE, head |-> 0, checks |-> [k \in Checks |-> "fail"]]}

Line(t) == [t |-> t, old |-> 1, new |-> 1]
Hunk(body) == <<Line("head"), Line("hunk")>> \o [i \in DOMAIN body |-> Line(body[i])]
MCDiffs == {<<>>, Hunk(<<"del", "add", "add">>), Hunk(<<"add", "del", "ctx", "del">>), Hunk(<<"ctx", "del", "note", "add">>)}
=============================================================================
