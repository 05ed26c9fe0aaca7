SPECIFICATION Spec
CONSTANTS
    Workspaces = {wsApp, wsBare}
    None = None
    Folderless = {wsBare}
    Dirs = {"", "src"}
    Root = ""
    Queries = {"q"}
    Messages = {"m1", "m2"}
    MaxAhead = 2
    Checks = {"build"}
    Paths = {"f", "g"}
    Groups = {"staged", "changes"}
    Diffs <- MCDiffs
    Repos <- MCRepos
    Pulls <- MCPulls
    Starts <- MCStarts
    MaxAsks = 2
    wsApp = wsApp
    wsBare = wsBare
INVARIANTS TabsShowTheirWorkspace TypedMessageIsKept KeyboardComesBack BusyHasWork LayoutsAgree
CHECK_DEADLOCK FALSE
