SPECIFICATION Spec
CONSTANTS
    Terminals = {"t1", "t2"}
    NameOf <- MCNameOf
    Shown = {"t1"}
    Owned = {"t1", "t2"}
    Queries = {"q"}
    None = None
    All = All
    MaxAsked = 3
    Triggers = {"location", "view"}
    Folders = {"home", "app"}
    Home = "home"
    Recent = 2
    Keys = {"theme", "font"}
    Theme = "theme"
    Vals = {1, 2}
    Sheets = {"board"}
    MaxReads = 2
    Versions = {1, 2}
    MaxQueries = 2
    MaxCommands = 3
INVARIANTS KeyboardIsClaimed WhatIsShownIsPolled RowsBelong
PROPERTIES RowStaysPicked ListingNeverGoesBack
CHECK_DEADLOCK FALSE
