SPECIFICATION FairSpec
CONSTANTS
    Sessions = {s1, s2}
    Main = s1
    Viewers = {v1}
    Killers = {k1}
    None = None
    Limits = {0, 1}
CONSTRAINT AloneOrUnwatched
INVARIANTS ExitToldOnce NoHiddenProcess UnreadOutputIsKept
PROPERTIES SpawnRespectsLimit ClaimResolves
