------------------------- MODULE MCSessionLifecycle -------------------------
(* TLC's instance of SessionLifecycle: one run looks at a single terminal from
   all sides and, with a limit set, at several that only come and go. *)
EXTENDS SessionLifecycle

CONSTANT Main   \* the session looked at from all sides

\* Each of the three keeps the reaper away by itself, so one at a time is enough.
ShieldedOnce == Main \notin (saved \cap child) \cup (retained \cap (saved \cup child))

\* The others are not spawned and there is no limit, as there is nothing to count,
\* and what happens after the one is gone is not followed.
Alone ==
    /\ limit = 0
    /\ ShieldedOnce
    /\ stage[Main] # "removed"
    /\ \A s \in Sessions \ {Main} : stage[s] = "new"

\* Nobody watches, types or sweeps: what is left is spawning, ending and killing.
Unwatched ==
    /\ \A v \in Viewers : vpc[v] = "off"
    /\ rpc = "idle"
    /\ UNION {touched, retained, opened, unread, idle, aged, child, saved} = {}

\* A step out of both is the environment's, which is asked for nothing, or
\* removes Main, so that ClaimResolves is judged as without the constraint.
AloneOrUnwatched == Alone \/ Unwatched
=============================================================================
