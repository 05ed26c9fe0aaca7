---------------------------- MODULE OutputStream ----------------------------
(***************************************************************************)
(* What a viewer of a terminal is promised: the bytes on its screen are one *)
(* uninterrupted piece of the terminal's output.  The screen may be started *)
(* over, and then misses nothing but what the scrollback ring has let go.   *)
(* Bytes are numbered from 1 in the order the terminal wrote them.          *)
(***************************************************************************)
EXTENDS Naturals, Sequences

CONSTANT RingCap    \* bytes of scrollback a session keeps

VARIABLES
    produced,       \* the number of bytes the terminal has written
    shown           \* the bytes on the screen, in order

Run(first, last) == [i \in 1 .. last + 1 - first |-> first + i - 1]

Init == produced = 0 /\ shown = <<>>

Produce ==
    /\ produced' > produced
    /\ UNCHANGED shown

\* More output appears; on a fresh screen it starts inside the ring.
Show ==
    \E first, last \in 1 .. produced :
        /\ IF shown = <<>> THEN first = 1 \/ first + RingCap <= produced + 1
                           ELSE first = shown[Len(shown)] + 1
        /\ shown' = shown \o Run(first, last)
        /\ UNCHANGED produced

Restart ==
    /\ shown' = <<>>
    /\ UNCHANGED produced

Next == Produce \/ Show \/ Restart

Spec == Init /\ [][Next]_<<produced, shown>>
=============================================================================
