---------------------------- MODULE AttachStream ----------------------------
(***************************************************************************)
(* One terminal's output on its way to one pane: the scrollback ring and    *)
(* the fan-out queue (fanout.py), the replay handshake and the live pump    *)
(* (api/attach.py), the pane's attach protocol and write queue              *)
(* (pane_protocol.js, pane.js), and xterm, which parses what it is handed   *)
(* later.  A connection may break anywhere and the pane connects again.     *)
(*                                                                          *)
(* Bytes are numbered from 1 as the terminal writes them, so that a queue   *)
(* shows what is lost, doubled or out of order.  Queues are sequences of    *)
(* bytes and markers: how bytes are merged into chunks is left out, and     *)
(* every limit counts bytes.                                                *)
(***************************************************************************)
EXTENDS Integers, Sequences, SequencesExt

CONSTANTS
    RingCap,        \* scrollback_bytes
    QueueMax,       \* QUEUE_MAX_BYTES
    BufferMax,      \* _HandshakeBuffer.MAX_BUFFERED_BYTES
    FrameMax,       \* SEND_COALESCE_BYTES
    ClientMax,      \* CLIENT_QUEUE_LIMIT
    PendingMax,     \* PENDING_LIMIT
    WireMax,        \* frames the socket takes before a send waits
    MaxBytes,       \* bound: bytes the terminal writes
    MaxDrops        \* bound: connections that break or are closed on the pane

ASSUME LimitsAssumption ==
    /\ {RingCap, QueueMax, BufferMax, FrameMax, ClientMax, PendingMax, WireMax}
          \subseteq Nat \ {0}
    /\ MaxBytes \in Nat /\ MaxDrops \in Nat

VARIABLES
    produced,   \* bytes the terminal has written
    ended,      \* why info.alive is FALSE: "no", "exit" (_on_exit), "kill"
    srv,        \* the handler: see Handler
    replay,     \* what of the replay snapshot is not sent yet
    awaiting,   \* _send_replay waits for an acknowledgement
    queue,      \* AttachmentQueue
    overflowed, \* Attachment.overflowed
    buffer,     \* _HandshakeBuffer._items
    sealed,     \* _HandshakeBuffer._sealed
    pending,    \* pump_output's carry and pending
    down,       \* messages on their way to the pane
    up,         \* replay_acks on their way to the server
    conn,       \* the pane's socket: "retry", "open", "closed", "off"
    phase,      \* PaneAttachProtocol.phase
    replayDone, \* PaneAttachProtocol.replayDone
    cqueue,     \* Pane._queue
    xterm,      \* writes xterm has not parsed
    unparsed,   \* Pane._pending: bytes of live writes xterm has not parsed
    resync,     \* Pane._resync
    exited,     \* Pane._exited
    code,       \* history: the code of the last close, 0 while connected
    fed,        \* history: bytes written to the terminal since its reset
    drops       \* connections broken so far

terminal == <<produced, ended>>
handler  == <<srv, replay, awaiting, buffer, sealed, pending>>
viewer   == <<queue, overflowed>>
pane     == <<phase, replayDone, cqueue, resync, exited>>
screen   == <<xterm, unparsed, fed>>
vars     == <<terminal, handler, viewer, down, up, conn, pane, screen, code, drops>>

\* "accept": before the alive check; "replay" and "final": in _send_replay, with
\* and without a subscription; "handover": the live tasks are created, not run.
Handler == {"off", "accept", "replay", "final", "handover", "live"}

Exit     == -1      \* None in the queue: the session ended
Overflow == -2      \* the overflow sentinel
IsMark(item) == item < 0
\* Where the first marker is, 0 if there is none.
FirstMark(items) == SelectInSeq(items, IsMark)
Run(first, last) == [i \in 1 .. last + 1 - first |-> first + i - 1]
Least(m, n) == IF m < n THEN m ELSE n
Upto(s, n) == SubSeq(s, 1, Least(n, Len(s)))
After(s, n) == SubSeq(s, n + 1, Len(s))

Data(bytes) == [kind |-> "data", bytes |-> bytes]
Message(kind) == [kind |-> kind, bytes |-> <<>>]

\* Message kinds; the close kinds name the code.
Kinds == {"data", "size", "done", "exit", "overflow", "close1000", "close1013",
          "close1002"}
Code(kind) == CASE kind = "close1013" -> 1013
                [] kind = "close1002" -> 1002
                [] OTHER -> 1000

Ring == Run(IF produced > RingCap THEN produced - RingCap + 1 ELSE 1, produced)
Subscribed == srv \in {"replay", "handover", "live"}
Alive == ended = "no"
CanSend == Len(down) < WireMax

-----------------------------------------------------------------------------
(* The terminal and the fan-out. *)

\* Fault: a viewer that falls behind loses the bytes it has no room for.
PublishLossy(items) ==
    /\ queue' = IF Subscribed /\ Len(queue \o items) <= QueueMax
                THEN queue \o items ELSE queue
    /\ UNCHANGED overflowed

Publish(items) ==
    IF ~Subscribed \/ overflowed
    THEN UNCHANGED viewer
    ELSE IF Len(queue \o items) > QueueMax /\ ~IsMark(Last(items))
    THEN queue' = <<Overflow>> /\ overflowed' = TRUE
    ELSE queue' = queue \o items /\ UNCHANGED overflowed

\* _on_output, also after a kill was reported and the PTY is drained.
OnOutput(n) ==
    /\ ended # "exit"
    /\ produced + n <= MaxBytes
    /\ produced' = produced + n
    /\ Publish(Run(produced + 1, produced + n))
    /\ UNCHANGED <<ended, handler, down, up, conn, pane, screen, code, drops>>

\* _on_exit after the last output, or _finish_kill before it.
Ends(how) ==
    /\ Alive
    /\ ended' = how
    /\ Publish(<<Exit>>)
    /\ UNCHANGED <<produced, handler, down, up, conn, pane, screen, code, drops>>

-----------------------------------------------------------------------------
(* ws_session: the replay handshake. *)

\* Fault: a session that has exited is refused instead of replayed.
AcceptLiveOnly ==
    /\ srv = "accept"
    /\ IF Alive THEN srv' = "replay" /\ replay' = Ring /\ down' = <<Message("size")>>
                ELSE srv' = "off" /\ replay' = <<>> /\ down' = <<Message("close1002")>>
    /\ UNCHANGED <<terminal, viewer, awaiting, buffer, sealed, pending, up, conn,
                   pane, screen, code, drops>>

\* One turn of the loop: alive?, attach, and the replay snapshot.
Accept ==
    /\ srv = "accept"
    /\ srv' = IF Alive THEN "replay" ELSE "final"
    /\ replay' = Ring
    /\ down' = <<Message("size")>>
    /\ UNCHANGED <<terminal, viewer, awaiting, buffer, sealed, pending, up, conn,
                   pane, screen, code, drops>>

SendFrame ==
    /\ srv \in {"replay", "final"}
    /\ ~awaiting /\ replay # <<>> /\ CanSend
    /\ down' = Append(down, Data(Upto(replay, FrameMax)))
    /\ replay' = After(replay, FrameMax)
    /\ awaiting' = TRUE
    /\ UNCHANGED <<terminal, viewer, srv, buffer, sealed, pending, up, conn, pane,
                   screen, code, drops>>

ReceiveAck ==
    /\ awaiting /\ up > 0
    /\ awaiting' = FALSE
    /\ up' = up - 1
    /\ UNCHANGED <<terminal, viewer, srv, replay, buffer, sealed, pending, down, conn,
                   pane, screen, code, drops>>

\* The handler is left: its subscription and what it had collected go with it.
HandlerEnds ==
    /\ srv' = "off"
    /\ replay' = <<>> /\ awaiting' = FALSE
    /\ buffer' = <<>> /\ sealed' = FALSE /\ pending' = <<>>
    /\ queue' = <<>> /\ overflowed' = FALSE

\* replay_done: an exited session's exit and close follow at once.
ReplayDone ==
    /\ srv \in {"replay", "final"}
    /\ ~awaiting /\ replay = <<>> /\ CanSend
    /\ IF srv = "replay"
       THEN /\ srv' = "handover"
            /\ down' = Append(down, Message("done"))
            /\ UNCHANGED <<replay, awaiting, buffer, sealed, pending, viewer>>
       ELSE /\ HandlerEnds
            /\ down' = down \o <<Message("done"), Message("exit"), Message("close1000")>>
    /\ UNCHANGED <<terminal, up, conn, pane, screen, code, drops>>

\* Fault: the handshake buffer has no bound.
DrainUnbounded ==
    /\ srv \in {"replay", "handover"} /\ ~sealed /\ queue # <<>>
    /\ buffer' = buffer \o queue
    /\ sealed' = IsMark(Last(queue))
    /\ queue' = <<>>
    /\ UNCHANGED <<terminal, overflowed, srv, replay, awaiting, pending, down, up, conn,
                   pane, screen, code, drops>>

\* _HandshakeBuffer._drain wakes up and takes what is queued: up to a marker or
\* to its own bound, where it puts the overflow sentinel itself.
Drain ==
    LET mark == FirstMark(queue)
        room == BufferMax - Len(buffer)
    IN
    /\ srv \in {"replay", "handover"} /\ ~sealed /\ queue # <<>>
    /\ \/ /\ mark \in 1 .. room
          /\ buffer' = buffer \o Upto(queue, mark)
          /\ queue' = After(queue, mark)
          /\ sealed' = TRUE
       \/ /\ mark \notin 1 .. room /\ Len(queue) >= room
          /\ buffer' = buffer \o Upto(queue, room) \o <<Overflow>>
          /\ queue' = After(queue, room)
          /\ sealed' = TRUE
       \/ /\ mark = 0 /\ Len(queue) < room
          /\ buffer' = buffer \o queue
          /\ queue' = <<>>
          /\ UNCHANGED sealed
    /\ UNCHANGED <<terminal, overflowed, srv, replay, awaiting, pending, down, up, conn,
                   pane, screen, code, drops>>

-----------------------------------------------------------------------------
(* The live pump. *)

\* take(): the buffer, then what is queued by now unless the buffer is sealed.
StartPump ==
    /\ srv = "handover"
    /\ srv' = "live"
    /\ pending' = buffer \o (IF sealed THEN <<>> ELSE queue)
    /\ queue' = IF sealed THEN queue ELSE <<>>
    /\ buffer' = <<>>
    /\ UNCHANGED <<terminal, overflowed, replay, awaiting, sealed, down, up, conn, pane,
                   screen, code, drops>>

\* One turn of pump_output: a frame of the bytes at hand, and the marker behind
\* them; an overflow throws those bytes away, the ring has them.
PumpFrame ==
    LET items == pending \o queue
        mark  == FirstMark(items)
        bytes == IF mark = 0 THEN items ELSE Upto(items, mark - 1)
        frame == Upto(bytes, FrameMax)
        sent  == IF frame = <<>> THEN <<>> ELSE <<Data(frame)>>
        final == mark # 0 /\ Len(bytes) < FrameMax
    IN
    /\ srv = "live" /\ items # <<>> /\ CanSend
    /\ \/ /\ ~final
          /\ down' = down \o sent
          /\ pending' = After(pending, Len(frame))
          /\ queue' = IF Len(frame) > Len(pending)
                      THEN After(queue, Len(frame) - Len(pending)) ELSE queue
          /\ UNCHANGED <<srv, replay, awaiting, buffer, sealed, overflowed>>
       \/ /\ final
          /\ HandlerEnds
          /\ down' = down \o IF items[mark] = Exit
                             THEN sent \o <<Message("exit"), Message("close1000")>>
                             ELSE <<Message("overflow"), Message("close1013")>>
    /\ UNCHANGED <<terminal, up, conn, pane, screen, code, drops>>

\* _pump_input: typed faster than the PTY takes it, and the pump is cancelled.
InputFull ==
    /\ srv = "live" /\ phase = "live" /\ conn = "open"
    /\ drops < MaxDrops
    /\ drops' = drops + 1
    /\ HandlerEnds
    /\ down' = Append(down, Message("close1013"))
    /\ UNCHANGED <<terminal, up, conn, pane, screen, code>>

\* The acknowledgement did not come within 30 s.
AckTimeout ==
    /\ awaiting /\ up = 0 /\ conn = "open"
    /\ drops < MaxDrops
    /\ drops' = drops + 1
    /\ HandlerEnds
    /\ down' = Append(down, Message("close1002"))
    /\ UNCHANGED <<terminal, up, conn, pane, screen, code>>

-----------------------------------------------------------------------------
(* The pane: its connection. *)

\* The handler the pane walks away from learns of it at its next send or
\* receive; until then it fills a queue nobody sees.
Leaves(how) ==
    /\ conn' = "closed" /\ code' = how
    /\ down' = <<>> /\ up' = 0
    /\ HandlerEnds

\* Fault: beginReplay leaves the phase of the connection before.
ConnectsInPhase ==
    /\ conn' = "open" /\ srv' = "accept" /\ code' = 0
    /\ replayDone' = FALSE /\ cqueue' = <<>> /\ UNCHANGED phase
    /\ xterm' = [i \in DOMAIN xterm |-> [xterm[i] EXCEPT !.stale = TRUE]]
    /\ unparsed' = 0 /\ resync' = FALSE

\* _connect and beginReplay: no callback of an earlier write counts any more.
Connects ==
    /\ conn' = "open" /\ srv' = "accept" /\ code' = 0
    /\ phase' = "replay" /\ replayDone' = FALSE /\ cqueue' = <<>>
    /\ xterm' = [i \in DOMAIN xterm |-> [xterm[i] EXCEPT !.stale = TRUE]]
    /\ unparsed' = 0 /\ resync' = FALSE

Connect ==
    /\ conn = "retry"
    /\ Connects
    /\ UNCHANGED <<terminal, viewer, replay, awaiting, buffer, sealed, pending, down, up,
                   exited, fed, drops>>

ConnectionLost ==
    /\ conn = "open"
    /\ drops < MaxDrops
    /\ drops' = drops + 1
    /\ Leaves(1006)
    /\ UNCHANGED <<terminal, pane, screen>>

-----------------------------------------------------------------------------
(* The pane: what it hands to xterm. *)

Write(kind, bytes) == [kind |-> kind, bytes |-> bytes, stale |-> FALSE]

\* A replay write of this connection: its callback acknowledges the frame.
Acknowledges(write) == write.kind = "replay" /\ ~write.stale
AllParsed(writes) == \A i \in DOMAIN writes : ~Acknowledges(writes[i])

\* _pump: one write of what is queued, unless xterm is behind.
Pump(bytes, writes, behind) ==
    IF bytes # <<>> /\ behind < PendingMax
    THEN LET data == Upto(bytes, PendingMax) IN
         /\ cqueue' = After(bytes, PendingMax)
         /\ xterm' = Append(writes, Write("live", data))
         /\ unparsed' = behind + Len(data)
         /\ fed' = fed \o data
    ELSE /\ cqueue' = bytes
         /\ xterm' = writes
         /\ unparsed' = behind
         /\ UNCHANGED fed

\* Fault: what is queued when the exit arrives stays queued.
ShowExitNoFlush ==
    /\ exited' = TRUE
    /\ phase' = "idle"
    /\ UNCHANGED <<cqueue, screen>>

\* _onExit: whatever is queued is written at once, and nothing is sent again.
ShowExit ==
    /\ exited' = TRUE
    /\ phase' = "idle"
    /\ cqueue' = <<>>
    /\ fed' = fed \o cqueue
    /\ xterm' = IF cqueue = <<>> THEN xterm ELSE Append(xterm, Write("flush", cqueue))
    /\ UNCHANGED unparsed

GoLive(writes) ==
    /\ phase' = "live"
    /\ Pump(cqueue, writes, unparsed)

Takes(kind) ==
    /\ conn = "open" /\ down # <<>> /\ Head(down).kind = kind
    /\ down' = Tail(down)

\* term.reset(): what xterm has not parsed yet it parses afterwards.
ReceiveSize ==
    /\ Takes("size")
    /\ fed' = <<>>
    /\ UNCHANGED <<terminal, handler, viewer, up, conn, pane, xterm, unparsed, code, drops>>

ReceiveReplay ==
    /\ Takes("data") /\ phase = "replay"
    /\ xterm' = Append(xterm, Write("replay", Head(down).bytes))
    /\ fed' = fed \o Head(down).bytes
    /\ UNCHANGED <<terminal, handler, viewer, up, conn, pane, unparsed, code, drops>>

\* Live output: queued, and past the pane's own limit reason to start over.
ReceiveLive ==
    LET bytes == cqueue \o Head(down).bytes IN
    /\ phase # "replay" /\ conn = "open" /\ down # <<>> /\ Head(down).kind = "data"
    /\ IF Len(bytes) > ClientMax
       THEN /\ resync' = TRUE
            /\ Leaves(1000)
            /\ UNCHANGED <<cqueue, screen>>
       ELSE /\ down' = Tail(down)
            /\ IF phase = "live" THEN Pump(bytes, xterm, unparsed)
                                 ELSE cqueue' = bytes /\ UNCHANGED screen
            /\ UNCHANGED <<resync, handler, viewer, up, conn, code>>
    /\ UNCHANGED <<terminal, phase, replayDone, exited, drops>>

\* replayComplete: live at once if the replay is parsed, later if it is not.
ReceiveDone ==
    /\ Takes("done")
    /\ replayDone' = TRUE
    /\ IF AllParsed(xterm) THEN GoLive(xterm)
                           ELSE phase' = "prelive" /\ UNCHANGED <<cqueue, screen>>
    /\ UNCHANGED <<terminal, handler, viewer, up, conn, resync, exited, code, drops>>

ReceiveOverflow ==
    /\ conn = "open" /\ down # <<>> /\ Head(down).kind = "overflow"
    /\ resync' = TRUE
    /\ Leaves(1000)
    /\ UNCHANGED <<terminal, phase, replayDone, cqueue, exited, screen, drops>>

ReceiveExit ==
    /\ Takes("exit")
    /\ ShowExit
    /\ UNCHANGED <<terminal, handler, viewer, up, conn, replayDone, resync, code, drops>>

ReceiveClose ==
    /\ conn = "open" /\ down # <<>>
    /\ Head(down).kind \in {"close1000", "close1013", "close1002"}
    /\ Leaves(Code(Head(down).kind))
    /\ UNCHANGED <<terminal, pane, screen, drops>>

\* xterm has parsed its next write, and the write's callback runs.
XtermParses ==
    LET write == Head(xterm)
        rest  == Tail(xterm)
        left  == IF write.kind = "live" /\ ~write.stale
                 THEN unparsed - Len(write.bytes) ELSE unparsed
    IN
    /\ xterm # <<>>
    /\ up' = IF Acknowledges(write) /\ conn = "open" THEN up + 1 ELSE up
    /\ IF Acknowledges(write) /\ ~exited /\ replayDone /\ AllParsed(rest)
       THEN GoLive(rest)
       ELSE /\ UNCHANGED phase
            /\ IF write.kind = "live" /\ ~write.stale /\ (phase = "live" \/ exited)
               THEN Pump(cqueue, rest, left)
               ELSE xterm' = rest /\ unparsed' = left /\ UNCHANGED <<cqueue, fed>>
    /\ UNCHANGED <<terminal, handler, viewer, down, conn, replayDone, resync, exited,
                   code, drops>>

-----------------------------------------------------------------------------
(* The pane: _closed. *)

ClosedAfterExit ==
    /\ conn = "closed" /\ exited
    /\ conn' = "off"
    /\ UNCHANGED <<terminal, handler, viewer, down, up, pane, screen, code, drops>>

\* An overflow is an order to connect and replay, whatever became of the session.
ClosedByOverflow ==
    /\ conn = "closed" /\ ~exited /\ resync
    /\ Connects
    /\ UNCHANGED <<terminal, viewer, replay, awaiting, buffer, sealed, pending, down, up,
                   exited, fed, drops>>

\* Any other close asks for the session list, which may not answer.
ClosedOtherwise ==
    /\ conn = "closed" /\ ~exited /\ ~resync
    /\ \/ /\ conn' = "retry"
          /\ UNCHANGED <<pane, screen>>
       \/ /\ ~Alive
          /\ conn' = "off"
          /\ ShowExit
          /\ UNCHANGED <<replayDone, resync>>
    /\ UNCHANGED <<terminal, handler, viewer, down, up, code, drops>>

-----------------------------------------------------------------------------
Init ==
    /\ produced = 0 /\ ended = "no"
    /\ srv = "off" /\ replay = <<>> /\ awaiting = FALSE
    /\ queue = <<>> /\ overflowed = FALSE
    /\ buffer = <<>> /\ sealed = FALSE /\ pending = <<>>
    /\ down = <<>> /\ up = 0
    /\ conn = "retry" /\ phase = "idle" /\ replayDone = FALSE /\ cqueue = <<>>
    /\ xterm = <<>> /\ unparsed = 0 /\ resync = FALSE /\ exited = FALSE
    /\ code = 0 /\ fed = <<>> /\ drops = 0

TerminalStep == (\E n \in 1 .. 2 : OnOutput(n)) \/ (\E how \in {"exit", "kill"} : Ends(how))

HandlerStep ==
    Accept \/ SendFrame \/ ReceiveAck \/ ReplayDone \/ Drain \/ StartPump \/ PumpFrame

PaneStep ==
    \/ Connect \/ ReceiveSize \/ ReceiveReplay \/ ReceiveLive \/ ReceiveDone
    \/ ReceiveOverflow \/ ReceiveExit \/ ReceiveClose
    \/ ClosedAfterExit \/ ClosedByOverflow \/ ClosedOtherwise

Breaks == InputFull \/ AckTimeout \/ ConnectionLost

Next == TerminalStep \/ HandlerStep \/ PaneStep \/ XtermParses \/ Breaks

Spec == Init /\ [][Next]_vars

\* The server's loop and the pane's loop run what is due, and xterm parses what
\* it was handed.  Nothing is asked of the terminal, and nothing has to break.
FairSpec ==
    /\ Spec
    /\ WF_vars(Accept \/ SendFrame \/ ReplayDone \/ PumpFrame)
    /\ WF_vars(ReceiveAck) /\ WF_vars(Drain) /\ WF_vars(StartPump)
    /\ WF_vars(PaneStep) /\ WF_vars(XtermParses)

-----------------------------------------------------------------------------
(* Properties. *)

Bytes == Seq(1 .. MaxBytes)
Items == Seq(1 .. MaxBytes \cup {Exit, Overflow})

TypeOK ==
    /\ produced \in 0 .. MaxBytes /\ ended \in {"no", "exit", "kill"}
    /\ srv \in Handler /\ replay \in Bytes /\ awaiting \in BOOLEAN
    /\ queue \in Items /\ overflowed \in BOOLEAN
    /\ buffer \in Items /\ sealed \in BOOLEAN /\ pending \in Items
    /\ down \in Seq([kind : Kinds, bytes : Bytes]) /\ up \in 0 .. 1
    /\ conn \in {"retry", "open", "closed", "off"}
    /\ phase \in {"idle", "replay", "prelive", "live"} /\ replayDone \in BOOLEAN
    /\ cqueue \in Bytes /\ resync \in BOOLEAN /\ exited \in BOOLEAN
    /\ xterm \in Seq([kind : {"replay", "live", "flush"}, bytes : Bytes, stale : BOOLEAN])
    /\ unparsed \in Nat /\ fed \in Bytes /\ code \in {0, 1000, 1002, 1006, 1013} /\ drops \in 0 .. MaxDrops

\* What is written to the terminal is one piece of its output: nothing lost,
\* doubled or out of order through snapshot, handshake buffer, pump, overflow and
\* reconnect, and a new start misses only what the ring dropped.
Stream == INSTANCE OutputStream WITH shown <- fed
RefinesStream == Stream!Spec

\* The pane that reports an exit by itself has everything up to the last byte,
\* whatever was queued, overflowed or resynchronised on the way (_onExit's flush,
\* the replay of exited sessions).
Complete == produced = 0 \/ (fed # <<>> /\ Last(fed) = produced)
ExitShowsAll == exited /\ ended = "exit" /\ code \in {0, 1000} => Complete

\* However slow the viewer, no queue outgrows its limit: the fan-out's, the
\* handshake buffer's, the pump's, the pane's and what the pane hands to xterm; each
\* variable keeps its type.
MemoryIsBounded ==
    /\ TypeOK
    /\ Len(queue) <= QueueMax + 1
    /\ Len(buffer) <= BufferMax + 1
    /\ Len(pending) <= BufferMax + QueueMax + 1
    /\ Len(cqueue) <= ClientMax
    /\ unparsed < 2 * PendingMax

\* The pane sends input only when the server's handshake is over, which would take
\* it for a bad acknowledgement, and when xterm has answered the last query in the
\* replay (canSendInput, beginReplay, completeReplayWrite).
ReplayIsQuiet ==
    phase = "live" /\ conn = "open" =>
        /\ srv \in {"handover", "live", "off"}
        /\ \A i \in DOMAIN xterm : xterm[i].kind # "replay"

\* A terminal that ends by itself shows its last output and reports the exit,
\* unless a connection broke on the way.
FinalOutputArrives ==
    ended = "exit" ~> exited /\ (Complete \/ code \notin {0, 1000})

-----------------------------------------------------------------------------
(* Two things the documents say that the code does not keep. *)

\* "1013 ... or the PTY input queue is full: reconnect and replay, even if the
\* session has exited".
InputFullReplays == exited /\ ended = "exit" /\ code = 1013 => Complete

\* A resync starts from the ring "instead of corrupting VT state": after the reset
\* xterm parses nothing that was written before it.
ResetStartsClean ==
    [][fed # <<>> /\ fed' = <<>> => \A i \in DOMAIN xterm' : ~xterm'[i].stale]_vars
=============================================================================
