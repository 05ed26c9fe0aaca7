------------------------- MODULE AttachStreamProofs -------------------------
(***************************************************************************)
(* For any limits and any length of run: the queues on the way from a       *)
(* terminal to a pane stay within their limits, input is sent only when the *)
(* replay is over, a pane that saw the exit shows the last byte, and what   *)
(* is written to the terminal is one uninterrupted piece of its output.     *)
(***************************************************************************)
EXTENDS AttachStream, SequenceTheorems, WellFoundedInduction, TLAPS

-----------------------------------------------------------------------------
(* The invariant, first part: what is where. *)

Byte == 1 .. produced
Item == Byte \cup {Overflow} \cup (IF Alive THEN {} ELSE {Exit})
Messages == [kind : Kinds, bytes : Seq(Byte)]
Writes == [kind : {"replay", "live", "flush"}, bytes : Seq(Byte), stale : BOOLEAN]
Closes == {"close1000", "close1013", "close1002"}

ServerTyped ==
    /\ produced \in 0 .. MaxBytes /\ ended \in {"no", "exit", "kill"}
    /\ srv \in Handler /\ awaiting \in BOOLEAN
    /\ overflowed \in BOOLEAN /\ sealed \in BOOLEAN
QueuesTyped ==
    /\ replay \in Seq(Byte) /\ queue \in Seq(Item)
    /\ buffer \in Seq(Item) /\ pending \in Seq(Item)
LineTyped ==
    /\ down \in Seq(Messages) /\ up \in 0 .. 1
    /\ conn \in {"retry", "open", "closed", "off"}
    /\ code \in {0, 1000, 1002, 1006, 1013} /\ drops \in 0 .. MaxDrops
PaneTyped ==
    /\ phase \in {"idle", "replay", "live"} /\ replayDone \in BOOLEAN
    /\ cqueue \in Seq(Byte) /\ resync \in BOOLEAN /\ exited \in BOOLEAN
    /\ xterm \in Seq(Writes) /\ unparsed \in Nat /\ fed \in Seq(Byte)
Typed == ServerTyped /\ QueuesTyped /\ LineTyped /\ PaneTyped

Bounded ==
    /\ Len(queue) <= QueueMax + (IF Alive THEN 0 ELSE 1)
    /\ IF sealed THEN Len(buffer) <= BufferMax + 1 ELSE Len(buffer) < BufferMax
    /\ Len(pending) <= BufferMax + QueueMax + 1
    /\ Len(cqueue) <= ClientMax
    /\ unparsed < 2 * PendingMax

\* left[i]: how many bytes of live writes xterm has to parse after the i-th.
Counts(write) == IF write.kind = "live" /\ ~write.stale THEN Len(write.bytes) ELSE 0
Remains(writes, n) ==
    \E left \in [0 .. Len(writes) -> Nat] :
        /\ left[0] = n /\ left[Len(writes)] = 0
        /\ \A i \in 1 .. Len(writes) : left[i - 1] = left[i] + Counts(writes[i])

\* The handler's variables in each of its states; there is one only for an open socket.
HandlerOK ==
    /\ srv # "off" => conn = "open"
    /\ ~Subscribed => queue = <<>> /\ buffer = <<>> /\ ~sealed /\ ~overflowed
    /\ srv # "live" => pending = <<>>
    /\ srv = "live" => buffer = <<>>
    /\ srv \notin {"replay", "final"} => replay = <<>> /\ ~awaiting
    /\ srv = "accept" => down = <<>>
    /\ srv = "final" => ~Alive

Has(kind) == \E i \in 1 .. Len(down) : down[i].kind = kind
SizeComes == down # <<>> /\ down[1].kind = "size"
Parsing == \E i \in 1 .. Len(xterm) : Acknowledges(xterm[i])
Stale == \E i \in 1 .. Len(xterm) : xterm[i].stale

\* What is on the wire, in the order of the protocol.
WireOK ==
    \A i \in 1 .. Len(down) :
        LET kind == down[i].kind IN
        /\ kind = "data" <=> down[i].bytes # <<>>
        /\ kind = "size" => i = 1 /\ phase = "replay" /\ cqueue = <<>>
        /\ kind = "done" =>
              /\ phase = "replay" /\ srv \notin {"accept", "replay", "final"}
              /\ i = 1 \/ (i = 2 /\ SizeComes)
        /\ kind \in {"exit", "overflow"} =>
              srv = "off" /\ i + 1 = Len(down) /\ down[i + 1].kind \in Closes
        /\ kind = "exit" => ~Alive
        /\ kind \in Closes => srv = "off" /\ i = Len(down)
        /\ kind = "close1000" => exited \/ (i > 1 /\ down[i - 1].kind = "exit")
        /\ exited => kind \in Closes

PaneOK ==
    /\ conn # "open" => down = <<>> /\ up = 0
    /\ conn = "open" => phase \in {"replay", "live"} \/ exited
    /\ conn = "open" <=> conn # "retry" /\ code = 0
    /\ conn = "closed" /\ code = 1000 => exited \/ resync
    /\ exited => phase = "idle" /\ cqueue = <<>> /\ conn # "retry" /\ srv = "off" /\ ~Alive
    /\ phase = "replay" => cqueue = <<>>
    /\ phase = "live" => replayDone
    /\ replayDone => phase # "replay"
    /\ srv \in {"accept", "replay", "final"} => phase = "replay"
    /\ srv \in {"handover", "live"} => phase = "live" \/ Has("done")
    /\ \A i \in 1 .. Len(xterm) : xterm[i].bytes # <<>>
    /\ \A i, j \in 1 .. Len(xterm) : i < j /\ xterm[j].stale => xterm[i].stale

\* A replay frame on the wire, in xterm or answered: the handler waits for it, and
\* sends no other and no replay_done before it is answered.
Coming == phase = "replay" /\ Has("data") /\ ~Has("done")
Quiet == up = 0 /\ ~Parsing /\ ~Coming
OneFrame ==
    /\ \A i, j \in 1 .. Len(xterm) : Acknowledges(xterm[i]) /\ Acknowledges(xterm[j]) => i = j
    /\ Coming => \A i, j \in 1 .. Len(down) : down[i].kind = "data" /\ down[j].kind = "data" => i = j
    /\ ~(Parsing /\ Coming) /\ (up = 1 => ~Parsing /\ ~Coming)
    /\ srv = "accept" \/ (srv \in {"replay", "final"} /\ ~awaiting) => Quiet
    /\ replayDone \/ Has("done") => Quiet

\* Writes of an earlier connection are parsed before the first frame of this one.
Shown == ~SizeComes /\ fed # <<>>
Fresh ==
    conn = "open" =>
        /\ srv \in {"replay", "final"} /\ Stale => Shown \/ Coming \/ replay # <<>>
        /\ srv # "accept" /\ phase = "replay" /\ Shown /\ Stale => Parsing
        /\ Has("done") \/ phase = "live" => ~Stale

Control ==
    Typed /\ Bounded /\ Remains(xterm, unparsed)
    /\ HandlerOK /\ WireOK /\ PaneOK /\ OneFrame /\ Fresh

-----------------------------------------------------------------------------
(* The invariant, second part: which byte is where. *)

\* bytes are the ones that follow byte a; items are, up to their first marker.
Piece(bytes, a) == \A i \in 1 .. Len(bytes) : bytes[i] = a + i
Unmarked(items, n) == \A j \in 1 .. n : ~IsMark(items[j])
Follow(items, a) == \A i \in 1 .. Len(items) : Unmarked(items, i) => items[i] = a + i

Start(a) == a = 0 \/ a + RingCap <= produced

\* The bytes on the screen follow byte a, and the pane's queue follows them.
Screen(a) ==
    /\ a \in 0 .. produced /\ Start(a)
    /\ Piece(fed, a) /\ Piece(cqueue, a + Len(fed))
    /\ a + Len(fed) + Len(cqueue) <= produced

\* at[i]: the last byte up to and with the i-th message on the wire.
Sits(message, first, last) ==
    /\ Piece(message.bytes, first) /\ last = first + Len(message.bytes)
    /\ message.kind = "exit" /\ ended = "exit" => last = produced
Wire(messages, at) ==
    /\ at \in [0 .. Len(messages) -> 0 .. produced]
    /\ \A i \in 1 .. Len(messages) : Sits(messages[i], at[i - 1], at[i])

\* The items follow byte a up to the last byte written, or to a marker that says why not.
Following(items, a) ==
    /\ Follow(items, a)
    /\ Unmarked(items, Len(items)) => Alive /\ ~overflowed /\ a + Len(items) = produced
    /\ \A m \in 1 .. Len(items) :
          items[m] = Exit /\ ended = "exit" /\ Unmarked(items, m - 1) => a + m - 1 = produced

Held == buffer \o pending \o queue

\* What the handler has not sent yet follows byte a.
Unsent(a) ==
    /\ Piece(replay, a) /\ a + Len(replay) <= produced
    /\ srv = "final" /\ ended = "exit" => a + Len(replay) = produced
    /\ Subscribed => Following(Held, a + Len(replay))

Line(a, at) ==
    conn = "open" /\ srv # "accept" =>
        /\ Wire(down, at)
        /\ IF SizeComes THEN Start(at[0]) ELSE at[0] = a + Len(fed) + Len(cqueue)
        /\ srv # "off" => Unsent(at[Len(down)])

Ended(a) == exited /\ ended = "exit" /\ code \in {0, 1000} => a + Len(fed) = produced

Positions(a, at) == Screen(a) /\ Line(a, at) /\ Ended(a)
IInv == Control /\ \E a, at : Positions(a, at)

-----------------------------------------------------------------------------
(* Sequences. *)

\* What Tail leaves of a sequence.
LEMMA TailIs ==
    ASSUME NEW S, NEW s \in Seq(S), s # <<>>
    PROVE  /\ Head(s) = s[1] /\ s[1] \in S /\ Len(s) \in Nat \ {0}
           /\ Tail(s) \in Seq(S) /\ Len(Tail(s)) = Len(s) - 1
           /\ \A i \in 1 .. Len(Tail(s)) : Tail(s)[i] = s[i + 1]
<1>1. Len(s) \in Nat \ {0} /\ s[1] \in S
  BY EmptySeq, ElementOfSeq
<1>2. Head(s) = s[1]
  BY <1>1
<1>. QED  BY <1>1, <1>2, HeadTailProperties

\* What Append adds to a sequence.
LEMMA AppendIs ==
    ASSUME NEW S, NEW s \in Seq(S), NEW e \in S
    PROVE  /\ Append(s, e) \in Seq(S) /\ Len(s) \in Nat
           /\ Append(s, e) # <<>> /\ Len(Append(s, e)) = Len(s) + 1
           /\ \A i \in 1 .. Len(s) : Append(s, e)[i] = s[i]
           /\ Append(s, e)[Len(s) + 1] = e
  BY AppendProperties, LenProperties

\* What a concatenation consists of.
LEMMA ConcatIs ==
    ASSUME NEW S, NEW s \in Seq(S), NEW t \in Seq(S)
    PROVE  /\ s \o t \in Seq(S) /\ Len(s) \in Nat /\ Len(t) \in Nat
           /\ Len(s \o t) = Len(s) + Len(t)
           /\ \A i \in 1 .. Len(s) : (s \o t)[i] = s[i]
           /\ \A i \in 1 .. Len(t) : (s \o t)[Len(s) + i] = t[i]
<1>1. Len(s) \in Nat /\ Len(t) \in Nat
  BY LenProperties
<1>. QED  BY <1>1, ConcatProperties, Z3

\* The first n of a sequence, or all of it.
LEMMA UptoIs ==
    ASSUME NEW S, NEW s \in Seq(S), NEW n \in Nat
    PROVE  /\ Upto(s, n) \in Seq(S) /\ Len(s) \in Nat
           /\ Len(Upto(s, n)) = Least(n, Len(s))
           /\ \A i \in 1 .. Least(n, Len(s)) : Upto(s, n)[i] = s[i]
<1>1. Len(s) \in Nat /\ \A i \in 1 .. Len(s) : s[i] \in S
  BY LenProperties, ElementOfSeq
<1>2. Least(n, Len(s)) \in 0 .. Len(s)
  BY <1>1 DEF Least
<1>3. PICK k \in 0 .. Len(s) : k = Least(n, Len(s))
  BY <1>2
<1>4. /\ SubSeq(s, 1, k) \in Seq(S)
      /\ Len(SubSeq(s, 1, k)) = IF 1 <= k THEN k - 1 + 1 ELSE 0
      /\ \A i \in 1 .. k - 1 + 1 : SubSeq(s, 1, k)[i] = s[1 + i - 1]
  <2>. 1 \in Int /\ k \in Int /\ \A i \in 1 .. k : s[i] \in S
    BY <1>1
  <2>. QED  BY SubSeqProperties
<1>. QED  BY <1>1, <1>3, <1>4 DEF Upto

\* What is left after the first n of a sequence.
LEMMA AfterIs ==
    ASSUME NEW S, NEW s \in Seq(S), NEW n \in Nat
    PROVE  /\ After(s, n) \in Seq(S) /\ Len(s) \in Nat
           /\ Len(After(s, n)) = IF n < Len(s) THEN Len(s) - n ELSE 0
           /\ \A i \in 1 .. Len(After(s, n)) : After(s, n)[i] = s[n + i]
<1>1. Len(s) \in Nat /\ \A i \in 1 .. Len(s) : s[i] \in S
  BY LenProperties, ElementOfSeq
<1>2. PICK l \in Nat : l = Len(s)
  BY <1>1
<1>4. /\ SubSeq(s, n + 1, l) \in Seq(S)
      /\ Len(SubSeq(s, n + 1, l)) = IF n + 1 <= l THEN l - (n + 1) + 1 ELSE 0
      /\ \A i \in 1 .. l - (n + 1) + 1 : SubSeq(s, n + 1, l)[i] = s[n + 1 + i - 1]
  <2>. n + 1 \in Int /\ l \in Int /\ \A i \in n + 1 .. l : s[i] \in S
    BY <1>1, <1>2
  <2>. QED  BY SubSeqProperties
<1>. QED  BY <1>1, <1>2, <1>4 DEF After

\* A set of numbers that is not empty has a least one.
LEMMA LeastOf ==
    ASSUME NEW T, T \subseteq Nat, T # {}
    PROVE  \E x \in T : \A y \in T : x <= y
<1>1. PICK x \in T : \A y \in T : ~(<<y, x>> \in OpToRel(<, Nat))
  BY NatLessThanWellFounded, WFMin
<1>2. \A y \in T : ~(y < x)
  BY <1>1 DEF OpToRel
<1>. QED  BY <1>2

\* FirstMark finds the first marker, if there is one.
LEMMA MarkIs ==
    ASSUME NEW S \in SUBSET Int, NEW s \in Seq(S)
    PROVE  \/ /\ FirstMark(s) = 0
              /\ \A i \in 1 .. Len(s) : ~IsMark(s[i])
           \/ /\ FirstMark(s) \in 1 .. Len(s)
              /\ IsMark(s[FirstMark(s)])
              /\ \A i \in 1 .. FirstMark(s) - 1 : ~IsMark(s[i])
<1>. DEFINE I == {i \in 1 .. Len(s) : IsMark(s[i])}
<1>1. Len(s) \in Nat
  BY LenProperties
<1>2. FirstMark(s) = IF I # {} THEN Min(I) ELSE 0
  BY DEF FirstMark, SelectInSeq
<1>3. CASE I = {}
  BY <1>2, <1>3
<1>4. CASE I # {}
  <2>1. \E x \in I : \A y \in I : x <= y
    <3>. I \subseteq Nat
      BY <1>1
    <3>. QED  BY <1>4, LeastOf
  <2>2. Min(I) \in I /\ \A y \in I : Min(I) <= y
    BY <2>1 DEF Min
  <2>. HIDE DEF I
  <2>3. FirstMark(s) \in I /\ \A y \in I : FirstMark(s) <= y
    BY <2>2, <1>2, <1>4
  <2>4. FirstMark(s) \in 1 .. Len(s) /\ IsMark(s[FirstMark(s)])
    BY <2>3 DEF I
  <2>5. ASSUME NEW i \in 1 .. FirstMark(s) - 1, IsMark(s[i])
        PROVE  FALSE
    <3>1. i \in 1 .. Len(s) /\ i < FirstMark(s)
      BY <1>1, <2>4
    <3>2. i \in I
      BY <3>1, <2>5 DEF I
    <3>. QED  BY <3>1, <3>2, <2>3, <2>4, <1>1
  <2>. QED  BY <2>4, <2>5
<1>. QED  BY <1>3, <1>4

-----------------------------------------------------------------------------
(* What xterm has to parse. *)

\* The sets the variables range over change only as output is written.
LEMMA SameTypes ==
    ASSUME produced' = produced, ended' = ended
    PROVE  Byte' = Byte /\ Item' = Item /\ Messages' = Messages /\ Writes' = Writes
  BY DEF Byte, Item, Messages, Writes, Alive

\* A write more adds its bytes to the count.
LEMMA RemainsAppend ==
    ASSUME NEW writes \in Seq(Writes), NEW n \in Nat, NEW w \in Writes, Remains(writes, n)
    PROVE  Remains(Append(writes, w), n + Counts(w))
<1>. DEFINE longer == Append(writes, w)
<1>1. /\ Len(writes) \in Nat /\ Len(longer) = Len(writes) + 1 /\ longer[Len(writes) + 1] = w
      /\ \A i \in 1 .. Len(writes) : longer[i] = writes[i]
  BY AppendIs
<1>. HIDE DEF longer
<1>2. PICK k \in Nat : k = Counts(w)
  <2>. w.bytes \in Seq(Byte)
    BY DEF Writes
  <2>. QED  BY LenProperties DEF Counts
<1>3. PICK left \in [0 .. Len(writes) -> Nat] :
         /\ left[0] = n /\ left[Len(writes)] = 0
         /\ \A i \in 1 .. Len(writes) : left[i - 1] = left[i] + Counts(writes[i])
  BY DEF Remains
<1>. PICK m \in Nat : m = Len(writes)
  BY <1>1
<1>4. PICK more : more = [i \in 0 .. m + 1 |-> IF i <= m THEN left[i] + k ELSE 0]
  OBVIOUS
<1>5. \A i \in 0 .. m : more[i] = left[i] + k /\ left[i] \in Nat
  <2>1. left \in [0 .. m -> Nat]
    BY <1>3
  <2>2. \A i \in 0 .. m : left[i] \in Nat /\ i \in 0 .. m + 1 /\ i <= m
    BY <2>1
  <2>. QED  BY <1>4, <2>2
<1>6. more \in [0 .. m + 1 -> Nat] /\ more[0] = n + Counts(w) /\ more[m + 1] = 0
  BY <1>2, <1>3, <1>4, <1>5
<1>7. ASSUME NEW i \in 1 .. m + 1
      PROVE  more[i - 1] = more[i] + Counts(longer[i])
  <2>1. CASE i \in 1 .. m
    <3>1. left[i - 1] = left[i] + Counts(writes[i]) /\ longer[i] = writes[i]
      BY <1>1, <1>3, <2>1
    <3>2. /\ more[i - 1] = left[i - 1] + k /\ more[i] = left[i] + k
          /\ left[i] \in Nat /\ left[i - 1] \in Nat
      BY <1>5, <2>1
    <3>3. Counts(writes[i]) = left[i - 1] - left[i]
      <4>. writes[i] \in Writes
        BY <2>1, ElementOfSeq
      <4>. writes[i].bytes \in Seq(Byte)
        BY DEF Writes
      <4>. Counts(writes[i]) \in Nat
        BY LenProperties DEF Counts
      <4>. QED  BY <3>1, <3>2
    <3>. QED  BY <3>1, <3>2, <3>3
  <2>2. CASE i = m + 1
    BY <1>1, <1>2, <1>3, <1>5, <1>6, <2>2
  <2>. QED  BY <2>1, <2>2
<1>. QED  BY <1>1, <1>6, <1>7 DEF Remains, longer

\* A write parsed takes its bytes off the count.
LEMMA RemainsTail ==
    ASSUME NEW writes \in Seq(Writes), NEW n \in Nat, Remains(writes, n), writes # <<>>
    PROVE  n - Counts(writes[1]) \in Nat /\ Remains(Tail(writes), n - Counts(writes[1]))
<1>. DEFINE rest == Tail(writes)
<1>1. /\ Len(writes) \in Nat \ {0} /\ Len(rest) = Len(writes) - 1
      /\ \A i \in 1 .. Len(rest) : rest[i] = writes[i + 1]
  BY TailIs
<1>. HIDE DEF rest
<1>2. PICK k \in Nat : k = Counts(writes[1])
  <2>. writes[1] \in Writes
    BY TailIs
  <2>. writes[1].bytes \in Seq(Byte)
    BY DEF Writes
  <2>. QED  BY LenProperties DEF Counts
<1>3. PICK left \in [0 .. Len(writes) -> Nat] :
         /\ left[0] = n /\ left[Len(writes)] = 0
         /\ \A i \in 1 .. Len(writes) : left[i - 1] = left[i] + Counts(writes[i])
  BY DEF Remains
<1>. PICK m \in Nat : m = Len(rest) /\ m + 1 = Len(writes)
  BY <1>1
<1>4. PICK less : less = [i \in 0 .. m |-> left[i + 1]]
  OBVIOUS
<1>5. \A i \in 0 .. m : less[i] = left[i + 1] /\ left[i + 1] \in Nat
  <2>1. left \in [0 .. m + 1 -> Nat]
    BY <1>3
  <2>2. \A i \in 0 .. m : i + 1 \in 0 .. m + 1
    OBVIOUS
  <2>. QED  BY <1>4, <2>1, <2>2
<1>6. less \in [0 .. m -> Nat] /\ less[m] = 0
  <2>1. less \in [0 .. m -> Nat]
    BY <1>4, <1>5
  <2>. QED  BY <1>3, <1>5, <2>1
<1>7. n = left[1] + k /\ less[0] = left[1] /\ left[1] \in Nat
  <2>1. left[1 - 1] = left[1] + Counts(writes[1])
    BY <1>3
  <2>. QED  BY <1>2, <1>3, <1>5, <2>1
<1>8. ASSUME NEW i \in 1 .. m
      PROVE  less[i - 1] = less[i] + Counts(rest[i])
  <2>1. left[(i + 1) - 1] = left[i + 1] + Counts(writes[i + 1]) /\ rest[i] = writes[i + 1]
    BY <1>1, <1>3
  <2>. QED  BY <1>5, <2>1
<1>9. n - Counts(writes[1]) = less[0]
  BY <1>2, <1>7
<1>10. Remains(rest, less[0])
  BY <1>6, <1>8 DEF Remains
<1>. QED  BY <1>7, <1>9, <1>10 DEF rest

\* Nothing is counted of an earlier connection.
LEMMA RemainsStale ==
    ASSUME NEW writes \in Seq(Writes)
    PROVE  /\ [i \in DOMAIN writes |-> [writes[i] EXCEPT !.stale = TRUE]] \in Seq(Writes)
           /\ Remains([i \in DOMAIN writes |-> [writes[i] EXCEPT !.stale = TRUE]], 0)
<1>. DEFINE old == [i \in DOMAIN writes |-> [writes[i] EXCEPT !.stale = TRUE]]
<1>1. Len(writes) \in Nat /\ DOMAIN writes = 1 .. Len(writes)
  BY LenProperties
<1>2. \A i \in 1 .. Len(writes) : old[i] \in Writes /\ old[i].stale
  <2>. \A i \in 1 .. Len(writes) : writes[i] \in Writes
    BY ElementOfSeq
  <2>. QED  BY <1>1 DEF Writes
<1>3. old \in Seq(Writes) /\ Len(old) = Len(writes)
  BY <1>1, <1>2
<1>. HIDE DEF old
<1>4. \A i \in 1 .. Len(old) : Counts(old[i]) = 0
  BY <1>2, <1>3 DEF Counts
<1>5. PICK left \in [0 .. Len(old) -> Nat] : left = [i \in 0 .. Len(old) |-> 0]
  OBVIOUS
<1>6. Remains(old, 0)
  BY <1>1, <1>3, <1>4, <1>5 DEF Remains
<1>. QED  BY <1>3, <1>6 DEF old

\* What _pump does with the bytes it is given: it hands a first part of them on.
LEMMA PumpIs ==
    ASSUME Typed, NEW bytes \in Seq(Byte), NEW writes \in Seq(Writes), NEW behind \in Nat,
           Remains(writes, behind), Pump(bytes, writes, behind)
    PROVE  /\ cqueue' \in Seq(Byte) /\ Len(cqueue') <= Len(bytes) /\ fed' \in Seq(Byte)
           /\ xterm' \in Seq(Writes) /\ unparsed' \in Nat /\ Remains(xterm', unparsed')
           /\ behind < 2 * PendingMax => unparsed' < 2 * PendingMax
           /\ \/ cqueue' = bytes /\ xterm' = writes /\ fed' = fed
              \/ \E w \in Writes :
                    /\ w.kind = "live" /\ ~w.stale /\ w.bytes # <<>>
                    /\ xterm' = Append(writes, w) /\ fed' = fed \o w.bytes
                    /\ w.bytes = Upto(bytes, PendingMax) /\ cqueue' = After(bytes, PendingMax)
<1>0. PendingMax \in Nat \ {0} /\ Len(bytes) \in Nat /\ fed \in Seq(Byte)
  BY LimitsAssumption, LenProperties DEF Typed, PaneTyped
<1>1. CASE ~(bytes # <<>> /\ behind < PendingMax)
  BY <1>0, <1>1 DEF Pump
<1>2. CASE bytes # <<>> /\ behind < PendingMax
  <2>. DEFINE w == Write("live", Upto(bytes, PendingMax))
  <2>1. Len(bytes) > 0
    BY <1>0, <1>2, TailIs
  <2>2. /\ Upto(bytes, PendingMax) \in Seq(Byte) /\ Len(Upto(bytes, PendingMax)) \in 1 .. PendingMax
        /\ After(bytes, PendingMax) \in Seq(Byte) /\ Len(After(bytes, PendingMax)) <= Len(bytes)
    BY <1>0, <2>1, UptoIs, AfterIs DEF Least
  <2>3. /\ w \in Writes /\ w.kind = "live" /\ ~w.stale /\ w.bytes = Upto(bytes, PendingMax)
        /\ w.bytes # <<>> /\ Counts(w) = Len(Upto(bytes, PendingMax))
    BY <2>2 DEF Write, Writes, Counts
  <2>4. /\ cqueue' = After(bytes, PendingMax) /\ xterm' = Append(writes, w)
        /\ unparsed' = behind + Len(Upto(bytes, PendingMax)) /\ fed' = fed \o Upto(bytes, PendingMax)
    BY <1>2 DEF Pump
  <2>. HIDE DEF w
  <2>5. fed' \in Seq(Byte)
    BY <1>0, <2>2, <2>4, ConcatIs
  <2>6. xterm' \in Seq(Writes) /\ Remains(xterm', unparsed')
    BY <2>3, <2>4, AppendIs, RemainsAppend
  <2>7. behind < 2 * PendingMax => unparsed' < 2 * PendingMax /\ unparsed' \in Nat
    BY <1>0, <1>2, <2>2, <2>4
  <2>8. unparsed' \in Nat
    BY <1>0, <2>2, <2>4
  <2>. QED  BY <2>2, <2>3, <2>4, <2>5, <2>6, <2>7, <2>8
<1>. QED  BY <1>1, <1>2

\* A frame of the replay is sent: the one frame that is on its way.
LEMMA SendFrameControl ==
    ASSUME Control, SendFrame
    PROVE  Control'
<1>. DEFINE frame == Data(Upto(replay, FrameMax))
<1>a. /\ Upto(replay, FrameMax) \in Seq(Byte) /\ Upto(replay, FrameMax) # <<>> 
      /\ After(replay, FrameMax) \in Seq(Byte)
  <2>1. FrameMax \in Nat \ {0} /\ replay \in Seq(Byte) /\ replay # <<>>
    BY LimitsAssumption DEF Control, Typed, QueuesTyped, LineTyped, SendFrame
  <2>2. Len(replay) > 0 /\ Len(replay) \in Nat
    BY <2>1, TailIs
  <2>3. Upto(replay, FrameMax) \in Seq(Byte) /\ Len(Upto(replay, FrameMax)) > 0
    BY <2>1, <2>2, UptoIs DEF Least
  <2>. QED  BY <2>1, <2>3, AfterIs
<1>b. frame \in Messages /\ frame.kind = "data" /\ frame.bytes # <<>>
  BY <1>a DEF Kinds, Data, Messages
<1>. HIDE DEF frame
<1>c. /\ down' = Append(down, frame) /\ down' \in Seq(Messages)
      /\ Len(down) \in Nat /\ Len(down') = Len(down) + 1 /\ down'[Len(down) + 1] = frame
      /\ \A i \in 1 .. Len(down) : down'[i] = down[i]
  BY <1>b, AppendIs DEF Control, Typed, QueuesTyped, LineTyped, SendFrame, frame
<1>. USE DEF Control, SendFrame, terminal, handler, viewer, pane, screen
<1>0. Byte' = Byte /\ Item' = Item /\ Messages' = Messages /\ Writes' = Writes
  BY SameTypes
<1>1. Typed'
  BY <1>0, <1>a, <1>c DEF Typed, ServerTyped, QueuesTyped, LineTyped, PaneTyped
<1>2. Bounded'
  BY DEF Bounded, Alive
<1>3. Remains(xterm, unparsed)'
  OBVIOUS
<1>4. HandlerOK'
  BY DEF HandlerOK, Subscribed, Alive, PaneOK
<1>5. WireOK'
  BY <1>b, <1>c DEF WireOK, SizeComes, Alive, Closes, PaneOK, HandlerOK
<1>6. PaneOK'
  BY <1>b, <1>c DEF PaneOK, Has, Alive, HandlerOK
<1>d. phase = "replay" /\ ~Has("done") /\ Quiet
  BY DEF PaneOK, OneFrame, WireOK, Has
<1>e. /\ ~Has("data") /\ ~Has("done")' /\ phase' = "replay" /\ Coming'
      /\ ~Parsing /\ ~Parsing' /\ up' = 0
  <2>1. ~Has("data") /\ ~Parsing /\ up = 0 /\ phase' = phase
    BY <1>d DEF Quiet, Coming
  <2>2. ~Has("done")' /\ Has("data")'
    BY <1>b, <1>c, <1>d DEF Has
  <2>3. ~Parsing'
    BY <2>1 DEF Parsing
  <2>. QED  BY <1>d, <2>1, <2>2, <2>3 DEF Coming
<1>7. OneFrame'
  <2>1. \A i, j \in 1 .. Len(down') : down'[i].kind = "data" /\ down'[j].kind = "data" => i = j
    BY <1>b, <1>c, <1>e DEF Has
  <2>2. \A i, j \in 1 .. Len(xterm') : Acknowledges(xterm'[i]) /\ Acknowledges(xterm'[j]) => i = j
    BY <1>e DEF Parsing
  <2>3. ~replayDone' /\ srv' # "accept" /\ awaiting'
    BY <1>d DEF PaneOK
  <2>. QED  BY <1>e, <2>1, <2>2, <2>3 DEF OneFrame
<1>8. Fresh'
  <2>1. SizeComes' <=> SizeComes
    BY <1>b, <1>c DEF SizeComes
  <2>. QED  BY <1>b, <1>d, <1>e, <2>1 DEF Fresh, Stale, Shown, Parsing, PaneOK
<1>. QED  BY <1>1, <1>2, <1>3, <1>4, <1>5, <1>6, <1>7, <1>8

-----------------------------------------------------------------------------
(* Every step keeps what is where. *)

\* A run of bytes.
LEMMA RunIs ==
    ASSUME NEW first \in Nat \ {0}, NEW last \in Nat, first <= last + 1
    PROVE  /\ Run(first, last) \in Seq(first .. last) /\ Len(Run(first, last)) = last + 1 - first
           /\ \A i \in 1 .. Len(Run(first, last)) : Run(first, last)[i] = first + i - 1
<1>. PICK n \in Nat : n = last + 1 - first
  OBVIOUS
<1>. DEFINE run == [i \in 1 .. n |-> first + i - 1]
<1>1. run = Run(first, last)
  BY DEF Run
<1>2. \A i \in 1 .. n : run[i] = first + i - 1 /\ run[i] \in first .. last
  OBVIOUS
<1>3. run \in Seq(first .. last) /\ Len(run) = n
  BY <1>2
<1>. QED  BY <1>1, <1>2, <1>3

\* A handler that ends leaves nothing behind.
LEMMA EndsTyped ==
    ASSUME HandlerEnds
    PROVE  (/\ srv \in Handler /\ awaiting \in BOOLEAN /\ overflowed \in BOOLEAN /\ sealed \in BOOLEAN
            /\ QueuesTyped)'
<1>1. <<>> \in Seq(Byte') /\ <<>> \in Seq(Item')
  BY EmptySeq
<1>2. (srv \in Handler)'
  BY DEF HandlerEnds, Handler
<1>3. (awaiting \in BOOLEAN)' /\ (overflowed \in BOOLEAN)' /\ (sealed \in BOOLEAN)'
  BY DEF HandlerEnds
<1>4. QueuesTyped'
  BY <1>1 DEF HandlerEnds, QueuesTyped
<1>. QED  BY <1>2, <1>3, <1>4

\* The pane's end of the line closes: nothing is left of the connection but the screen.
LEMMA LeavesControl ==
    ASSUME Control, NEW how \in {1000, 1002, 1006, 1013}, conn = "open", Leaves(how),
           UNCHANGED <<terminal, phase, replayDone, cqueue, exited, screen>>,
           resync' \in BOOLEAN, how = 1000 => exited \/ resync', drops' \in 0 .. MaxDrops
    PROVE  Control'
<1>0. /\ UNCHANGED <<produced, ended, phase, replayDone, cqueue, exited, xterm, unparsed, fed>>
      /\ conn' = "closed" /\ code' = how /\ down' = <<>> /\ up' = 0
      /\ srv' = "off" /\ replay' = <<>> /\ awaiting' = FALSE
      /\ buffer' = <<>> /\ sealed' = FALSE /\ pending' = <<>>
      /\ queue' = <<>> /\ overflowed' = FALSE
  BY DEF terminal, screen, Leaves, HandlerEnds
<1>1. Typed'
  <2>1. <<>> \in Seq(Byte) /\ <<>> \in Seq(Item) /\ <<>> \in Seq(Messages) /\ "off" \in Handler
    BY EmptySeq DEF Handler
  <2>2. Byte' = Byte /\ Item' = Item /\ Messages' = Messages /\ Writes' = Writes
    BY <1>0, SameTypes
  <2>3. ServerTyped'
    <3>1. HandlerEnds
      BY DEF Leaves
    <3>2. (produced \in 0 .. MaxBytes /\ ended \in {"no", "exit", "kill"})'
      BY <1>0 DEF Control, Typed, ServerTyped
    <3>. QED  BY <3>1, <3>2, EndsTyped DEF ServerTyped
  <2>. QueuesTyped'
    BY EndsTyped DEF Leaves
  <2>4. LineTyped'
    BY <1>0, <2>1, <2>2 DEF LineTyped
  <2>5. PaneTyped'
    BY <1>0, <2>1, <2>2 DEF Control, Typed, PaneTyped
  <2>. QED  BY <2>3, <2>4, <2>5 DEF Typed
<1>2. Bounded'
  BY <1>0, LimitsAssumption, EmptySeq DEF Control, Bounded, Alive
<1>3. Remains(xterm, unparsed)'
  BY <1>0 DEF Control, Remains
<1>4. HandlerOK'
  BY <1>0 DEF HandlerOK, Subscribed
<1>5. Len(down') = 0 /\ ~Has("done")' /\ ~Has("data")'
  BY <1>0, EmptySeq DEF Has
<1>6. WireOK'
  BY <1>5 DEF WireOK
<1>7. PaneOK'
  BY <1>0 DEF Control, PaneOK, Alive
<1>8. OneFrame'
  <2>1. Parsing' = Parsing
    BY <1>0 DEF Parsing
  <2>. QED  BY <1>0, <1>5, <2>1 DEF Control, OneFrame, Quiet, Coming
<1>9. Fresh'
  BY <1>0 DEF Fresh
<1>. QED  BY <1>1, <1>2, <1>3, <1>4, <1>6, <1>7, <1>8, <1>9 DEF Control

\* The pane connects: what xterm has not parsed is of an earlier connection.
LEMMA ConnectsControl ==
    ASSUME Control, conn \in {"retry", "closed"}, ~exited, Connects,
           UNCHANGED <<terminal, viewer, replay, awaiting, buffer, sealed, pending, down, up,
                       exited, fed, drops>>
    PROVE  Control'
<1>. USE DEF Connects
<1>0. /\ UNCHANGED <<produced, ended, queue, overflowed, replay, awaiting, buffer, sealed, pending,
                     down, up, exited, fed, drops>>
      /\ srv = "off" /\ down = <<>> /\ up = 0
  BY DEF terminal, viewer, Control, HandlerOK, PaneOK
<1>x. /\ xterm' \in Seq(Writes) /\ Remains(xterm', 0) /\ Len(xterm') = Len(xterm)
      /\ \A i \in 1 .. Len(xterm') : xterm'[i].stale /\ xterm'[i].bytes = xterm[i].bytes
  <2>1. xterm \in Seq(Writes)
    BY DEF Control, Typed, PaneTyped
  <2>2. DOMAIN xterm = 1 .. Len(xterm) /\ \A i \in 1 .. Len(xterm) : xterm[i] \in Writes
    BY <2>1, LenProperties, ElementOfSeq
  <2>3. xterm' \in Seq(Writes) /\ Remains(xterm', 0)
    BY <2>1, RemainsStale
  <2>4. Len(xterm') = Len(xterm)
    BY <2>1, <2>2, LenProperties
  <2>. QED  BY <2>2, <2>3, <2>4 DEF Writes
<1>1. Typed'
  <2>1. <<>> \in Seq(Byte) /\ "accept" \in Handler
    BY EmptySeq DEF Handler
  <2>2. Byte' = Byte /\ Item' = Item /\ Messages' = Messages /\ Writes' = Writes
    BY <1>0, SameTypes
  <2>3. ServerTyped'
    BY <1>0, <2>1 DEF Control, Typed, ServerTyped
  <2>. QueuesTyped'
    BY <1>0, <2>1, <2>2 DEF Control, Typed, QueuesTyped
  <2>4. LineTyped'
    BY <1>0, <2>1, <2>2 DEF Control, Typed, LineTyped
  <2>5. PaneTyped'
    BY <1>0, <1>x, <2>1, <2>2 DEF Control, Typed, PaneTyped
  <2>. QED  BY <2>3, <2>4, <2>5 DEF Typed
<1>2. Bounded'
  BY <1>0, LimitsAssumption, EmptySeq DEF Control, Bounded, Alive
<1>3. Remains(xterm, unparsed)'
  BY <1>x
<1>4. HandlerOK'
  BY <1>0 DEF Control, HandlerOK, Subscribed
<1>5. Len(down') = 0 /\ ~Has("done")' /\ ~Has("data")'
  BY <1>0, EmptySeq DEF Has
<1>6. WireOK'
  BY <1>5 DEF WireOK
<1>7. PaneOK'
  BY <1>0, <1>x DEF Control, PaneOK, Alive
<1>8. OneFrame'
  <2>1. ~Parsing'
    BY <1>x DEF Parsing, Acknowledges
  <2>. QED  BY <1>0, <1>5, <2>1 DEF Control, OneFrame, Quiet, Coming, Parsing
<1>9. Fresh'
  BY <1>5 DEF Fresh
<1>. QED  BY <1>1, <1>2, <1>3, <1>4, <1>6, <1>7, <1>8, <1>9 DEF Control

\* As output is written, what was typed stays typed.
LEMMA MoreTypes ==
    ASSUME produced \in Nat, produced' \in Nat, produced <= produced', ~Alive => ~Alive'
    PROVE  /\ \A s \in Seq(Byte) : s \in Seq(Byte)'
           /\ \A s \in Seq(Item) : s \in Seq(Item)'
           /\ \A s \in Seq(Messages) : s \in Seq(Messages)'
           /\ \A s \in Seq(Writes) : s \in Seq(Writes)'
<1>1. Byte \subseteq Byte' /\ Item \subseteq Item'
  BY DEF Byte, Item
<1>2. \A s \in Seq(Byte) : s \in Seq(Byte')
  BY <1>1, SeqMonotonic
<1>3. \A s \in Seq(Item) : s \in Seq(Item')
  BY <1>1, SeqMonotonic
<1>4. Messages \subseteq Messages' /\ Writes \subseteq Writes'
  BY <1>2 DEF Messages, Writes
<1>5. \A s \in Seq(Messages) : s \in Seq(Messages')
  BY <1>4, SeqMonotonic
<1>6. \A s \in Seq(Writes) : s \in Seq(Writes')
  BY <1>4, SeqMonotonic
<1>. QED  BY <1>2, <1>3, <1>5, <1>6

\* What a viewer's queue is after a publish: as it was, longer, or given up.
LEMMA PublishIs ==
    ASSUME NEW items, Publish(items)
    PROVE  \/ UNCHANGED viewer /\ (~Subscribed \/ overflowed)
           \/ /\ Subscribed /\ ~overflowed /\ queue' = <<Overflow>> /\ overflowed' = TRUE
              /\ ~IsMark(Last(items))
           \/ /\ Subscribed /\ ~overflowed /\ queue' = queue \o items /\ UNCHANGED overflowed
              /\ ~(Len(queue \o items) > QueueMax) \/ IsMark(Last(items))
  BY LimitsAssumption DEF Publish

\* The terminal's own steps disturb nothing but the viewer's queue.
LEMMA TerminalControl ==
    ASSUME Control, UNCHANGED <<handler, down, up, conn, pane, screen, code, drops>>,
           produced' \in produced .. MaxBytes, ended' \in {"no", "exit", "kill"},
           ~Alive => ended' = ended,
           queue' \in Seq(Item)', overflowed' \in BOOLEAN, ~Subscribed => UNCHANGED viewer,
           Len(queue') <= QueueMax + (IF Alive' THEN 0 ELSE 1)
    PROVE  Control'
<1>0. /\ UNCHANGED <<srv, replay, awaiting, buffer, sealed, pending, down, up, conn, phase, replayDone,
                     cqueue, resync, exited, xterm, unparsed, fed, code, drops>>
      /\ Alive' => Alive
      /\ produced \in Nat /\ produced' \in Nat /\ produced <= produced'
  BY LimitsAssumption DEF Control, Typed, ServerTyped, handler, pane, screen, Alive
<1>1. Typed'
  <2>1. ServerTyped'
    BY <1>0, LimitsAssumption DEF Control, Typed, ServerTyped
  <2>2. QueuesTyped'
    BY <1>0, MoreTypes DEF Control, Typed, QueuesTyped
  <2>3. LineTyped'
    BY <1>0, MoreTypes DEF Control, Typed, LineTyped
  <2>4. PaneTyped'
    BY <1>0, MoreTypes DEF Control, Typed, PaneTyped
  <2>. QED  BY <2>1, <2>2, <2>3, <2>4 DEF Typed
<1>2. Bounded'
  BY <1>0 DEF Control, Bounded
<1>3. Remains(xterm, unparsed)'
  BY <1>0 DEF Control
<1>4. HandlerOK'
  BY <1>0 DEF Control, HandlerOK, Subscribed, viewer
<1>5. WireOK'
  BY <1>0 DEF Control, WireOK, SizeComes
<1>6. PaneOK'
  BY <1>0 DEF Control, PaneOK, Has
<1>7. OneFrame'
  BY <1>0 DEF Control, OneFrame, Quiet, Parsing, Coming, Has
<1>8. Fresh'
  BY <1>0 DEF Control, Fresh, Stale, Shown, Coming, Has, Parsing, SizeComes
<1>. QED  BY <1>1, <1>2, <1>3, <1>4, <1>5, <1>6, <1>7, <1>8 DEF Control

\* _on_output
LEMMA OnOutputControl ==
    ASSUME Control, NEW n \in 1 .. 2, OnOutput(n)
    PROVE  Control'
<1>. DEFINE run == Run(produced + 1, produced + n)
<1>0. /\ produced \in Nat /\ produced' = produced + n /\ ended' = ended /\ produced' <= MaxBytes /\ MaxBytes \in Nat
      /\ (~Alive => ~Alive')
  BY LimitsAssumption DEF OnOutput, Control, Typed, ServerTyped, Alive
<1>1. /\ run \in Seq((produced + 1) .. (produced + n)) /\ Len(run) = n
      /\ \A i \in 1 .. Len(run) : run[i] = produced + 1 + i - 1
  <2>1. produced + 1 \in Nat \ {0} /\ produced + n \in Nat /\ produced + 1 <= (produced + n) + 1
    BY <1>0
  <2>2. (produced + n) + 1 - (produced + 1) = n
    BY <1>0
  <2>. QED  BY <2>1, <2>2, RunIs
<1>2. run \in Seq(Item)' /\ ~IsMark(Last(run))
  <2>1. (produced + 1) .. (produced + n) \subseteq Item'
    BY <1>0 DEF Item, Byte
  <2>2. run \in Seq(Item')
    BY <1>1, <2>1, SeqMonotonic
  <2>. QED  BY <1>0, <1>1, <2>2 DEF Last, IsMark
<1>3. queue \in Seq(Item)' /\ Len(queue) \in Nat /\ Len(queue) <= QueueMax + (IF Alive THEN 0 ELSE 1)
  BY <1>0, MoreTypes, LenProperties DEF Control, Typed, QueuesTyped, Bounded
<1>. HIDE DEF run
<1>4. QueueMax \in Nat \ {0} /\ Alive' = Alive
  BY <1>0, LimitsAssumption DEF Alive
<1>5. Publish(run)
  BY DEF OnOutput, run
<1>6. /\ queue' \in Seq(Item)' /\ overflowed' \in BOOLEAN /\ (~Subscribed => UNCHANGED viewer)
      /\ Len(queue') <= QueueMax + (IF Alive' THEN 0 ELSE 1)
  <2>1. CASE UNCHANGED viewer
    BY <1>3, <1>4, <2>1 DEF viewer, Control, Typed, ServerTyped
  <2>2. CASE Subscribed /\ queue' = <<Overflow>> /\ overflowed' = TRUE
    <3>1. <<Overflow>> \in Seq(Item') /\ Len(<<Overflow>>) = 1
      BY DEF Item
    <3>. QED  BY <1>4, <2>2, <3>1
  <2>3. CASE Subscribed /\ queue' = queue \o run /\ overflowed' = overflowed /\ Len(queue \o run) <= QueueMax
    <3>1. queue' \in Seq(Item')
      BY <1>2, <1>3, <2>3, ConcatIs
    <3>. QED  BY <1>4, <2>3, <3>1 DEF Control, Typed, ServerTyped
  <2>4. Len(queue \o run) \in Nat
    BY <1>2, <1>3, ConcatIs
  <2>5. Len(queue \o run) > QueueMax \/ Len(queue \o run) <= QueueMax
    BY <1>4, <2>4
  <2>6. \/ UNCHANGED viewer
        \/ Subscribed /\ queue' = <<Overflow>> /\ overflowed' = TRUE
        \/ Subscribed /\ queue' = queue \o run /\ overflowed' = overflowed /\ Len(queue \o run) <= QueueMax
    BY <1>2, <1>5, <2>5, PublishIs
  <2>. QED  BY <2>1, <2>2, <2>3, <2>6
<1>7. UNCHANGED <<handler, down, up, conn, pane, screen, code, drops>>
  BY DEF OnOutput
<1>8. produced' \in produced .. MaxBytes /\ ended' \in {"no", "exit", "kill"}
  BY <1>0 DEF Control, Typed, ServerTyped
<1>. QED  BY <1>0, <1>6, <1>7, <1>8, TerminalControl

\* _on_exit and _finish_kill
LEMMA EndsControl ==
    ASSUME Control, NEW how \in {"exit", "kill"}, Ends(how)
    PROVE  Control'
<1>0. /\ produced' = produced /\ produced \in 0 .. MaxBytes /\ ended' = how /\ Alive /\ ~Alive'
      /\ QueueMax \in Nat \ {0} /\ overflowed \in BOOLEAN
      /\ produced \in Nat /\ produced <= produced'
  BY LimitsAssumption DEF Ends, Control, Typed, ServerTyped, terminal, Alive
<1>1. \A s \in Seq(Item) : s \in Seq(Item)'
  BY <1>0, MoreTypes
<1>2. queue \in Seq(Item)' /\ queue \in Seq(Item) /\ Len(queue) \in Nat /\ Len(queue) <= QueueMax
  BY <1>0, <1>1, LenProperties DEF Control, Typed, QueuesTyped, Bounded
<1>3. <<Exit>> \in Seq(Item') /\ Len(<<Exit>>) = 1 /\ IsMark(Last(<<Exit>>))
  BY <1>0 DEF Item, Exit, IsMark, Last
<1>4. Len(queue \o <<Exit>>) = Len(queue) + 1 /\ queue \o <<Exit>> \in Seq(Item')
  BY <1>2, <1>3, ConcatIs
<1>5. Publish(<<Exit>>)
  BY DEF Ends
<1>6. /\ queue' \in Seq(Item)' /\ overflowed' \in BOOLEAN /\ (~Subscribed => UNCHANGED viewer)
      /\ Len(queue') <= QueueMax + 1
  <2>1. CASE UNCHANGED viewer
    BY <1>0, <1>1, <1>2, <2>1 DEF viewer
  <2>2. CASE Subscribed /\ queue' = queue \o <<Exit>> /\ overflowed' = overflowed
    BY <1>0, <1>1, <1>2, <1>4, <2>2
  <2>. QED  BY <1>3, <1>5, <2>1, <2>2, PublishIs
<1>7. UNCHANGED <<handler, down, up, conn, pane, screen, code, drops>>
  BY DEF Ends
<1>. QED  BY <1>0, <1>6, <1>7, TerminalControl

\* The handler's steps that send nothing.
LEMMA HandlerControl ==
    ASSUME Control, UNCHANGED <<terminal, replay, overflowed, down, conn, pane, screen, code, drops>>,
           srv' \in Handler, srv' = srv \/ (srv = "handover" /\ srv' = "live"),
           awaiting' \in BOOLEAN, sealed' \in BOOLEAN, up' \in 0 .. up,
           srv \in {"replay", "final"} /\ ~awaiting' => up' = 0 /\ (~awaiting \/ up = 1),
           srv \notin {"replay", "final"} => awaiting' = awaiting,
           ~Subscribed => UNCHANGED <<queue, buffer, sealed, pending>>,
           queue' \in Seq(Item), buffer' \in Seq(Item), pending' \in Seq(Item),
           Len(queue') <= QueueMax + (IF Alive THEN 0 ELSE 1),
           IF sealed' THEN Len(buffer') <= BufferMax + 1 ELSE Len(buffer') < BufferMax,
           Len(pending') <= BufferMax + QueueMax + 1,
           srv' # "live" => pending' = <<>>, srv' = "live" => buffer' = <<>>
    PROVE  Control'
<1>0. /\ UNCHANGED <<produced, ended, replay, overflowed, down, conn, phase, replayDone,
                     cqueue, resync, exited, xterm, unparsed, fed, code, drops>>
      /\ Alive' = Alive
  BY DEF terminal, pane, screen, Alive
<1>t. Byte' = Byte /\ Item' = Item /\ Messages' = Messages /\ Writes' = Writes
  BY <1>0, SameTypes
<1>1. Typed'
  <2>1. ServerTyped'
    BY <1>0 DEF Control, Typed, ServerTyped
  <2>2. QueuesTyped'
    BY <1>0, <1>t DEF Control, Typed, QueuesTyped
  <2>3. LineTyped'
    <3>1. up' \in 0 .. 1
      BY DEF Control, Typed, LineTyped
    <3>. QED  BY <1>0, <1>t, <3>1 DEF Control, Typed, LineTyped
  <2>4. PaneTyped'
    BY <1>0, <1>t DEF Control, Typed, PaneTyped
  <2>. QED  BY <2>1, <2>2, <2>3, <2>4 DEF Typed
<1>2. Bounded'
  BY <1>0 DEF Control, Bounded
<1>3. Remains(xterm, unparsed)'
  BY <1>0 DEF Control
<1>4. HandlerOK'
  BY <1>0 DEF Control, HandlerOK, Subscribed
<1>5. WireOK'
  BY <1>0 DEF Control, WireOK, SizeComes
<1>6. PaneOK'
  <2>1. Has("done")' = Has("done")
    BY <1>0 DEF Has
  <2>2. up \in 0 .. 1
    BY DEF Control, Typed, LineTyped
  <2>. QED  BY <1>0, <2>1, <2>2 DEF Control, PaneOK
<1>7. OneFrame'
  <2>1. Has("done")' = Has("done") /\ Has("data")' = Has("data") /\ Parsing' = Parsing /\ Coming' = Coming
    BY <1>0 DEF Has, Parsing, Coming
  <2>2. up \in 0 .. 1 /\ up' \in 0 .. 1 /\ (up' = 1 => up = 1) /\ (up = 0 => up' = 0)
    BY DEF Control, Typed, LineTyped
  <2>3. srv' = "accept" \/ (srv' \in {"replay", "final"} /\ ~awaiting') => Quiet'
    BY <1>0, <2>1, <2>2 DEF Control, OneFrame, Quiet
  <2>4. replayDone' \/ Has("done")' => Quiet'
    BY <1>0, <2>1, <2>2 DEF Control, OneFrame, Quiet
  <2>5. ~(Parsing' /\ Coming') /\ (up' = 1 => ~Parsing' /\ ~Coming')
    BY <2>1, <2>2 DEF Control, OneFrame
  <2>. QED  BY <1>0, <2>1, <2>3, <2>4, <2>5 DEF Control, OneFrame
<1>8. Fresh'
  <2>1. Has("done")' = Has("done") /\ Stale' = Stale /\ Parsing' = Parsing /\ Coming' = Coming /\ Shown' = Shown
    BY <1>0 DEF Has, Parsing, Coming, Stale, Shown, SizeComes
  <2>. QED  BY <1>0, <2>1 DEF Control, Fresh
<1>. QED  BY <1>1, <1>2, <1>3, <1>4, <1>5, <1>6, <1>7, <1>8 DEF Control

\* The acknowledgement of a frame.
LEMMA ReceiveAckControl ==
    ASSUME Control, ReceiveAck
    PROVE  Control'
<1>1. up \in 0 .. 1 /\ up = 1 /\ up' = 0 /\ up' \in 0 .. up /\ awaiting' = FALSE /\ srv \in {"replay", "final"}
  BY DEF ReceiveAck, Control, Typed, LineTyped, HandlerOK
<1>2. awaiting' \in BOOLEAN
  BY DEF ReceiveAck
<1>3. UNCHANGED <<terminal, srv, replay, overflowed, buffer, sealed, pending, queue,
                  down, conn, pane, screen, code, drops>>
  BY DEF ReceiveAck, viewer
<1>4. Bounded /\ QueuesTyped /\ HandlerOK /\ srv \in Handler /\ sealed \in BOOLEAN
  BY DEF Control, Typed, ServerTyped
<1>. QED  BY <1>1, <1>2, <1>3, <1>4, HandlerControl DEF Bounded, QueuesTyped, HandlerOK

\* _HandshakeBuffer._drain
LEMMA DrainControl ==
    ASSUME Control, Drain
    PROVE  Control'
<1>. DEFINE mark == FirstMark(queue)
            room == BufferMax - Len(buffer)
<1>1. /\ queue \in Seq(Item) /\ buffer \in Seq(Item) /\ Len(queue) \in Nat /\ Len(buffer) \in Nat
      /\ Len(queue) <= QueueMax + (IF Alive THEN 0 ELSE 1)
      /\ Len(buffer) < BufferMax /\ BufferMax \in Nat \ {0} /\ QueueMax \in Nat \ {0}
      /\ srv \in {"replay", "handover"} /\ ~sealed /\ queue # <<>>
  BY LimitsAssumption, LenProperties DEF Drain, Control, Typed, QueuesTyped, Bounded
<1>2. room \in Nat \ {0} /\ mark \in Nat
  <2>1. Item \subseteq Int
    BY DEF Item, Byte, Exit, Overflow
  <2>. QED  BY <1>1, <2>1, MarkIs
<1>3. /\ queue' \in Seq(Item) /\ buffer' \in Seq(Item) /\ sealed' \in BOOLEAN
      /\ Len(queue') <= Len(queue)
      /\ IF sealed' THEN Len(buffer') <= BufferMax + 1 ELSE Len(buffer') < BufferMax
  <2>1. CASE /\ mark \in 1 .. room
             /\ buffer' = buffer \o Upto(queue, mark)
             /\ queue' = After(queue, mark)
             /\ sealed' = TRUE
    <3>1. Upto(queue, mark) \in Seq(Item) /\ Len(Upto(queue, mark)) <= room /\ Len(Upto(queue, mark)) \in Nat
      BY <1>1, <1>2, <2>1, UptoIs, LenProperties DEF Least
    <3>2. After(queue, mark) \in Seq(Item) /\ Len(After(queue, mark)) <= Len(queue)
      BY <1>1, <1>2, AfterIs
    <3>3. buffer' \in Seq(Item) /\ Len(buffer') = Len(buffer) + Len(Upto(queue, mark))
      BY <1>1, <2>1, <3>1, ConcatIs
    <3>. QED  BY <1>1, <2>1, <3>1, <3>2, <3>3
  <2>2. CASE /\ buffer' = buffer \o Upto(queue, room) \o <<Overflow>>
             /\ queue' = After(queue, room)
             /\ sealed' = TRUE
    <3>1. /\ Upto(queue, room) \in Seq(Item) /\ Len(Upto(queue, room)) <= room
          /\ Len(Upto(queue, room)) \in Nat /\ <<Overflow>> \in Seq(Item) /\ Len(<<Overflow>>) = 1
      BY <1>1, <1>2, UptoIs, LenProperties DEF Least, Item
    <3>2. After(queue, room) \in Seq(Item) /\ Len(After(queue, room)) <= Len(queue)
      BY <1>1, <1>2, AfterIs
    <3>3. /\ buffer \o Upto(queue, room) \in Seq(Item)
          /\ Len(buffer \o Upto(queue, room)) = Len(buffer) + Len(Upto(queue, room))
      BY <1>1, <3>1, ConcatIs
    <3>4. /\ buffer' \in Seq(Item) /\ Len(buffer') = Len(buffer) + Len(Upto(queue, room)) + 1
      BY <2>2, <3>1, <3>3, ConcatIs
    <3>. QED  BY <1>1, <2>2, <3>1, <3>2, <3>4
  <2>3. CASE /\ Len(queue) < room
             /\ buffer' = buffer \o queue
             /\ queue' = <<>>
             /\ UNCHANGED sealed
    <3>1. buffer' \in Seq(Item) /\ Len(buffer') = Len(buffer) + Len(queue)
      BY <1>1, <2>3, ConcatIs
    <3>2. queue' \in Seq(Item) /\ Len(queue') = 0
      BY <2>3, EmptySeq
    <3>3. sealed' \in BOOLEAN
      BY <2>3 DEF Control, Typed, ServerTyped
    <3>. QED  BY <1>1, <2>3, <3>1, <3>2, <3>3
  <2>. QED  BY <2>1, <2>2, <2>3 DEF Drain
<1>4. Len(queue') <= QueueMax + (IF Alive THEN 0 ELSE 1)
  <2>. Len(queue') \in Nat
    BY <1>3, LenProperties
  <2>. QED  BY <1>1, <1>3
<1>5. UNCHANGED <<terminal, overflowed, srv, replay, awaiting, pending, down, up, conn,
                   pane, screen, code, drops>>
  BY DEF Drain
<1>6. Bounded /\ QueuesTyped /\ HandlerOK /\ ServerTyped /\ up \in 0 .. 1 /\ OneFrame
  BY DEF Control, Typed, LineTyped
<1>7. /\ up' \in 0 .. up /\ (srv \in {"replay", "final"} /\ ~awaiting' => up' = 0 /\ ~awaiting)
      /\ awaiting' \in BOOLEAN /\ pending' \in Seq(Item) /\ Len(pending') <= BufferMax + QueueMax + 1
      /\ srv' \in Handler /\ pending' = <<>> /\ srv' # "live" /\ Subscribed
  BY <1>1, <1>5, <1>6 DEF OneFrame, Quiet, Bounded, QueuesTyped, ServerTyped, HandlerOK, Subscribed
<1>. QED  BY <1>1, <1>3, <1>4, <1>5, <1>7, HandlerControl

\* _HandshakeBuffer.take
LEMMA StartPumpControl ==
    ASSUME Control, StartPump
    PROVE  Control'
<1>1. /\ queue \in Seq(Item) /\ buffer \in Seq(Item) /\ Len(queue) \in Nat /\ Len(buffer) \in Nat
      /\ Len(queue) <= QueueMax + (IF Alive THEN 0 ELSE 1)
      /\ IF sealed THEN Len(buffer) <= BufferMax + 1 ELSE Len(buffer) < BufferMax
      /\ BufferMax \in Nat \ {0} /\ QueueMax \in Nat \ {0} /\ srv = "handover" /\ Subscribed
  BY LimitsAssumption, LenProperties DEF StartPump, Control, Typed, QueuesTyped, Bounded, Subscribed
<1>2. /\ queue' \in Seq(Item) /\ pending' \in Seq(Item) /\ buffer' \in Seq(Item) /\ buffer' = <<>>
      /\ Len(queue') <= QueueMax + (IF Alive THEN 0 ELSE 1)
      /\ Len(pending') <= BufferMax + QueueMax + 1 /\ Len(buffer') = 0
  <2>1. buffer' = <<>> /\ buffer' \in Seq(Item) /\ Len(buffer') = 0
    BY EmptySeq DEF StartPump
  <2>2. CASE sealed
    <3>1. pending' = buffer /\ queue' = queue
      BY <1>1, <2>2, ConcatEmptySeq DEF StartPump
    <3>. QED  BY <1>1, <2>1, <2>2, <3>1
  <2>3. CASE ~sealed
    <3>1. pending' = buffer \o queue /\ queue' = <<>> /\ queue' \in Seq(Item) /\ Len(queue') = 0
      BY <2>3, EmptySeq DEF StartPump
    <3>2. buffer \o queue \in Seq(Item) /\ Len(buffer \o queue) = Len(buffer) + Len(queue)
      BY <1>1, ConcatIs
    <3>. QED  BY <1>1, <2>1, <2>3, <3>1, <3>2
  <2>. QED  BY <2>2, <2>3
<1>3. UNCHANGED <<terminal, overflowed, replay, awaiting, sealed, down, up, conn, pane,
                   screen, code, drops>> /\ srv' = "live"
  BY DEF StartPump
<1>4. up \in 0 .. 1 /\ awaiting \in BOOLEAN /\ sealed \in BOOLEAN
  BY DEF Control, Typed, LineTyped, ServerTyped
<1>5. up' \in 0 .. up /\ srv' \in Handler
  BY <1>3, <1>4 DEF Handler
<1>6. IF sealed' THEN Len(buffer') <= BufferMax + 1 ELSE Len(buffer') < BufferMax
  BY <1>1, <1>2
<1>. QED  BY <1>1, <1>2, <1>3, <1>4, <1>5, <1>6, HandlerControl

\* What the handler sends last: t goes out, and the handler ends.
Parting(t) ==
    /\ \A i \in 1 .. Len(t) :
          LET kind == t[i].kind IN
          /\ kind = "data" <=> t[i].bytes # <<>>
          /\ kind # "size"
          /\ kind = "data" /\ phase = "replay" => Has("done")
          /\ kind = "done" => /\ phase = "replay" /\ Quiet /\ ~Stale /\ i = 1
                              /\ Len(down) = 0 \/ (Len(down) = 1 /\ SizeComes)
          /\ kind \in {"exit", "overflow"} => i + 1 = Len(t) /\ t[i + 1].kind \in Closes
          /\ kind = "exit" => ~Alive
          /\ kind \in Closes => i = Len(t)
          /\ kind = "close1000" => i > 1 /\ t[i - 1].kind = "exit"

\* The handler is left with its last messages on the wire.
LEMMA HandlerStops ==
    ASSUME Control, HandlerEnds, srv \notin {"off", "accept"}, NEW t \in Seq(Messages),
           down' = down \o t, Parting(t),
           UNCHANGED <<terminal, up, conn, pane, screen, code>>, drops' \in 0 .. MaxDrops
    PROVE  Control'
<1>0. /\ UNCHANGED <<produced, ended, up, conn, phase, replayDone,
                     cqueue, resync, exited, xterm, unparsed, fed, code>>
      /\ Alive' = Alive /\ srv' = "off" /\ ~exited /\ conn = "open"
      /\ queue' = <<>> /\ buffer' = <<>> /\ pending' = <<>> /\ replay' = <<>>
      /\ ~sealed' /\ ~overflowed' /\ ~awaiting'
  BY DEF terminal, pane, screen, Alive, HandlerEnds, Control, PaneOK, HandlerOK
<1>t. Byte' = Byte /\ Item' = Item /\ Messages' = Messages /\ Writes' = Writes
  BY <1>0, SameTypes
<1>d. /\ down \in Seq(Messages) /\ down' \in Seq(Messages) /\ Len(down) \in Nat /\ Len(t) \in Nat
      /\ Len(down') = Len(down) + Len(t)
      /\ \A i \in 1 .. Len(down) : down'[i] = down[i]
      /\ \A i \in 1 .. Len(t) : down'[Len(down) + i] = t[i]
  BY ConcatIs DEF Control, Typed, LineTyped
<1>k. \A i \in 1 .. Len(down') : i \in 1 .. Len(down) \/ \E j \in 1 .. Len(t) : i = Len(down) + j
  <2>. TAKE i \in 1 .. Len(down')
  <2>. i \in 1 .. Len(down) \/ (i - Len(down) \in 1 .. Len(t) /\ i = Len(down) + (i - Len(down)))
    BY <1>d
  <2>. QED  OBVIOUS
<1>1. Typed'
  <2>1. HandlerEnds
    OBVIOUS
  <2>2. (produced \in 0 .. MaxBytes /\ ended \in {"no", "exit", "kill"})'
    BY <1>0 DEF Control, Typed, ServerTyped
  <2>3. ServerTyped' /\ QueuesTyped'
    BY <2>1, <2>2, EndsTyped DEF ServerTyped
  <2>4. LineTyped'
    BY <1>0, <1>t, <1>d DEF Control, Typed, LineTyped
  <2>5. PaneTyped'
    BY <1>0, <1>t DEF Control, Typed, PaneTyped
  <2>. QED  BY <2>3, <2>4, <2>5 DEF Typed
<1>2. Bounded'
  <2>1. Len(queue') = 0 /\ Len(buffer') = 0 /\ Len(pending') = 0
    BY <1>0, EmptySeq
  <2>2. /\ QueueMax \in Nat \ {0} /\ BufferMax \in Nat \ {0} /\ cqueue' = cqueue /\ unparsed' = unparsed
        /\ ~sealed'
    BY <1>0, LimitsAssumption
  <2>. QED  BY <2>1, <2>2 DEF Control, Bounded
<1>3. Remains(xterm, unparsed)'
  BY <1>0 DEF Control
<1>4. HandlerOK'
  BY <1>0 DEF Control, HandlerOK, Subscribed
<1>s. SizeComes' <=> SizeComes
  <2>1. CASE Len(down) = 0
    <3>1. down = <<>>
      BY <1>d, <2>1, EmptySeq
    <3>2. Len(t) = 0 \/ (1 \in 1 .. Len(t) /\ t[1].kind # "size")
      BY <1>d DEF Parting
    <3>3. Len(t) > 0 => down'[1] = t[1]
      BY <1>d, <2>1
    <3>4. ~SizeComes
      BY <3>1 DEF SizeComes
    <3>5. Len(t) = 0 => down' = <<>>
      BY <1>d, <2>1, EmptySeq
    <3>. QED  BY <1>d, <3>2, <3>3, <3>4, <3>5 DEF SizeComes
  <2>2. CASE Len(down) > 0
    BY <1>d, <2>2, EmptySeq DEF SizeComes
  <2>. QED  BY <1>d, <2>1, <2>2
<1>h. /\ Has("done")' <=> Has("done") \/ \E i \in 1 .. Len(t) : t[i].kind = "done"
      /\ Has("data")' <=> Has("data") \/ \E i \in 1 .. Len(t) : t[i].kind = "data"
  <2>1. ASSUME NEW kind
        PROVE  (\E i \in 1 .. Len(down') : down'[i].kind = kind)
                  <=> (\E i \in 1 .. Len(down) : down[i].kind = kind) \/ \E i \in 1 .. Len(t) : t[i].kind = kind
    <3>1. ASSUME NEW i \in 1 .. Len(down)  PROVE i \in 1 .. Len(down')
      BY <1>d
    <3>2. ASSUME NEW i \in 1 .. Len(t)  PROVE Len(down) + i \in 1 .. Len(down')
      BY <1>d
    <3>3. ASSUME NEW i \in 1 .. Len(down'), down'[i].kind = kind
          PROVE  (\E j \in 1 .. Len(down) : down[j].kind = kind) \/ \E j \in 1 .. Len(t) : t[j].kind = kind
      BY <1>d, <1>k, <3>3
    <3>4. ASSUME NEW i \in 1 .. Len(down), down[i].kind = kind
          PROVE  \E j \in 1 .. Len(down') : down'[j].kind = kind
      BY <1>d, <3>1, <3>4
    <3>5. ASSUME NEW i \in 1 .. Len(t), t[i].kind = kind
          PROVE  \E j \in 1 .. Len(down') : down'[j].kind = kind
      BY <1>d, <3>2, <3>5
    <3>. QED  BY <3>3, <3>4, <3>5
  <2>. QED  BY <2>1 DEF Has
<1>5. WireOK'
  <2>. SUFFICES ASSUME NEW i \in 1 .. Len(down')
                PROVE  LET kind == down'[i].kind IN
                       /\ kind = "data" <=> down'[i].bytes # <<>>
                       /\ kind = "size" => i = 1 /\ phase = "replay" /\ cqueue = <<>>
                       /\ kind = "done" => phase = "replay" /\ (i = 1 \/ (i = 2 /\ SizeComes))
                       /\ kind \in {"exit", "overflow"} =>
                             i + 1 = Len(down') /\ down'[i + 1].kind \in Closes
                       /\ kind = "exit" => ~Alive
                       /\ kind \in Closes => i = Len(down')
                       /\ kind = "close1000" => i > 1 /\ down'[i - 1].kind = "exit"
    BY <1>0, <1>s DEF WireOK
  <2>1. CASE i \in 1 .. Len(down)
    BY <1>0, <1>d, <2>1 DEF Control, WireOK, Closes
  <2>2. ASSUME NEW j \in 1 .. Len(t), i = Len(down) + j
        PROVE  LET kind == down'[i].kind IN
                       /\ kind = "data" <=> down'[i].bytes # <<>>
                       /\ kind = "size" => i = 1 /\ phase = "replay" /\ cqueue = <<>>
                       /\ kind = "done" => phase = "replay" /\ (i = 1 \/ (i = 2 /\ SizeComes))
                       /\ kind \in {"exit", "overflow"} =>
                             i + 1 = Len(down') /\ down'[i + 1].kind \in Closes
                       /\ kind = "exit" => ~Alive
                       /\ kind \in Closes => i = Len(down')
                       /\ kind = "close1000" => i > 1 /\ down'[i - 1].kind = "exit"
    <3>1. j > 1 => down'[i - 1] = t[j - 1]
      <4>. SUFFICES ASSUME j > 1  PROVE  down'[i - 1] = t[j - 1]
        OBVIOUS
      <4>. j - 1 \in 1 .. Len(t) /\ i - 1 = Len(down) + (j - 1)
        BY <1>d, <2>2
      <4>. QED  BY <1>d
    <3>2. LET kind == t[j].kind IN
          /\ kind = "data" <=> t[j].bytes # <<>>
          /\ kind # "size"
          /\ kind = "done" => phase = "replay" /\ j = 1 /\ (Len(down) = 0 \/ (Len(down) = 1 /\ SizeComes))
          /\ kind \in {"exit", "overflow"} => j + 1 = Len(t) /\ t[j + 1].kind \in Closes
          /\ kind = "exit" => ~Alive
          /\ kind \in Closes => j = Len(t)
          /\ kind = "close1000" => j > 1 /\ t[j - 1].kind = "exit"
      BY DEF Parting
    <3>3. down'[i] = t[j]
      BY <1>d, <2>2
    <3>5. j + 1 = Len(t) => down'[i + 1] = t[j + 1]
      <4>. SUFFICES ASSUME j + 1 = Len(t)  PROVE  down'[i + 1] = t[j + 1]
        OBVIOUS
      <4>. j + 1 \in 1 .. Len(t) /\ i + 1 = Len(down) + (j + 1)
        BY <1>d, <2>2
      <4>. QED  BY <1>d
    <3>4. /\ j + 1 = Len(t) => i + 1 = Len(down')
          /\ j = Len(t) => i = Len(down')
          /\ j = 1 /\ Len(down) = 0 => i = 1
          /\ j = 1 /\ Len(down) = 1 => i = 2
          /\ j > 1 => i > 1
      <4>1. PICK n \in Nat, m \in Nat : n = Len(down) /\ m = Len(t) /\ Len(down') = n + m
        BY <1>d
      <4>2. j \in 1 .. m /\ i = n + j
        BY <4>1, <2>2
      <4>3. /\ j + 1 = m => i + 1 = n + m
            /\ j = m => i = n + m
            /\ j = 1 /\ n = 0 => i = 1
            /\ j = 1 /\ n = 1 => i = 2
            /\ j > 1 => i > 1
        BY <4>2
      <4>. QED  BY <4>1, <4>3
    <3>. QED  BY <3>1, <3>2, <3>3, <3>4, <3>5
  <2>. QED  BY <1>k, <2>1, <2>2
<1>6. PaneOK'
  BY <1>0 DEF Control, PaneOK
<1>p. Parsing' = Parsing /\ Stale' = Stale
  BY <1>0 DEF Parsing, Stale
<1>q. ~(\E i \in 1 .. Len(t) : t[i].kind = "data" /\ phase = "replay" /\ ~Has("done"))
  BY DEF Parting
<1>c. Coming' => Coming /\ ~(\E i \in 1 .. Len(t) : t[i].kind = "data")
  BY <1>0, <1>h, <1>q DEF Coming
<1>7. OneFrame'
  <2>1. Coming' => \A i, j \in 1 .. Len(down') : down'[i].kind = "data" /\ down'[j].kind = "data" => i = j
    <3>. SUFFICES ASSUME Coming', NEW i \in 1 .. Len(down'), NEW j \in 1 .. Len(down'),
                         down'[i].kind = "data", down'[j].kind = "data"
                  PROVE  i = j
      OBVIOUS
    <3>1. i \in 1 .. Len(down) /\ j \in 1 .. Len(down)
      BY <1>c, <1>d, <1>k
    <3>. QED  BY <1>c, <1>d, <3>1 DEF Control, OneFrame
  <2>2. Has("done")' => Quiet'
    <3>1. CASE Has("done")
      BY <1>0, <1>c, <1>p, <3>1 DEF Control, OneFrame, Quiet
    <3>2. CASE \E i \in 1 .. Len(t) : t[i].kind = "done"
      BY <1>0, <1>c, <1>p, <3>2 DEF Parting, Quiet
    <3>. QED  BY <1>h, <3>1, <3>2
  <2>3. replayDone' => Quiet'
    BY <1>0, <1>c, <1>p DEF Control, OneFrame, Quiet
  <2>4. ~(Parsing' /\ Coming') /\ (up' = 1 => ~Parsing' /\ ~Coming')
    BY <1>0, <1>c, <1>p DEF Control, OneFrame
  <2>. QED  BY <1>0, <2>1, <2>2, <2>3, <2>4 DEF Control, OneFrame
<1>8. Fresh'
  <2>1. Shown' <=> Shown
    BY <1>0, <1>s DEF Shown
  <2>2. Has("done")' => ~Stale
    BY <1>0, <1>h DEF Control, Fresh, Parting
  <2>. QED  BY <1>0, <1>p, <2>1, <2>2 DEF Control, Fresh
<1>. QED  BY <1>1, <1>2, <1>3, <1>4, <1>5, <1>6, <1>7, <1>8 DEF Control

\* _pump_input gives up, and a replay that is not acknowledged.
LEMMA GivesUpControl ==
    ASSUME Control, InputFull \/ AckTimeout
    PROVE  Control'
<1>1. /\ HandlerEnds /\ srv \notin {"off", "accept"} /\ UNCHANGED <<terminal, up, conn, pane, screen, code>>
      /\ drops' \in 0 .. MaxDrops
  BY LimitsAssumption DEF InputFull, AckTimeout, Control, HandlerOK, Typed, LineTyped
<1>2. PICK kind \in {"close1013", "close1002"} : down' = Append(down, Message(kind))
  BY DEF InputFull, AckTimeout
<1>3. Message(kind) \in Messages /\ Message(kind).kind = kind /\ Message(kind).bytes = <<>>
  BY EmptySeq DEF Message, Messages, Kinds
<1>4. PICK t : t = <<Message(kind)>>
  OBVIOUS
<1>5. t \in Seq(Messages) /\ Len(t) = 1 /\ t[1] = Message(kind) /\ down' = down \o t
  BY <1>2, <1>3, <1>4, AppendIsConcat DEF Control, Typed, LineTyped
<1>6. Parting(t)
  BY <1>3, <1>5 DEF Parting
<1>. QED  BY <1>1, <1>5, <1>6, HandlerStops

\* A sequence of some elements of a set.
LEMMA SeqStays ==
    ASSUME NEW S, NEW T, NEW s \in Seq(S), \A i \in 1 .. Len(s) : s[i] \in T
    PROVE  s \in Seq(T)
<1>. PICK n \in Nat : n = Len(s)
  BY LenProperties
<1>1. s \in [1 .. n -> S]
  BY LenProperties
<1>2. s \in [1 .. n -> T]
  BY <1>1
<1>. QED  BY <1>2, SeqDef

\* The items at hand in a turn of pump_output, and the frame it makes of them.
HandItems == pending \o queue
HandMark == FirstMark(HandItems)
HandBytes == IF HandMark = 0 THEN HandItems ELSE Upto(HandItems, HandMark - 1)
HandFrame == Upto(HandBytes, FrameMax)
HandFinal == HandMark # 0 /\ Len(HandBytes) < FrameMax
HandSent == IF HandFrame = <<>> THEN <<>> ELSE <<Data(HandFrame)>>

\* One turn of the pump, in the names above.
LEMMA PumpFrameIs ==
    ASSUME PumpFrame
    PROVE  /\ srv = "live" /\ HandItems # <<>>
           /\ UNCHANGED <<terminal, up, conn, pane, screen, code, drops>>
           /\ \/ /\ ~HandFinal
                 /\ down' = down \o HandSent
                 /\ pending' = After(pending, Len(HandFrame))
                 /\ queue' = IF Len(HandFrame) > Len(pending)
                             THEN After(queue, Len(HandFrame) - Len(pending)) ELSE queue
                 /\ UNCHANGED <<srv, replay, awaiting, buffer, sealed, overflowed>>
              \/ /\ HandFinal /\ HandItems[HandMark] = Exit
                 /\ HandlerEnds
                 /\ down' = down \o (HandSent \o <<Message("exit"), Message("close1000")>>)
              \/ /\ HandFinal /\ HandItems[HandMark] # Exit
                 /\ HandlerEnds
                 /\ down' = down \o <<Message("overflow"), Message("close1013")>>
  BY DEF PumpFrame, HandItems, HandMark, HandBytes, HandFrame, HandFinal, HandSent

\* The frame is the first bytes at hand; all of them if a marker is near.
LEMMA HandIs ==
    ASSUME Control, srv = "live", HandItems # <<>>
    PROVE  /\ pending \in Seq(Item) /\ queue \in Seq(Item) /\ HandItems \in Seq(Item)
           /\ Len(pending) \in Nat /\ Len(queue) \in Nat /\ Len(HandItems) = Len(pending) + Len(queue)
           /\ Len(HandItems) > 0
           /\ HandMark \in 0 .. Len(HandItems) /\ FrameMax \in Nat \ {0}
           /\ HandBytes \in Seq(Byte) /\ HandFrame \in Seq(Byte)
           /\ Len(HandBytes) = (IF HandMark = 0 THEN Len(HandItems) ELSE HandMark - 1)
           /\ \A i \in 1 .. Len(HandBytes) : HandBytes[i] = HandItems[i] /\ ~IsMark(HandItems[i])
           /\ HandMark # 0 => IsMark(HandItems[HandMark])
           /\ Len(HandFrame) = Least(FrameMax, Len(HandBytes))
           /\ \A i \in 1 .. Len(HandFrame) : HandFrame[i] = HandItems[i]
           /\ ~HandFinal => Len(HandFrame) > 0 /\ HandFrame # <<>>
<1>1. /\ pending \in Seq(Item) /\ queue \in Seq(Item) /\ HandItems \in Seq(Item)
      /\ Len(pending) \in Nat /\ Len(queue) \in Nat /\ Len(HandItems) = Len(pending) + Len(queue)
  BY ConcatIs DEF Control, Typed, QueuesTyped, HandItems
<1>2. Len(HandItems) > 0 /\ Len(HandItems) \in Nat
  BY <1>1, EmptySeq
<1>3. Item \in SUBSET Int /\ \A x \in Item : ~IsMark(x) => x \in Byte
  BY DEF Item, Byte, Exit, Overflow, IsMark
<1>4. \/ /\ HandMark = 0
         /\ \A i \in 1 .. Len(HandItems) : ~IsMark(HandItems[i])
      \/ /\ HandMark \in 1 .. Len(HandItems)
         /\ IsMark(HandItems[HandMark])
         /\ \A i \in 1 .. HandMark - 1 : ~IsMark(HandItems[i])
  BY <1>1, <1>3, MarkIs DEF HandMark
<1>5. FrameMax \in Nat \ {0}
  BY LimitsAssumption
<1>6. /\ HandBytes \in Seq(Item) /\ Len(HandBytes) \in Nat
      /\ Len(HandBytes) = (IF HandMark = 0 THEN Len(HandItems) ELSE HandMark - 1)
      /\ \A i \in 1 .. Len(HandBytes) : HandBytes[i] = HandItems[i] /\ ~IsMark(HandItems[i])
  <2>1. CASE HandMark = 0
    BY <1>1, <1>2, <1>4, <2>1 DEF HandBytes
  <2>2. CASE HandMark \in 1 .. Len(HandItems)
    <3>1. PICK n \in Nat : n = HandMark - 1 /\ Least(n, Len(HandItems)) = n /\ n + 1 = HandMark
      BY <1>2, <2>2 DEF Least
    <3>2. HandBytes = Upto(HandItems, n)
      BY <2>2, <3>1 DEF HandBytes
    <3>3. /\ Upto(HandItems, n) \in Seq(Item) /\ Len(Upto(HandItems, n)) = n
          /\ \A i \in 1 .. n : Upto(HandItems, n)[i] = HandItems[i]
      BY <1>1, <3>1, UptoIs
    <3>4. HandMark # 0 /\ \A i \in 1 .. n : ~IsMark(HandItems[i])
      BY <1>2, <1>4, <2>2, <3>1
    <3>. QED  BY <2>2, <3>1, <3>2, <3>3, <3>4
  <2>. QED  BY <1>4, <2>1, <2>2
<1>7. HandBytes \in Seq(Byte)
  <2>. \A i \in 1 .. Len(HandBytes) : HandBytes[i] \in Byte
    BY <1>3, <1>6, ElementOfSeq
  <2>. QED  BY <1>6, SeqStays
<1>8. /\ HandFrame \in Seq(Byte) /\ Len(HandFrame) = Least(FrameMax, Len(HandBytes))
      /\ \A i \in 1 .. Len(HandFrame) : HandFrame[i] = HandBytes[i]
  BY <1>5, <1>7, UptoIs DEF HandFrame
<1>9. \A i \in 1 .. Len(HandFrame) : HandFrame[i] = HandItems[i]
  BY <1>5, <1>6, <1>8 DEF Least
<1>10. ~HandFinal => Len(HandFrame) > 0 /\ HandFrame # <<>>
  <2>1. ~HandFinal => Len(HandFrame) > 0
    BY <1>2, <1>4, <1>5, <1>6, <1>8 DEF Least, HandFinal
  <2>. QED  BY <2>1, EmptySeq
<1>. QED  BY <1>1, <1>2, <1>4, <1>5, <1>6, <1>7, <1>8, <1>9, <1>10

\* A live frame goes out.
LEMMA LiveFrameControl ==
    ASSUME Control, srv = "live",
           UNCHANGED <<terminal, srv, replay, awaiting, buffer, sealed, overflowed, up, conn, pane,
                       screen, code, drops>>,
           NEW frame \in Messages, frame.kind = "data", frame.bytes # <<>>, down' = Append(down, frame),
           queue' \in Seq(Item), pending' \in Seq(Item),
           Len(queue') <= QueueMax + (IF Alive THEN 0 ELSE 1), Len(pending') <= BufferMax + QueueMax + 1
    PROVE  Control'
<1>0. /\ UNCHANGED <<produced, ended, srv, replay, awaiting, buffer, sealed, overflowed, up, conn, code,
                     drops, phase, replayDone, cqueue, resync, exited, xterm, unparsed, fed>>
      /\ Alive' = Alive
  BY DEF terminal, pane, screen, Alive
<1>t. Byte' = Byte /\ Item' = Item /\ Messages' = Messages /\ Writes' = Writes
  BY <1>0, SameTypes
<1>d. /\ down' \in Seq(Messages) /\ Len(down) \in Nat /\ Len(down') = Len(down) + 1
      /\ down'[Len(down) + 1] = frame /\ down' # <<>> 
      /\ \A i \in 1 .. Len(down) : down'[i] = down[i]
  BY AppendIs DEF Control, Typed, LineTyped
<1>1. Typed'
  <2>1. ServerTyped'
    BY <1>0 DEF Control, Typed, ServerTyped
  <2>2. QueuesTyped'
    BY <1>0, <1>t DEF Control, Typed, QueuesTyped
  <2>3. LineTyped'
    BY <1>0, <1>t, <1>d DEF Control, Typed, LineTyped
  <2>4. PaneTyped'
    BY <1>0, <1>t DEF Control, Typed, PaneTyped
  <2>. QED  BY <2>1, <2>2, <2>3, <2>4 DEF Typed
<1>2. Bounded'
  BY <1>0 DEF Control, Bounded
<1>3. Remains(xterm, unparsed)'
  BY <1>0 DEF Control
<1>4. HandlerOK'
  BY <1>0 DEF Control, HandlerOK, Subscribed
<1>s. SizeComes' <=> SizeComes
  <2>1. CASE Len(down) = 0
    BY <1>d, <2>1, EmptySeq DEF SizeComes, Control, Typed, LineTyped
  <2>2. CASE Len(down) > 0
    BY <1>d, <2>2, EmptySeq DEF SizeComes
  <2>. QED  BY <1>d, <2>1, <2>2
<1>h. (Has("done")' <=> Has("done")) /\ (Has("done") \/ phase = "live")
  <2>1. Has("done")' <=> Has("done")
    BY <1>d DEF Has
  <2>. QED  BY <2>1 DEF Control, PaneOK
<1>5. WireOK'
  BY <1>0, <1>d, <1>s DEF Control, WireOK, Closes, PaneOK
<1>6. PaneOK'
  BY <1>0, <1>h DEF Control, PaneOK, HandlerOK
<1>p. Parsing' = Parsing /\ Stale' = Stale /\ ~Coming /\ ~Coming'
  BY <1>0, <1>h DEF Parsing, Stale, Coming
<1>7. OneFrame'
  BY <1>0, <1>h, <1>p DEF Control, OneFrame, Quiet
<1>8. Fresh'
  BY <1>0, <1>h, <1>p, <1>s DEF Control, Fresh, Shown
<1>. QED  BY <1>1, <1>2, <1>3, <1>4, <1>5, <1>6, <1>7, <1>8 DEF Control

\* pump_output
LEMMA PumpFrameControl ==
    ASSUME Control, PumpFrame
    PROVE  Control'
<1>0. /\ srv = "live" /\ HandItems # <<>> /\ UNCHANGED <<terminal, up, conn, pane, screen, code, drops>>
      /\ phase = "live" \/ Has("done") 
      /\ drops' \in 0 .. MaxDrops /\ down \in Seq(Messages)
  BY PumpFrameIs DEF Control, PaneOK, Typed, LineTyped
<1>a. HandFrame \in Seq(Byte) /\ pending \in Seq(Item) /\ queue \in Seq(Item) /\ Len(HandFrame) \in Nat
  BY <1>0, HandIs, LenProperties
<1>b. HandSent \in Seq(Messages) /\ \A i \in 1 .. Len(HandSent) : HandSent[i].kind = "data" /\ HandSent[i].bytes # <<>>
  <2>1. CASE HandFrame = <<>>
    BY <2>1, EmptySeq DEF HandSent
  <2>2. CASE HandFrame # <<>>
    <3>1. Data(HandFrame) \in Messages /\ Data(HandFrame).kind = "data" /\ Data(HandFrame).bytes = HandFrame
      BY <1>a DEF Data, Messages, Kinds
    <3>2. HandSent = <<Data(HandFrame)>>
      BY <2>2 DEF HandSent
    <3>. QED  BY <2>2, <3>1, <3>2
  <2>. QED  BY <2>1, <2>2
<1>m. ASSUME NEW kind \in Kinds  PROVE Message(kind) \in Messages /\ Message(kind).kind = kind /\ Message(kind).bytes = <<>>
  BY EmptySeq DEF Message, Messages
<1>1. CASE /\ HandFinal /\ HandItems[HandMark] = Exit
           /\ HandlerEnds
           /\ down' = down \o (HandSent \o <<Message("exit"), Message("close1000")>>)
  <2>. PICK last : last = <<Message("exit"), Message("close1000")>>
    OBVIOUS
  <2>1. /\ last \in Seq(Messages) /\ Len(last) = 2 /\ last[1].kind = "exit" /\ last[2].kind = "close1000"
        /\ last[1].bytes = <<>> /\ last[2].bytes = <<>>
    BY <1>m DEF Kinds
  <2>. PICK t : t = HandSent \o last
    OBVIOUS
  <2>2. /\ t \in Seq(Messages) /\ Len(HandSent) \in Nat /\ Len(t) = Len(HandSent) + 2
        /\ \A i \in 1 .. Len(HandSent) : t[i] = HandSent[i]
        /\ t[Len(HandSent) + 1] = last[1] /\ t[Len(HandSent) + 2] = last[2]
    BY <1>b, <2>1, ConcatIs
  <2>3. ~Alive
    <3>1. HandItems \in Seq(Item) /\ HandMark \in 1 .. Len(HandItems)
      BY <1>0, <1>1, HandIs DEF HandFinal
    <3>2. HandItems[HandMark] \in Item
      BY <3>1, ElementOfSeq
    <3>. QED  BY <1>1, <3>2 DEF Item, Byte, Exit, Overflow
  <2>4. Parting(t)
    <3>0. phase = "replay" => Has("done")
      BY <1>0
    <3>. SUFFICES ASSUME NEW i \in 1 .. Len(t)
                  PROVE  LET kind == t[i].kind IN
                         /\ kind = "data" <=> t[i].bytes # <<>>
                         /\ kind # "size"
                         /\ kind = "data" /\ phase = "replay" => Has("done")
                         /\ kind # "done"
                         /\ kind \in {"exit", "overflow"} => i + 1 = Len(t) /\ t[i + 1].kind \in Closes
                         /\ kind = "exit" => ~Alive
                         /\ kind \in Closes => i = Len(t)
                         /\ kind = "close1000" => i > 1 /\ t[i - 1].kind = "exit"
      BY DEF Parting
    <3>. SUFFICES LET kind == t[i].kind IN
                  /\ kind = "data" <=> t[i].bytes # <<>>
                  /\ kind \in {"data", "exit", "close1000"}
                  /\ kind = "exit" => i + 1 = Len(t) /\ t[i + 1].kind = "close1000"
                  /\ kind = "close1000" => i = Len(t) /\ i > 1 /\ t[i - 1].kind = "exit"
      BY <2>3, <3>0 DEF Closes
    <3>1. CASE i \in 1 .. Len(HandSent)
      BY <1>b, <2>2, <3>1
    <3>2. CASE i = Len(HandSent) + 1
      <4>1. i + 1 = Len(HandSent) + 2 /\ i + 1 = Len(t)
        BY <2>2, <3>2
      <4>. QED  BY <2>1, <2>2, <3>2, <4>1
    <3>3. CASE i = Len(HandSent) + 2
      <4>1. i - 1 = Len(HandSent) + 1 /\ i = Len(t) /\ i > 1
        BY <2>2, <3>3
      <4>2. t[i - 1].kind = "exit"
        BY <2>1, <2>2, <4>1
      <4>. QED  BY <2>1, <2>2, <3>3, <4>1, <4>2
    <3>. QED  BY <2>2, <3>1, <3>2, <3>3
  <2>. QED  BY <1>0, <1>1, <2>2, <2>4, HandlerStops
<1>2. CASE /\ HandFinal /\ HandItems[HandMark] # Exit
           /\ HandlerEnds
           /\ down' = down \o <<Message("overflow"), Message("close1013")>>
  <2>. PICK t : t = <<Message("overflow"), Message("close1013")>>
    OBVIOUS
  <2>1. /\ t \in Seq(Messages) /\ Len(t) = 2 /\ t[1].kind = "overflow" /\ t[2].kind = "close1013"
        /\ t[1].bytes = <<>> /\ t[2].bytes = <<>>
    BY <1>m DEF Kinds
  <2>2. Parting(t)
    <3>. SUFFICES ASSUME NEW i \in 1 .. Len(t)
                  PROVE  LET kind == t[i].kind IN
                         /\ kind \in {"overflow", "close1013"} /\ t[i].bytes = <<>>
                         /\ kind = "overflow" => i + 1 = Len(t) /\ t[i + 1].kind = "close1013"
                         /\ kind = "close1013" => i = Len(t)
      BY DEF Parting, Closes
    <3>. i = 1 \/ i = 2
      BY <2>1
    <3>. QED  BY <2>1
  <2>. QED  BY <1>0, <1>2, <2>1, <2>2, HandlerStops
<1>3. CASE /\ ~HandFinal
           /\ down' = down \o HandSent
           /\ pending' = After(pending, Len(HandFrame))
           /\ queue' = IF Len(HandFrame) > Len(pending)
                       THEN After(queue, Len(HandFrame) - Len(pending)) ELSE queue
           /\ UNCHANGED <<srv, replay, awaiting, buffer, sealed, overflowed>>
  <2>f. PICK frame : frame = Data(HandFrame)
    OBVIOUS
  <2>1. /\ frame \in Messages /\ frame.kind = "data" /\ frame.bytes # <<>> /\ down' = Append(down, frame)
    <3>1. HandFrame # <<>>
      BY <1>0, <1>3, HandIs
    <3>2. frame \in Messages /\ frame.kind = "data" /\ frame.bytes = HandFrame
      BY <1>a, <2>f DEF Data, Messages, Kinds
    <3>3. HandSent = <<frame>>
      BY <2>f, <3>1 DEF HandSent
    <3>. QED  BY <1>0, <1>3, <3>1, <3>2, <3>3, AppendIsConcat
  <2>2. /\ queue' \in Seq(Item) /\ pending' \in Seq(Item)
        /\ Len(queue') <= Len(queue) /\ Len(pending') <= Len(pending)
        /\ Len(queue) \in Nat /\ Len(pending) \in Nat /\ Len(queue') \in Nat /\ Len(pending') \in Nat
    <3>1. /\ After(pending, Len(HandFrame)) \in Seq(Item) /\ Len(After(pending, Len(HandFrame))) <= Len(pending)
          /\ Len(queue) \in Nat /\ Len(pending) \in Nat
      BY <1>a, AfterIs
    <3>2. CASE Len(HandFrame) > Len(pending)
      <4>1. PICK n \in Nat : n = Len(HandFrame) - Len(pending)
        <5>1. PICK f \in Nat, p \in Nat : f = Len(HandFrame) /\ p = Len(pending)
          BY <1>a, <3>1
        <5>. QED  BY <3>2, <5>1
      <4>2. After(queue, n) \in Seq(Item) /\ Len(After(queue, n)) <= Len(queue)
        BY <1>a, <3>1, AfterIs
      <4>. QED  BY <1>3, <3>1, <3>2, <4>1, <4>2, LenProperties
    <3>3. CASE ~(Len(HandFrame) > Len(pending))
      BY <1>a, <1>3, <3>1, <3>3, LenProperties
    <3>. QED  BY <3>2, <3>3
  <2>3. UNCHANGED <<terminal, srv, replay, awaiting, buffer, sealed, overflowed, up, conn, pane, screen,
                    code, drops>>
    BY <1>0, <1>3
  <2>4. Len(queue') <= QueueMax + (IF Alive THEN 0 ELSE 1) /\ Len(pending') <= BufferMax + QueueMax + 1
    <3>1. Len(queue) <= QueueMax + (IF Alive THEN 0 ELSE 1) /\ Len(pending) <= BufferMax + QueueMax + 1
      BY DEF Control, Bounded
    <3>. QED  BY <2>2, <3>1, LimitsAssumption
  <2>. QED  BY <1>0, <2>1, <2>2, <2>3, <2>4, LiveFrameControl
<1>. QED  BY <1>1, <1>2, <1>3, PumpFrameIs

\* A message without bytes.
LEMMA MessageIs ==
    ASSUME NEW kind \in Kinds
    PROVE  Message(kind) \in Messages /\ Message(kind).kind = kind /\ Message(kind).bytes = <<>>
  BY EmptySeq DEF Message, Messages

\* When the last frame of the replay is answered, nothing of it is left anywhere.
LEMMA ReplayIsOver ==
    ASSUME Control, srv \in {"replay", "final"}, ~awaiting, replay = <<>>
    PROVE  /\ phase = "replay" /\ ~exited /\ conn = "open" /\ ~replayDone /\ Quiet /\ ~Stale
           /\ ~Has("data") /\ ~Has("done")
           /\ Len(down) = 0 \/ (Len(down) = 1 /\ SizeComes)
<1>1. phase = "replay" /\ ~exited /\ conn = "open" /\ ~replayDone /\ Quiet
  BY DEF Control, PaneOK, HandlerOK, OneFrame
<1>2. ~Has("done")
  BY DEF Control, WireOK, Has
<1>3. ~Has("data")
  BY <1>1, <1>2 DEF Quiet, Coming
<1>4. ~Stale
  BY <1>1, EmptySeq DEF Control, Fresh, Quiet
<1>5. \A i \in 1 .. Len(down) : i = 1 /\ down[i].kind = "size"
  <2>. TAKE i \in 1 .. Len(down)
  <2>1. down[i] \in Messages
    BY ElementOfSeq DEF Control, Typed, LineTyped
  <2>2. down[i].kind \notin {"data", "done", "exit", "overflow", "close1000", "close1013", "close1002"}
    BY <1>2, <1>3 DEF Has, Control, WireOK, Closes
  <2>. QED  BY <2>1, <2>2 DEF Messages, Kinds, Control, WireOK
<1>6. Len(down) = 0 \/ (Len(down) = 1 /\ SizeComes)
  <2>1. Len(down) \in Nat /\ (down = <<>> <=> Len(down) = 0)
    BY LenProperties, EmptySeq DEF Control, Typed, LineTyped
  <2>2. Len(down) > 1 => 2 \in 1 .. Len(down)
    BY <2>1
  <2>3. Len(down) = 0 \/ Len(down) = 1
    <3>1. 2 # 1 => ~(2 \in 1 .. Len(down))
      BY <1>5
    <3>. QED  BY <2>1, <2>2, <3>1
  <2>. QED  BY <1>5, <2>1, <2>3 DEF SizeComes
<1>. QED  BY <1>1, <1>2, <1>3, <1>4, <1>6

\* replay_done
LEMMA ReplayDoneControl ==
    ASSUME Control, ReplayDone
    PROVE  Control'
<1>0. /\ srv \in {"replay", "final"} /\ ~awaiting /\ replay = <<>>
      /\ UNCHANGED <<terminal, up, conn, pane, screen, code, drops>> /\ drops' \in 0 .. MaxDrops
  BY DEF ReplayDone, Control, Typed, LineTyped
<1>o. /\ phase = "replay" /\ ~exited /\ conn = "open" /\ ~replayDone /\ Quiet /\ ~Stale
      /\ ~Has("data") /\ ~Has("done")
      /\ Len(down) = 0 \/ (Len(down) = 1 /\ SizeComes)
  BY <1>0, ReplayIsOver
<1>m. /\ Message("done") \in Messages /\ Message("done").kind = "done" /\ Message("done").bytes = <<>>
      /\ Message("exit") \in Messages /\ Message("exit").kind = "exit" /\ Message("exit").bytes = <<>>
      /\ Message("close1000") \in Messages /\ Message("close1000").kind = "close1000"
      /\ Message("close1000").bytes = <<>>
  BY MessageIs DEF Kinds
<1>1. CASE srv = "final"
  <2>. PICK t : t = <<Message("done"), Message("exit"), Message("close1000")>>
    OBVIOUS
  <2>1. HandlerEnds /\ down' = down \o t
    BY <1>1 DEF ReplayDone
  <2>2. /\ t \in Seq(Messages) /\ Len(t) = 3 /\ t[1].kind = "done" /\ t[2].kind = "exit" /\ t[3].kind = "close1000"
        /\ t[1].bytes = <<>> /\ t[2].bytes = <<>> /\ t[3].bytes = <<>>
    BY <1>m
  <2>3. ~Alive
    BY <1>1 DEF Control, HandlerOK
  <2>4. Parting(t)
    <3>. SUFFICES ASSUME NEW i \in 1 .. Len(t)
                  PROVE  LET kind == t[i].kind IN
                         /\ kind \in {"done", "exit", "close1000"} /\ t[i].bytes = <<>>
                         /\ kind = "done" => i = 1
                         /\ kind = "exit" => i + 1 = Len(t) /\ t[i + 1].kind = "close1000"
                         /\ kind = "close1000" => i = Len(t) /\ i > 1 /\ t[i - 1].kind = "exit"
      BY <1>o, <2>3 DEF Parting, Closes
    <3>. i = 1 \/ i = 2 \/ i = 3
      BY <2>2
    <3>. QED  BY <2>2
  <2>. QED  BY <1>0, <1>1, <2>1, <2>2, <2>4, HandlerStops
<1>2. CASE srv = "replay"
  <2>f. PICK done : done = Message("done")
    OBVIOUS
  <2>0. /\ srv' = "handover" /\ down' = Append(down, done)
        /\ UNCHANGED <<produced, ended, replay, awaiting, buffer, sealed, pending, queue, overflowed,
                       up, conn, code, drops, phase, replayDone, cqueue, resync, exited, xterm, unparsed, fed>>
        /\ Alive' = Alive
    BY <1>0, <1>2, <2>f DEF ReplayDone, terminal, pane, screen, viewer, Alive
  <2>t. Byte' = Byte /\ Item' = Item /\ Messages' = Messages /\ Writes' = Writes
    BY <2>0, SameTypes
  <2>d. /\ down' \in Seq(Messages) /\ Len(down) \in Nat /\ Len(down') = Len(down) + 1
        /\ down'[Len(down) + 1] = done /\ down' # <<>>
        /\ \A i \in 1 .. Len(down) : down'[i] = down[i]
    BY <1>m, <2>f, <2>0, AppendIs DEF Control, Typed, LineTyped
  <2>1. Typed'
    <3>1. ServerTyped'
      BY <2>0 DEF Control, Typed, ServerTyped, Handler
    <3>2. QueuesTyped'
      BY <2>0, <2>t DEF Control, Typed, QueuesTyped
    <3>3. LineTyped'
      BY <2>0, <2>t, <2>d DEF Control, Typed, LineTyped
    <3>4. PaneTyped'
      BY <2>0, <2>t DEF Control, Typed, PaneTyped
    <3>. QED  BY <3>1, <3>2, <3>3, <3>4 DEF Typed
  <2>2. Bounded'
    BY <2>0 DEF Control, Bounded
  <2>3. Remains(xterm, unparsed)'
    BY <2>0 DEF Control
  <2>4. HandlerOK'
    BY <1>0, <1>2, <1>o, <2>0 DEF Control, HandlerOK, Subscribed
  <2>s. SizeComes' <=> SizeComes
    <3>1. CASE Len(down) = 0
      BY <1>m, <2>f, <2>d, <3>1, EmptySeq DEF SizeComes, Control, Typed, LineTyped
    <3>2. CASE Len(down) = 1
      BY <2>d, <3>2, EmptySeq DEF SizeComes
    <3>. QED  BY <1>o, <3>1, <3>2
  <2>h. Has("done")' /\ ~Has("data")'
    BY <1>m, <1>o, <2>f, <2>d DEF Has
  <2>5. WireOK'
    <3>. SUFFICES ASSUME NEW i \in 1 .. Len(down')
                  PROVE  LET kind == down'[i].kind IN
                         /\ kind \in {"size", "done"} /\ down'[i].bytes = <<>>
                         /\ kind = "size" => i = 1 /\ phase = "replay" /\ cqueue = <<>>
                         /\ kind = "done" => i = 1 \/ (i = 2 /\ SizeComes)
      BY <1>o, <2>0, <2>s DEF WireOK, Closes
    <3>1. CASE i = Len(down) + 1
      BY <1>m, <1>o, <2>f, <2>d, <3>1
    <3>2. CASE i = 1 /\ Len(down) = 1 /\ SizeComes
      <4>1. down'[i] = down[1] /\ down[1].kind = "size"
        BY <2>d, <3>2 DEF SizeComes
      <4>. QED  BY <3>2, <4>1 DEF Control, WireOK
    <3>. QED  BY <1>o, <2>d, <3>1, <3>2
  <2>6. PaneOK'
    BY <1>o, <2>0, <2>h DEF Control, PaneOK
  <2>p. Parsing' = Parsing /\ Stale' = Stale /\ ~Coming'
    BY <2>0, <2>h DEF Parsing, Stale, Coming
  <2>7. OneFrame'
    BY <1>o, <2>0, <2>p DEF Control, OneFrame, Quiet
  <2>8. Fresh'
    BY <1>o, <2>0, <2>p DEF Fresh
  <2>. QED  BY <2>1, <2>2, <2>3, <2>4, <2>5, <2>6, <2>7, <2>8 DEF Control
<1>. QED  BY <1>0, <1>1, <1>2

\* The ring holds the last bytes.
LEMMA RingIs ==
    ASSUME produced \in Nat
    PROVE  \E a \in 0 .. produced :
              /\ Start(a) /\ Ring \in Seq(Byte) /\ Len(Ring) = produced - a
              /\ \A i \in 1 .. Len(Ring) : Ring[i] = a + i
              /\ produced > 0 => Ring # <<>>
<1>1. RingCap \in Nat \ {0}
  BY LimitsAssumption
<1>2. PICK a \in 0 .. produced : a = (IF produced > RingCap THEN produced - RingCap ELSE 0)
  BY <1>1
<1>3. /\ a + 1 \in Nat \ {0} /\ a + 1 <= produced + 1 /\ produced + 1 - (a + 1) = produced - a
      /\ (IF produced > RingCap THEN produced - RingCap + 1 ELSE 1) = a + 1
      /\ \A i \in Nat : a + 1 + i - 1 = a + i
      /\ produced > 0 => produced - a > 0
      /\ a = 0 \/ a + RingCap <= produced
  BY <1>1, <1>2
<1>4. Ring = Run(a + 1, produced)
  BY <1>3 DEF Ring
<1>5. /\ Ring \in Seq((a + 1) .. produced) /\ Len(Ring) = produced - a
      /\ \A i \in 1 .. Len(Ring) : Ring[i] = a + 1 + i - 1
  BY <1>3, <1>4, RunIs
<1>6. (a + 1) .. produced \subseteq Byte
  BY <1>3 DEF Byte
<1>7. Ring \in Seq(Byte)
  BY <1>5, <1>6, SeqMonotonic
<1>8. \A i \in 1 .. Len(Ring) : Ring[i] = a + i
  BY <1>3, <1>5
<1>9. produced > 0 => Ring # <<>>
  BY <1>3, <1>5, EmptySeq
<1>. QED  BY <1>3, <1>5, <1>7, <1>8, <1>9 DEF Start

\* The handshake begins.
LEMMA AcceptControl ==
    ASSUME Control, Accept
    PROVE  Control'
<1>0. /\ srv = "accept" /\ srv' = (IF Alive THEN "replay" ELSE "final") /\ srv' \in {"replay", "final"}
      /\ replay' = Ring /\ down' = <<Message("size")>> /\ Alive' = Alive
      /\ UNCHANGED <<produced, ended, awaiting, buffer, sealed, pending, queue, overflowed,
                     up, conn, code, drops, phase, replayDone, cqueue, resync, exited, xterm, unparsed, fed>>
  BY DEF Accept, terminal, pane, screen, viewer, Alive
<1>m. Message("size") \in Messages /\ Message("size").kind = "size" /\ Message("size").bytes = <<>>
  BY MessageIs DEF Kinds
<1>t. Byte' = Byte /\ Item' = Item /\ Messages' = Messages /\ Writes' = Writes
  BY <1>0, SameTypes
<1>d. /\ down' \in Seq(Messages) /\ Len(down') = 1 /\ down'[1].kind = "size" /\ down'[1].bytes = <<>>
      /\ down' # <<>>
  BY <1>0, <1>m
<1>r. Ring \in Seq(Byte) /\ (produced > 0 => Ring # <<>>)
  BY RingIs DEF Control, Typed, ServerTyped
<1>o. /\ phase = "replay" /\ ~exited /\ conn = "open" /\ cqueue = <<>> /\ ~replayDone /\ Quiet
      /\ queue = <<>> /\ buffer = <<>> /\ ~sealed /\ ~overflowed /\ pending = <<>> /\ ~awaiting
  BY <1>0 DEF Control, PaneOK, HandlerOK, OneFrame, Subscribed
<1>1. Typed'
  <2>1. ServerTyped'
    BY <1>0 DEF Control, Typed, ServerTyped, Handler
  <2>2. QueuesTyped'
    BY <1>0, <1>t, <1>r DEF Control, Typed, QueuesTyped
  <2>3. LineTyped'
    BY <1>0, <1>t, <1>d DEF Control, Typed, LineTyped
  <2>4. PaneTyped'
    BY <1>0, <1>t DEF Control, Typed, PaneTyped
  <2>. QED  BY <2>1, <2>2, <2>3, <2>4 DEF Typed
<1>2. Bounded'
  BY <1>0 DEF Control, Bounded
<1>3. Remains(xterm, unparsed)'
  BY <1>0 DEF Control
<1>4. HandlerOK'
  BY <1>0, <1>o DEF HandlerOK, Subscribed
<1>h. ~Has("done")' /\ ~Has("data")' /\ SizeComes'
  BY <1>d DEF Has, SizeComes
<1>5. WireOK'
  BY <1>0, <1>o, <1>d DEF WireOK, Closes
<1>6. PaneOK'
  BY <1>0, <1>o, <1>h DEF Control, PaneOK
<1>p. Parsing' = Parsing /\ Stale' = Stale /\ ~Coming'
  BY <1>0, <1>h DEF Parsing, Stale, Coming
<1>7. OneFrame'
  BY <1>0, <1>o, <1>p DEF Control, OneFrame, Quiet
<1>8. Fresh'
  <2>1. Stale => produced > 0
    <3>. SUFFICES ASSUME NEW i \in 1 .. Len(xterm)  PROVE produced > 0
      BY DEF Stale
    <3>1. xterm[i] \in Writes /\ xterm[i].bytes # <<>>
      BY ElementOfSeq DEF Control, Typed, PaneTyped, PaneOK
    <3>2. xterm[i].bytes \in Seq(Byte)
      BY <3>1 DEF Writes
    <3>3. xterm[i].bytes[1] \in Byte
      BY <3>1, <3>2, TailIs
    <3>. QED  BY <3>3 DEF Byte, Control, Typed, ServerTyped
  <2>. QED  BY <1>0, <1>o, <1>h, <1>p, <1>r, <2>1 DEF Fresh, Shown
<1>. QED  BY <1>1, <1>2, <1>3, <1>4, <1>5, <1>6, <1>7, <1>8 DEF Control

\* What is on the wire when its first message is taken.
LEMMA TakenIs ==
    ASSUME Control, NEW kind \in Kinds, Takes(kind)
    PROVE  /\ conn = "open" /\ down # <<>> /\ down \in Seq(Messages) /\ down' = Tail(down)
           /\ down[1].kind = kind /\ Head(down) = down[1] /\ down[1] \in Messages
           /\ Len(down) \in Nat \ {0} /\ down' \in Seq(Messages) /\ Len(down') = Len(down) - 1
           /\ \A i \in 1 .. Len(down') : down'[i] = down[i + 1] /\ i + 1 \in 1 .. Len(down)
           /\ \A k \in Kinds : Has(k)' => Has(k)
           /\ \A k \in Kinds : k # kind /\ Has(k) => Has(k)'
           /\ ~SizeComes' /\ Has(kind)
<1>1. /\ conn = "open" /\ down # <<>> /\ down \in Seq(Messages) /\ down' = Tail(down) /\ Head(down).kind = kind
  BY DEF Takes, Control, Typed, LineTyped
<1>2. /\ down[1].kind = kind /\ Head(down) = down[1] /\ down[1] \in Messages
      /\ Len(down) \in Nat \ {0} /\ down' \in Seq(Messages) /\ Len(down') = Len(down) - 1
      /\ \A i \in 1 .. Len(down') : down'[i] = down[i + 1] /\ i + 1 \in 1 .. Len(down)
  BY <1>1, TailIs
<1>3. \A k \in Kinds : Has(k)' => Has(k)
  BY <1>2 DEF Has
<1>4. ASSUME NEW k \in Kinds, k # kind, Has(k)  PROVE Has(k)'
  <2>1. PICK i \in 1 .. Len(down) : down[i].kind = k
    BY <1>4 DEF Has
  <2>2. i - 1 \in 1 .. Len(down') /\ (i - 1) + 1 = i
    BY <1>2, <1>4, <2>1
  <2>3. down'[i - 1].kind = k
    BY <1>2, <2>1, <2>2
  <2>. QED  BY <2>2, <2>3 DEF Has
<1>5. ~SizeComes'
  <2>. SUFFICES ASSUME SizeComes'  PROVE FALSE
    OBVIOUS
  <2>1. down' # <<>> /\ down'[1].kind = "size"
    BY DEF SizeComes
  <2>2. 1 \in 1 .. Len(down')
    BY <1>2, <2>1, TailIs
  <2>3. down[1 + 1].kind = "size" /\ 1 + 1 \in 1 .. Len(down)
    BY <1>2, <2>1, <2>2
  <2>4. 1 + 1 = 1
    BY <2>3 DEF Control, WireOK
  <2>. QED  BY <2>4
<1>6. Has(kind)
  BY <1>2 DEF Has
<1>. QED  BY <1>1, <1>2, <1>3, <1>4, <1>5, <1>6

\* The rest of the wire keeps the order of the protocol.
LEMMA TakenWire ==
    ASSUME Control, NEW kind \in Kinds, Takes(kind), NEW i \in 1 .. Len(down')
    PROVE  LET k == down'[i].kind IN
           /\ k = "data" <=> down'[i].bytes # <<>>
           /\ k # "size"
           /\ k = "done" => /\ phase = "replay" /\ srv \notin {"accept", "replay", "final"}
                            /\ i = 1 /\ kind = "size"
           /\ k \in {"exit", "overflow"} =>
                 srv = "off" /\ i + 1 = Len(down') /\ down'[i + 1].kind \in Closes
           /\ k = "exit" => ~Alive
           /\ k \in Closes => srv = "off" /\ i = Len(down')
           /\ k = "close1000" => exited \/ kind = "exit" \/ (i > 1 /\ down'[i - 1].kind = "exit")
           /\ exited => k \in Closes
           /\ kind = "exit" => k \in Closes
<1>0. /\ down[1].kind = kind /\ Len(down) \in Nat \ {0} /\ Len(down') = Len(down) - 1
      /\ \A j \in 1 .. Len(down') : down'[j] = down[j + 1] /\ j + 1 \in 1 .. Len(down)
      /\ down # <<>>
  BY TakenIs
<1>1. PICK n \in Nat : n = Len(down') /\ n + 1 = Len(down)
  BY <1>0
<1>2. i \in 1 .. n /\ i + 1 # 1 /\ (i + 1 = 2 => i = 1) /\ (i + 1 = n + 1 => i = n) /\ (i + 2 = n + 1 => i + 1 = n)
      /\ (i + 1) + 1 = i + 2 /\ (i + 1) - 1 = i
  BY <1>1
<1>3. /\ LET k == down[i + 1].kind IN
         /\ k = "data" <=> down[i + 1].bytes # <<>>
         /\ k = "size" => i + 1 = 1
         /\ k = "done" => /\ phase = "replay" /\ srv \notin {"accept", "replay", "final"}
                          /\ i + 1 = 1 \/ (i + 1 = 2 /\ SizeComes)
         /\ k \in {"exit", "overflow"} =>
               srv = "off" /\ (i + 1) + 1 = Len(down) /\ down[(i + 1) + 1].kind \in Closes
         /\ k = "exit" => ~Alive
         /\ k \in Closes => srv = "off" /\ i + 1 = Len(down)
         /\ k = "close1000" => exited \/ (i + 1 > 1 /\ down[(i + 1) - 1].kind = "exit")
         /\ exited => k \in Closes
      /\ down'[i] = down[i + 1]
  BY <1>0 DEF Control, WireOK
<1>4. i + 1 = n => down'[i + 1] = down[i + 2]
  <2>. SUFFICES ASSUME i + 1 = n  PROVE down'[i + 1] = down[i + 2]
    OBVIOUS
  <2>. i + 1 \in 1 .. Len(down')
    BY <1>1
  <2>. QED  BY <1>0, <1>2
<1>5. i > 1 => down'[i - 1] = down[i]
  <2>. SUFFICES ASSUME i > 1  PROVE down'[i - 1] = down[i]
    OBVIOUS
  <2>. i - 1 \in 1 .. Len(down') /\ (i - 1) + 1 = i
    BY <1>1, <1>2
  <2>. QED  BY <1>0
<1>6. i = 1 => down[i].kind = kind
  BY <1>0
<1>7. kind = "exit" => down'[i].kind \in Closes
  <2>. SUFFICES ASSUME kind = "exit"  PROVE down'[i].kind \in Closes
    OBVIOUS
  <2>1. 1 \in 1 .. Len(down)
    BY <1>0
  <2>2. 1 + 1 = Len(down) /\ down[1 + 1].kind \in Closes
    BY <1>0, <2>1 DEF Control, WireOK
  <2>3. i = 1
    <3>1. n + 1 = 1 + 1
      BY <1>1, <2>2
    <3>2. n = 1 /\ i \in 1 .. n
      BY <1>1, <3>1
    <3>. QED  BY <3>2
  <2>. QED  BY <1>3, <2>2, <2>3
<1>8. i > 1 \/ i = 1
  BY <1>2
<1>9. /\ down'[i].kind = "done" => i = 1 /\ kind = "size"
      /\ down'[i].kind = "close1000" => exited \/ kind = "exit" \/ (i > 1 /\ down'[i - 1].kind = "exit")
      /\ down'[i].kind \in {"exit", "overflow"} =>
                 srv = "off" /\ i + 1 = Len(down') /\ down'[i + 1].kind \in Closes
      /\ down'[i].kind \in Closes => srv = "off" /\ i = Len(down')
  <2>1. down'[i].kind = "done" => i = 1 /\ kind = "size"
    BY <1>0, <1>2, <1>3 DEF SizeComes
  <2>2. down'[i].kind = "close1000" => exited \/ kind = "exit" \/ (i > 1 /\ down'[i - 1].kind = "exit")
    BY <1>2, <1>3, <1>5, <1>6, <1>8
  <2>3. down'[i].kind \in {"exit", "overflow"} =>
                 srv = "off" /\ i + 1 = Len(down') /\ down'[i + 1].kind \in Closes
    BY <1>1, <1>2, <1>3, <1>4
  <2>4. down'[i].kind \in Closes => srv = "off" /\ i = Len(down')
    BY <1>1, <1>2, <1>3
  <2>. QED  BY <2>1, <2>2, <2>3, <2>4
<1>. QED  BY <1>2, <1>3, <1>7, <1>9

\* Writes xterm has not parsed: whether one is to be acknowledged, whether one is of
\* an earlier connection, and what is so of all of them.
Asks(s) == \E i \in 1 .. Len(s) : Acknowledges(s[i])
Old(s) == \E i \in 1 .. Len(s) : s[i].stale
InOrder(s) ==
    /\ \A i \in 1 .. Len(s) : s[i].bytes # <<>>
    /\ \A i, j \in 1 .. Len(s) : i < j /\ s[j].stale => s[i].stale
    /\ \A i, j \in 1 .. Len(s) : Acknowledges(s[i]) /\ Acknowledges(s[j]) => i = j

\* A write after others.
LEMMA WriteMore ==
    ASSUME NEW s \in Seq(Writes), NEW w \in Writes, ~w.stale, w.bytes # <<>>,
           InOrder(s), ~Asks(s) \/ w.kind # "replay", NEW writes, writes = Append(s, w)
    PROVE  /\ writes \in Seq(Writes) /\ InOrder(writes)
           /\ Asks(writes) <=> Asks(s) \/ w.kind = "replay"
           /\ Old(writes) <=> Old(s)
<1>2. /\ writes \in Seq(Writes) /\ Len(s) \in Nat
      /\ Len(writes) = Len(s) + 1
      /\ \A i \in 1 .. Len(s) : writes[i] = s[i]
      /\ writes[Len(s) + 1] = w
  BY AppendIs
<1>4. PICK n \in Nat : n = Len(s)
  BY <1>2
<1>5. /\ \A i \in 1 .. n + 1 : i \in 1 .. n \/ i = n + 1
      /\ n + 1 \in 1 .. n + 1
      /\ \A i \in 1 .. n : i \in 1 .. n + 1
      /\ \A i \in 1 .. n + 1 : \A j \in 1 .. n + 1 : i < j => i \in 1 .. n
  OBVIOUS
<1>6. /\ Len(writes) = n + 1 /\ writes[n + 1] = w
      /\ \A i \in 1 .. n : writes[i] = s[i] /\ s[i].bytes # <<>>
      /\ Acknowledges(w) <=> w.kind = "replay"
  BY <1>2, <1>4 DEF Acknowledges, InOrder
<1>z. /\ \A i \in 1 .. n : \A j \in 1 .. n : i < j /\ s[j].stale => s[i].stale
      /\ \A i \in 1 .. n : \A j \in 1 .. n : Acknowledges(s[i]) /\ Acknowledges(s[j]) => i = j
  BY <1>4 DEF InOrder
<1>7. \A i \in 1 .. n + 1 : writes[i].bytes # <<>>
  BY <1>5, <1>6
<1>8. ASSUME NEW i \in 1 .. n + 1, NEW j \in 1 .. n + 1, i < j, writes[j].stale
      PROVE  writes[i].stale
  BY <1>5, <1>6, <1>8, <1>z
<1>9. (\E i \in 1 .. n + 1 : Acknowledges(writes[i]))
          <=> (\E i \in 1 .. n : Acknowledges(s[i])) \/ w.kind = "replay"
  <2>1. ASSUME NEW i \in 1 .. n + 1, Acknowledges(writes[i])
        PROVE  (\E k \in 1 .. n : Acknowledges(s[k])) \/ w.kind = "replay"
    BY <1>5, <1>6, <2>1
  <2>2. ASSUME NEW k \in 1 .. n, Acknowledges(s[k])  PROVE \E i \in 1 .. n + 1 : Acknowledges(writes[i])
    BY <1>5, <1>6, <2>2
  <2>3. ASSUME w.kind = "replay"  PROVE \E i \in 1 .. n + 1 : Acknowledges(writes[i])
    <3>. Acknowledges(writes[n + 1])
      BY <1>6, <2>3
    <3>. QED  BY <1>5
  <2>. QED  BY <2>1, <2>2, <2>3
<1>10. (\E i \in 1 .. n + 1 : writes[i].stale) <=> \E i \in 1 .. n : s[i].stale
  <2>1. ASSUME NEW i \in 1 .. n + 1, writes[i].stale  PROVE \E k \in 1 .. n : s[k].stale
    BY <1>5, <1>6, <2>1
  <2>2. ASSUME NEW k \in 1 .. n, s[k].stale  PROVE \E i \in 1 .. n + 1 : writes[i].stale
    <3>. k \in 1 .. n + 1 /\ writes[k] = s[k]
      BY <1>5, <1>6
    <3>. QED  BY <2>2
  <2>. QED  BY <2>1, <2>2
<1>11. ASSUME NEW i \in 1 .. n + 1, NEW j \in 1 .. n + 1, Acknowledges(writes[i]), Acknowledges(writes[j])
       PROVE  i = j
  BY <1>4, <1>5, <1>6, <1>11, <1>z DEF Asks
<1>12. InOrder(writes)
  BY <1>6, <1>7, <1>8, <1>11 DEF InOrder
<1>. QED  BY <1>2, <1>4, <1>6, <1>9, <1>10, <1>12 DEF Asks, Old

\* What holds of what xterm has to parse.
LEMMA XtermIs ==
    ASSUME Control
    PROVE  /\ xterm \in Seq(Writes) /\ InOrder(xterm) /\ unparsed \in Nat /\ Remains(xterm, unparsed)
           /\ Parsing <=> Asks(xterm)
           /\ Stale <=> Old(xterm)
  BY DEF Control, Typed, PaneTyped, PaneOK, OneFrame, InOrder, Parsing, Stale, Asks, Old

\* The same of what it has next.
LEMMA XtermNext ==
    ASSUME InOrder(xterm')
    PROVE  /\ Parsing' <=> Asks(xterm')
           /\ Stale' <=> Old(xterm')
           /\ \A i \in 1 .. Len(xterm') : xterm'[i].bytes # <<>>
           /\ \A i, j \in 1 .. Len(xterm') : i < j /\ xterm'[j].stale => xterm'[i].stale
           /\ (\A i, j \in 1 .. Len(xterm) : Acknowledges(xterm[i]) /\ Acknowledges(xterm[j]) => i = j)'
  BY DEF InOrder, Parsing, Stale, Asks, Old, Acknowledges

\* A write more for xterm.
LEMMA MoreToParse ==
    ASSUME Control, NEW w \in Writes, ~w.stale, w.bytes # <<>>, ~Parsing \/ w.kind # "replay",
           NEW writes, writes = Append(xterm, w)
    PROVE  /\ writes \in Seq(Writes) /\ Remains(writes, unparsed + Counts(w)) /\ InOrder(writes)
           /\ Asks(writes) <=> Parsing \/ w.kind = "replay"
           /\ Old(writes) <=> Stale
<1>1. xterm \in Seq(Writes) /\ unparsed \in Nat /\ Remains(xterm, unparsed) /\ InOrder(xterm)
      /\ (Parsing <=> Asks(xterm)) /\ (Stale <=> Old(xterm))
  BY XtermIs
<1>2. Remains(writes, unparsed + Counts(w))
  BY <1>1, RemainsAppend
<1>3. /\ writes \in Seq(Writes) /\ InOrder(writes)
      /\ Asks(writes) <=> Asks(xterm) \/ w.kind = "replay"
      /\ Old(writes) <=> Old(xterm)
  BY <1>1, WriteMore
<1>. QED  BY <1>1, <1>2, <1>3

\* The pane's steps that end the connection.
LEMMA PartsControl ==
    ASSUME Control,
           ConnectionLost \/ ReceiveClose \/ ReceiveOverflow
              \/ (ReceiveLive /\ Len(cqueue \o Head(down).bytes) > ClientMax)
    PROVE  Control'
<1>1. drops \in 0 .. MaxDrops /\ MaxDrops \in Nat /\ resync \in BOOLEAN
  BY LimitsAssumption DEF Control, Typed, LineTyped, PaneTyped
<1>2. CASE ConnectionLost
  <2>1. /\ conn = "open" /\ Leaves(1006) /\ drops' \in 0 .. MaxDrops /\ resync' = resync
        /\ UNCHANGED <<terminal, phase, replayDone, cqueue, exited, screen>>
    BY <1>1, <1>2 DEF ConnectionLost, pane
  <2>. QED  BY <1>1, <2>1, LeavesControl
<1>3. CASE ReceiveClose
  <2>1. PICK how \in {1000, 1002, 1013} : how = Code(Head(down).kind)
    BY <1>3 DEF ReceiveClose, Code
  <2>2. /\ conn = "open" /\ Leaves(how) /\ drops' = drops /\ resync' = resync
        /\ UNCHANGED <<terminal, phase, replayDone, cqueue, exited, screen>>
    BY <1>3, <2>1 DEF ReceiveClose, pane
  <2>3. ASSUME how = 1000  PROVE exited
    <3>1. Head(down).kind = "close1000"
      BY <1>3, <2>1, <2>3 DEF ReceiveClose, Code
    <3>3. down # <<>> /\ down \in Seq(Messages)
      BY <1>3 DEF ReceiveClose, Control, Typed, LineTyped
    <3>4. 1 \in 1 .. Len(down) /\ down[1].kind = "close1000"
      BY <3>1, <3>3, TailIs
    <3>. QED  BY <3>4 DEF Control, WireOK
  <2>. QED  BY <1>1, <2>2, <2>3, LeavesControl
<1>4. CASE ReceiveOverflow
  <2>1. /\ conn = "open" /\ Leaves(1000) /\ drops' = drops /\ resync' = TRUE
        /\ UNCHANGED <<terminal, phase, replayDone, cqueue, exited, screen>>
    BY <1>4 DEF ReceiveOverflow
  <2>. QED  BY <1>1, <2>1, LeavesControl
<1>5. CASE ReceiveLive /\ Len(cqueue \o Head(down).bytes) > ClientMax
  <2>1. /\ conn = "open" /\ Leaves(1000) /\ drops' = drops /\ resync' = TRUE
        /\ UNCHANGED <<terminal, phase, replayDone, cqueue, exited, screen>>
    BY <1>5 DEF ReceiveLive
  <2>. QED  BY <1>1, <2>1, LeavesControl
<1>. QED  BY <1>2, <1>3, <1>4, <1>5

\* _connect
LEMMA ConnectControl ==
    ASSUME Control, Connect \/ ClosedByOverflow
    PROVE  Control'
<1>1. /\ conn \in {"retry", "closed"} /\ ~exited /\ Connects
      /\ UNCHANGED <<terminal, viewer, replay, awaiting, buffer, sealed, pending, down, up,
                       exited, fed, drops>>
  BY DEF Connect, ClosedByOverflow, Control, PaneOK
<1>. QED  BY <1>1, ConnectsControl

\* term.reset() as the handshake begins
LEMMA ReceiveSizeControl ==
    ASSUME Control, ReceiveSize
    PROVE  Control'
<1>0. /\ UNCHANGED <<produced, ended, srv, replay, awaiting, buffer, sealed, pending, queue, overflowed,
                     up, conn, code, drops, phase, replayDone, cqueue, resync, exited, xterm, unparsed>>
      /\ Alive' = Alive /\ fed' = <<>> /\ Takes("size")
  BY DEF ReceiveSize, terminal, handler, viewer, pane, Alive
<1>1. "size" \in Kinds /\ "done" \in Kinds /\ "data" \in Kinds
  BY DEF Kinds
<1>2. /\ conn = "open" /\ down' \in Seq(Messages) /\ down[1].kind = "size" /\ ~SizeComes'
      /\ Has("done")' = Has("done") /\ Has("data")' = Has("data")
      /\ Len(down) \in Nat \ {0} /\ down # <<>>
  <2>1. /\ conn = "open" /\ down' \in Seq(Messages) /\ down[1].kind = "size" /\ ~SizeComes'
        /\ Len(down) \in Nat \ {0} /\ down # <<>>
    BY <1>0, <1>1, TakenIs
  <2>2. /\ Has("done")' => Has("done")
        /\ "done" # "size" /\ Has("done") => Has("done")'
    BY <1>0, <1>1, TakenIs
  <2>3. /\ Has("data")' => Has("data")
        /\ "data" # "size" /\ Has("data") => Has("data")'
    BY <1>0, <1>1, TakenIs
  <2>. QED  BY <2>1, <2>2, <2>3 DEF Has
<1>o. SizeComes /\ phase = "replay" /\ cqueue = <<>> /\ ~exited /\ ~Shown
  <2>1. SizeComes /\ phase = "replay" /\ cqueue = <<>>
    BY <1>2 DEF SizeComes, Control, WireOK
  <2>. QED  BY <2>1 DEF Control, PaneOK, Shown
<1>t. Byte' = Byte /\ Item' = Item /\ Messages' = Messages /\ Writes' = Writes
  BY <1>0, SameTypes
<1>3. Typed'
  <2>1. ServerTyped'
    BY <1>0 DEF Control, Typed, ServerTyped
  <2>2. QueuesTyped'
    BY <1>0, <1>t DEF Control, Typed, QueuesTyped
  <2>3. LineTyped'
    BY <1>0, <1>t, <1>2 DEF Control, Typed, LineTyped
  <2>4. PaneTyped'
    BY <1>0, <1>t, EmptySeq DEF Control, Typed, PaneTyped
  <2>. QED  BY <2>1, <2>2, <2>3, <2>4 DEF Typed
<1>4. Bounded'
  BY <1>0 DEF Control, Bounded
<1>5. Remains(xterm, unparsed)'
  BY <1>0 DEF Control
<1>6. HandlerOK'
  <2>1. srv # "accept"
    BY <1>2 DEF Control, HandlerOK
  <2>. QED  BY <1>0, <2>1 DEF Control, HandlerOK, Subscribed
<1>7. WireOK'
  <2>. SUFFICES ASSUME NEW i \in 1 .. Len(down')
                PROVE  LET k == down'[i].kind IN
                       /\ k = "data" <=> down'[i].bytes # <<>>
                       /\ k # "size"
                       /\ k = "done" => phase = "replay" /\ srv \notin {"accept", "replay", "final"} /\ i = 1
                       /\ k \in {"exit", "overflow"} =>
                             srv = "off" /\ i + 1 = Len(down') /\ down'[i + 1].kind \in Closes
                       /\ k = "exit" => ~Alive
                       /\ k \in Closes => srv = "off" /\ i = Len(down')
                       /\ k = "close1000" => (i > 1 /\ down'[i - 1].kind = "exit")
    BY <1>0, <1>o DEF WireOK
  <2>. QED  BY <1>0, <1>1, <1>o, TakenWire
<1>8. PaneOK'
  BY <1>0, <1>2 DEF Control, PaneOK
<1>p. Parsing' = Parsing /\ Stale' = Stale /\ Coming' = Coming /\ ~Shown'
  BY <1>0, <1>2 DEF Parsing, Stale, Coming, Shown
<1>9. OneFrame'
  <2>1. Coming => \A i, j \in 1 .. Len(down') : down'[i].kind = "data" /\ down'[j].kind = "data" => i = j
    <3>. SUFFICES ASSUME Coming, NEW i \in 1 .. Len(down'), NEW j \in 1 .. Len(down'),
                         down'[i].kind = "data", down'[j].kind = "data"
                  PROVE  i = j
      OBVIOUS
    <3>1. /\ down'[i] = down[i + 1] /\ i + 1 \in 1 .. Len(down)
          /\ down'[j] = down[j + 1] /\ j + 1 \in 1 .. Len(down)
      BY <1>0, <1>1, TakenIs
    <3>2. i + 1 = j + 1
      BY <3>1 DEF Control, OneFrame
    <3>. QED  BY <3>2
  <2>. QED  BY <1>0, <1>2, <1>p, <2>1 DEF Control, OneFrame, Quiet
<1>10. Fresh'
  BY <1>0, <1>2, <1>o, <1>p DEF Control, Fresh
<1>. QED  BY <1>3, <1>4, <1>5, <1>6, <1>7, <1>8, <1>9, <1>10 DEF Control

\* A frame of the replay.
LEMMA ReceiveReplayControl ==
    ASSUME Control, ReceiveReplay
    PROVE  Control'
<1>0. /\ UNCHANGED <<produced, ended, srv, replay, awaiting, buffer, sealed, pending, queue, overflowed,
                     up, conn, code, drops, phase, replayDone, cqueue, resync, exited, unparsed>>
      /\ Alive' = Alive /\ Takes("data") /\ phase = "replay"
      /\ xterm' = Append(xterm, Write("replay", Head(down).bytes))
      /\ fed' = fed \o Head(down).bytes
  BY DEF ReceiveReplay, terminal, handler, viewer, pane, Alive
<1>1. "size" \in Kinds /\ "done" \in Kinds /\ "data" \in Kinds
  BY DEF Kinds
<1>2. /\ conn = "open" /\ down' \in Seq(Messages) /\ down[1].kind = "data" /\ ~SizeComes'
      /\ Head(down) = down[1] /\ down[1] \in Messages
      /\ Len(down) \in Nat \ {0} /\ down # <<>> /\ Has("data")
      /\ (Has("done")' => Has("done"))
  BY <1>0, <1>1, TakenIs
<1>3. 1 \in 1 .. Len(down) /\ ~SizeComes
  BY <1>2 DEF SizeComes
<1>4. ~Has("done")
  <2>. SUFFICES ASSUME NEW i \in 1 .. Len(down), down[i].kind = "done"  PROVE FALSE
    BY DEF Has
  <2>. QED  BY <1>2, <1>3 DEF Control, WireOK
<1>5. Coming /\ ~Parsing /\ up = 0 /\ ~exited /\ ~replayDone /\ srv # "accept"
      /\ (srv \in {"replay", "final"} => awaiting)
  <2>1. Coming
    BY <1>0, <1>2, <1>4 DEF Coming
  <2>2. ~Parsing /\ up = 0
    BY <2>1 DEF Control, OneFrame, Typed, LineTyped
  <2>. QED  BY <1>0, <1>2, <2>1, <2>2 DEF Control, OneFrame, PaneOK, HandlerOK, Quiet
<1>6. ~Has("data")' /\ ~Coming' /\ ~Has("done")'
  <2>1. ASSUME NEW i \in 1 .. Len(down'), down'[i].kind = "data"  PROVE FALSE
    <3>1. down'[i] = down[i + 1] /\ i + 1 \in 1 .. Len(down)
      BY <1>0, <1>1, TakenIs
    <3>2. i + 1 = 1
      BY <1>2, <1>3, <1>5, <2>1, <3>1 DEF Control, OneFrame
    <3>. QED  BY <3>2
  <2>2. ~Has("data")'
    BY <2>1 DEF Has
  <2>. QED  BY <1>2, <1>4, <2>2 DEF Coming
<1>w. PICK w : w = Write("replay", Head(down).bytes)
  OBVIOUS
<1>7. /\ w \in Writes /\ w.kind = "replay" /\ ~w.stale /\ w.bytes = down[1].bytes /\ w.bytes # <<>>
      /\ Counts(w) = 0 /\ w.bytes \in Seq(Byte) /\ xterm' = Append(xterm, w)
  <2>1. down[1].bytes \in Seq(Byte)
    BY <1>2 DEF Messages
  <2>2. down[1].bytes # <<>>
    BY <1>2, <1>3 DEF Control, WireOK
  <2>. QED  BY <1>0, <1>2, <1>w, <2>1, <2>2 DEF Write, Writes, Counts
<1>8. /\ xterm' \in Seq(Writes) /\ Remains(xterm', unparsed + 0) /\ InOrder(xterm')
      /\ Parsing' /\ Stale' = Stale
  <2>1. /\ xterm' \in Seq(Writes) /\ Remains(xterm', unparsed + Counts(w)) /\ InOrder(xterm')
        /\ Asks(xterm') <=> Parsing \/ w.kind = "replay"
        /\ Old(xterm') <=> Stale
    BY <1>5, <1>7, MoreToParse
  <2>2. Parsing' /\ (Stale' <=> Stale)
    BY <1>7, <2>1, XtermNext
  <2>3. Stale' = Stale
    BY <2>2 DEF Stale
  <2>. QED  BY <1>7, <2>1, <2>2, <2>3
<1>9. fed \in Seq(Byte) /\ fed' \in Seq(Byte) /\ fed' # <<>> /\ unparsed \in Nat
  <2>1. fed \in Seq(Byte) /\ unparsed \in Nat
    BY DEF Control, Typed, PaneTyped
  <2>2. fed' = fed \o w.bytes /\ Len(w.bytes) \in Nat \ {0}
    BY <1>0, <1>2, <1>7, TailIs
  <2>3. fed' \in Seq(Byte) /\ Len(fed') = Len(fed) + Len(w.bytes) /\ Len(fed) \in Nat
    BY <1>7, <2>1, <2>2, ConcatIs
  <2>4. Len(fed') # 0
    BY <2>2, <2>3
  <2>. QED  BY <2>1, <2>3, <2>4, EmptySeq
<1>t. Byte' = Byte /\ Item' = Item /\ Messages' = Messages /\ Writes' = Writes
  BY <1>0, SameTypes
<1>10. Typed'
  <2>1. ServerTyped'
    BY <1>0 DEF Control, Typed, ServerTyped
  <2>2. QueuesTyped'
    BY <1>0, <1>t DEF Control, Typed, QueuesTyped
  <2>3. LineTyped'
    BY <1>0, <1>t, <1>2 DEF Control, Typed, LineTyped
  <2>4. PaneTyped'
    BY <1>0, <1>t, <1>8, <1>9 DEF Control, Typed, PaneTyped
  <2>. QED  BY <2>1, <2>2, <2>3, <2>4 DEF Typed
<1>11. Bounded'
  BY <1>0 DEF Control, Bounded
<1>12. Remains(xterm, unparsed)'
  BY <1>0, <1>8, <1>9
<1>13. HandlerOK'
  BY <1>0, <1>5 DEF Control, HandlerOK, Subscribed
<1>14. WireOK'
  <2>. SUFFICES ASSUME NEW i \in 1 .. Len(down')
                PROVE  LET k == down'[i].kind IN
                       /\ k = "data" <=> down'[i].bytes # <<>>
                       /\ k # "size" /\ k # "done"
                       /\ k \in {"exit", "overflow"} =>
                             srv = "off" /\ i + 1 = Len(down') /\ down'[i + 1].kind \in Closes
                       /\ k = "exit" => ~Alive
                       /\ k \in Closes => srv = "off" /\ i = Len(down')
                       /\ k = "close1000" => (i > 1 /\ down'[i - 1].kind = "exit")
    BY <1>0, <1>5 DEF WireOK
  <2>. QED  BY <1>0, <1>1, <1>5, TakenWire
<1>15. PaneOK'
  <2>1. srv \notin {"handover", "live"}
    BY <1>0, <1>4 DEF Control, PaneOK
  <2>2. /\ \A i \in 1 .. Len(xterm') : xterm'[i].bytes # <<>>
        /\ \A i, j \in 1 .. Len(xterm') : i < j /\ xterm'[j].stale => xterm'[i].stale
    BY <1>8 DEF InOrder
  <2>. QED  BY <1>0, <1>2, <2>1, <2>2 DEF Control, PaneOK
<1>16. OneFrame'
  <2>1. (\A i, j \in 1 .. Len(xterm) : Acknowledges(xterm[i]) /\ Acknowledges(xterm[j]) => i = j)'
    BY <1>8, XtermNext
  <2>. QED  BY <1>0, <1>5, <1>6, <1>8, <2>1 DEF OneFrame
<1>17. Fresh'
  <2>1. Shown'
    BY <1>2, <1>9 DEF Shown
  <2>. QED  BY <1>0, <1>6, <1>8, <2>1 DEF Fresh
<1>. QED  BY <1>10, <1>11, <1>12, <1>13, <1>14, <1>15, <1>16, <1>17 DEF Control

\* replay_done: all of the replay is parsed by then, so that the pane goes live at once.
LEMMA ReceiveDoneIs ==
    ASSUME Control, ReceiveDone
    PROVE  /\ Takes("done") /\ phase = "replay" /\ phase' = "live" /\ replayDone' = TRUE
           /\ UNCHANGED <<produced, ended, srv, replay, awaiting, buffer, sealed, pending, queue, overflowed,
                     up, conn, code, drops, cqueue, resync, exited, xterm, unparsed, fed>>
           /\ srv \notin {"accept", "replay", "final"} /\ Quiet /\ ~Stale /\ ~exited /\ Alive' = Alive
<1>1. Takes("done") /\ "done" \in Kinds
  BY DEF ReceiveDone, Kinds
<1>2. down[1].kind = "done" /\ Len(down) \in Nat \ {0} /\ Has("done") /\ conn = "open"
  BY <1>1, TakenIs
<1>3. phase = "replay" /\ srv \notin {"accept", "replay", "final"} /\ Quiet /\ ~Stale
  BY <1>2 DEF Control, WireOK, OneFrame, Fresh
<1>4. cqueue = <<>> /\ ~exited
  BY <1>3 DEF Control, PaneOK
<1>5. AllParsed(xterm)
  <2>1. DOMAIN xterm = 1 .. Len(xterm)
    BY LenProperties DEF Control, Typed, PaneTyped
  <2>. QED  BY <1>3, <2>1 DEF AllParsed, Quiet, Parsing
<1>6. GoLive(xterm)
  BY <1>5 DEF ReceiveDone
<1>7. cqueue' = cqueue /\ xterm' = xterm /\ unparsed' = unparsed /\ fed' = fed /\ phase' = "live"
  BY <1>4, <1>6 DEF GoLive, Pump
<1>8. UNCHANGED <<produced, ended, srv, replay, awaiting, buffer, sealed, pending, queue, overflowed,
                     up, conn, code, drops, resync, exited>> /\ replayDone' = TRUE /\ Alive' = Alive
  BY DEF ReceiveDone, terminal, handler, viewer, Alive
<1>. QED  BY <1>1, <1>3, <1>4, <1>7, <1>8

\* The wire once its first message is taken.
LEMMA WireLess ==
    ASSUME Control, NEW kind \in Kinds, Takes(kind), UNCHANGED <<srv, ended>>,
           phase' = phase \/ kind # "size", IF kind = "exit" THEN exited' ELSE exited' = exited
    PROVE  WireOK'
<1>1. Alive' = Alive
  BY DEF Alive
<1>2. ASSUME NEW i \in 1 .. Len(down')
      PROVE  LET k == down'[i].kind IN
             /\ k = "data" <=> down'[i].bytes # <<>>
             /\ k # "size"
             /\ k = "done" => /\ phase' = "replay" /\ srv \notin {"accept", "replay", "final"}
                              /\ i = 1
             /\ k \in {"exit", "overflow"} =>
                 srv = "off" /\ i + 1 = Len(down') /\ down'[i + 1].kind \in Closes
             /\ k = "exit" => ~Alive
             /\ k \in Closes => srv = "off" /\ i = Len(down')
             /\ k = "close1000" => exited' \/ (i > 1 /\ down'[i - 1].kind = "exit")
             /\ exited' => k \in Closes
  BY TakenWire
<1>. QED  BY <1>1, <1>2 DEF WireOK, Closes

\* replay_done is taken.
LEMMA ReceiveDoneControl ==
    ASSUME Control, ReceiveDone
    PROVE  Control'
<1>0. /\ Takes("done") /\ phase = "replay" /\ phase' = "live" /\ replayDone' = TRUE
      /\ UNCHANGED <<produced, ended, srv, replay, awaiting, buffer, sealed, pending, queue, overflowed,
                     up, conn, code, drops, cqueue, resync, exited, xterm, unparsed, fed>>
      /\ srv \notin {"accept", "replay", "final"} /\ Quiet /\ ~Stale /\ ~exited /\ Alive' = Alive
  BY ReceiveDoneIs
<1>1. "done" \in Kinds
  BY DEF Kinds
<1>2. conn = "open" /\ down' \in Seq(Messages) /\ ~SizeComes'
  BY <1>0, <1>1, TakenIs
<1>t. Byte' = Byte /\ Item' = Item /\ Messages' = Messages /\ Writes' = Writes
  BY <1>0, SameTypes
<1>3. Typed'
  <2>1. ServerTyped'
    BY <1>0 DEF Control, Typed, ServerTyped
  <2>2. QueuesTyped'
    BY <1>0, <1>t DEF Control, Typed, QueuesTyped
  <2>3. LineTyped'
    BY <1>0, <1>t, <1>2 DEF Control, Typed, LineTyped
  <2>4. PaneTyped'
    BY <1>0, <1>t DEF Control, Typed, PaneTyped
  <2>. QED  BY <2>1, <2>2, <2>3, <2>4 DEF Typed
<1>4. Bounded'
  BY <1>0 DEF Control, Bounded
<1>5. Remains(xterm, unparsed)'
  BY <1>0 DEF Control
<1>6. HandlerOK'
  BY <1>0 DEF Control, HandlerOK, Subscribed
<1>7. WireOK'
  BY <1>0, <1>1, WireLess
<1>8. PaneOK'
  BY <1>0, <1>2 DEF Control, PaneOK
<1>9. OneFrame'
  <2>1. Parsing' = Parsing /\ ~Coming'
    BY <1>0 DEF Parsing, Coming
  <2>. QED  BY <1>0, <2>1 DEF Control, OneFrame, Quiet
<1>10. Fresh'
  <2>1. ~Stale'
    BY <1>0 DEF Stale
  <2>. QED  BY <1>0, <2>1 DEF Fresh
<1>. QED  BY <1>3, <1>4, <1>5, <1>6, <1>7, <1>8, <1>9, <1>10 DEF Control

\* Live output that finds room.
LEMMA ReceiveLiveIs ==
    ASSUME Control, ReceiveLive, ~(Len(cqueue \o Head(down).bytes) > ClientMax)
    PROVE  /\ Takes("data") /\ phase = "live" /\ Pump(cqueue \o down[1].bytes, xterm, unparsed)
           /\ cqueue \o down[1].bytes \in Seq(Byte) /\ Len(cqueue \o down[1].bytes) <= ClientMax
           /\ down[1].bytes \in Seq(Byte)
           /\ UNCHANGED <<produced, ended, srv, replay, awaiting, buffer, sealed, pending, queue, overflowed,
                     up, conn, code, drops, phase, replayDone, resync, exited>>
           /\ ~exited /\ Alive' = Alive
<1>1. Takes("data") /\ "data" \in Kinds
  BY DEF ReceiveLive, Takes, Kinds
<1>2. down[1].kind = "data" /\ Head(down) = down[1] /\ down[1] \in Messages /\ Len(down) \in Nat \ {0}
      /\ conn = "open"
  BY <1>1, TakenIs
<1>3. phase # "replay" /\ ~exited
  BY <1>2 DEF ReceiveLive, Control, WireOK, Closes
<1>4. phase = "live"
  BY <1>2, <1>3 DEF Control, PaneOK
<1>5. Pump(cqueue \o down[1].bytes, xterm, unparsed)
  BY <1>2, <1>4 DEF ReceiveLive
<1>6. cqueue \in Seq(Byte) /\ down[1].bytes \in Seq(Byte)
  BY <1>2 DEF Control, Typed, PaneTyped, Messages
<1>7. cqueue \o down[1].bytes \in Seq(Byte) /\ Len(cqueue \o down[1].bytes) \in Nat
  BY <1>6, ConcatIs, LenProperties
<1>8. Len(cqueue \o down[1].bytes) <= ClientMax
  BY <1>2, <1>7, LimitsAssumption
<1>9. UNCHANGED <<produced, ended, srv, replay, awaiting, buffer, sealed, pending, queue, overflowed,
                     up, conn, code, drops, phase, replayDone, resync, exited>> /\ Alive' = Alive
  BY DEF ReceiveLive, terminal, handler, viewer, Alive
<1>. QED  BY <1>1, <1>3, <1>4, <1>5, <1>6, <1>7, <1>8, <1>9

\* What _pump leaves to parse, and of the screen.
LEMMA PumpLeaves ==
    ASSUME Control, NEW bytes \in Seq(Byte), NEW writes \in Seq(Writes), NEW behind \in Nat,
           InOrder(writes), Remains(writes, behind), behind < 2 * PendingMax,
           Pump(bytes, writes, behind)
    PROVE  /\ cqueue' \in Seq(Byte) /\ Len(cqueue') <= Len(bytes) /\ fed' \in Seq(Byte)
           /\ xterm' \in Seq(Writes) /\ unparsed' \in Nat /\ Remains(xterm', unparsed')
           /\ unparsed' < 2 * PendingMax /\ InOrder(xterm')
           /\ Asks(xterm') <=> Asks(writes)
           /\ Old(xterm') <=> Old(writes)
           /\ fed # <<>> => fed' # <<>>
<1>1. Typed /\ fed \in Seq(Byte)
  BY DEF Control, Typed, PaneTyped
<1>2. /\ cqueue' \in Seq(Byte) /\ Len(cqueue') <= Len(bytes) /\ fed' \in Seq(Byte)
      /\ xterm' \in Seq(Writes) /\ unparsed' \in Nat /\ Remains(xterm', unparsed')
      /\ unparsed' < 2 * PendingMax
  BY <1>1, PumpIs
<1>3. \/ cqueue' = bytes /\ xterm' = writes /\ fed' = fed
      \/ \E w \in Writes :
            /\ w.kind = "live" /\ ~w.stale /\ w.bytes # <<>>
            /\ xterm' = Append(writes, w) /\ fed' = fed \o w.bytes
  BY <1>1, PumpIs
<1>4. CASE xterm' = writes /\ fed' = fed
  BY <1>2, <1>4
<1>5. ASSUME NEW w \in Writes, w.kind = "live", ~w.stale, w.bytes # <<>>,
             xterm' = Append(writes, w), fed' = fed \o w.bytes
      PROVE  /\ InOrder(xterm') /\ (fed # <<>> => fed' # <<>>)
             /\ Asks(xterm') <=> Asks(writes)
             /\ Old(xterm') <=> Old(writes)
  <2>1. /\ InOrder(xterm')
        /\ Asks(xterm') <=> Asks(writes) \/ w.kind = "replay"
        /\ Old(xterm') <=> Old(writes)
    BY <1>5, WriteMore
  <2>2. fed # <<>> => fed' # <<>>
    <3>1. w.bytes \in Seq(Byte)
      BY DEF Writes
    <3>2. Len(fed') = Len(fed) + Len(w.bytes) /\ Len(fed) \in Nat /\ Len(w.bytes) \in Nat
      BY <1>1, <1>5, <3>1, ConcatIs
    <3>3. fed # <<>> => Len(fed) # 0
      BY <1>1, EmptySeq
    <3>4. fed' = <<>> => Len(fed') = 0
      BY EmptySeq
    <3>. QED  BY <3>2, <3>3, <3>4
  <2>. QED  BY <1>5, <2>1, <2>2
<1>. QED  BY <1>2, <1>3, <1>4, <1>5

\* Live output is queued, and some of the queue written.
LEMMA ReceiveLiveControl ==
    ASSUME Control, ReceiveLive, ~(Len(cqueue \o Head(down).bytes) > ClientMax)
    PROVE  Control'
<1>. PICK bytes : bytes = cqueue \o down[1].bytes
  OBVIOUS
<1>0. /\ Takes("data") /\ phase = "live" /\ Pump(bytes, xterm, unparsed)
      /\ bytes \in Seq(Byte) /\ Len(bytes) <= ClientMax
      /\ UNCHANGED <<produced, ended, srv, replay, awaiting, buffer, sealed, pending, queue, overflowed,
                     up, conn, code, drops, phase, replayDone, resync, exited>>
      /\ ~exited /\ Alive' = Alive
  BY ReceiveLiveIs
<1>1. "data" \in Kinds /\ "done" \in Kinds
  BY DEF Kinds
<1>2. conn = "open" /\ down' \in Seq(Messages) /\ ~SizeComes' /\ (Has("done")' => Has("done")) /\ down # <<>>
      /\ down[1].kind = "data"
  BY <1>0, <1>1, TakenIs
<1>x. /\ xterm \in Seq(Writes) /\ InOrder(xterm) /\ unparsed \in Nat /\ Remains(xterm, unparsed)
      /\ unparsed < 2 * PendingMax
      /\ Parsing <=> Asks(xterm)
      /\ Stale <=> Old(xterm)
  BY XtermIs DEF Control, Bounded
<1>s. /\ cqueue' \in Seq(Byte) /\ Len(cqueue') <= Len(bytes) /\ fed' \in Seq(Byte)
      /\ xterm' \in Seq(Writes) /\ unparsed' \in Nat /\ Remains(xterm', unparsed')
      /\ unparsed' < 2 * PendingMax /\ InOrder(xterm')
      /\ Asks(xterm') <=> Asks(xterm)
      /\ Old(xterm') <=> Old(xterm)
  BY <1>0, <1>x, PumpLeaves
<1>y. (Parsing' <=> Parsing) /\ (Stale' <=> Stale)
  BY <1>x, <1>s, XtermNext
<1>o. /\ \A i, j \in 1 .. Len(xterm') : i < j /\ xterm'[j].stale => xterm'[i].stale
      /\ \A i \in 1 .. Len(xterm') : xterm'[i].bytes # <<>>
  BY <1>s DEF InOrder
<1>q. (\A i, j \in 1 .. Len(xterm) : Acknowledges(xterm[i]) /\ Acknowledges(xterm[j]) => i = j)'
  BY <1>s, XtermNext
<1>t. Byte' = Byte /\ Item' = Item /\ Messages' = Messages /\ Writes' = Writes
  BY <1>0, SameTypes
<1>3. Typed'
  <2>1. ServerTyped'
    BY <1>0 DEF Control, Typed, ServerTyped
  <2>2. QueuesTyped'
    BY <1>0, <1>t DEF Control, Typed, QueuesTyped
  <2>3. LineTyped'
    BY <1>0, <1>t, <1>2 DEF Control, Typed, LineTyped
  <2>4. PaneTyped'
    BY <1>0, <1>t, <1>s DEF Control, Typed, PaneTyped
  <2>. QED  BY <2>1, <2>2, <2>3, <2>4 DEF Typed
<1>4. Bounded'
  <2>1. Len(cqueue') <= ClientMax
    <3>1. PICK m \in Nat, n \in Nat, c \in Nat : m = Len(bytes) /\ n = Len(cqueue') /\ c = ClientMax
      BY <1>0, <1>s, LenProperties, LimitsAssumption
    <3>. QED  BY <1>0, <1>s, <3>1
  <2>. QED  BY <1>0, <1>s, <2>1 DEF Control, Bounded
<1>5. Remains(xterm, unparsed)'
  BY <1>s
<1>6. HandlerOK'
  <2>1. srv # "accept"
    BY <1>2 DEF Control, HandlerOK
  <2>. QED  BY <1>0, <2>1 DEF Control, HandlerOK, Subscribed
<1>7. WireOK'
  BY <1>0, <1>1, WireLess
<1>8. PaneOK'
  BY <1>0, <1>2, <1>o DEF Control, PaneOK
<1>9. OneFrame'
  <2>1. Quiet /\ ~Coming'
    BY <1>0 DEF Coming, Control, OneFrame, PaneOK
  <2>. QED  BY <1>0, <1>y, <1>q, <2>1 DEF Quiet, OneFrame
<1>10. Fresh'
  <2>1. ~Stale
    BY <1>0, <1>2 DEF Control, Fresh
  <2>. QED  BY <1>0, <1>y, <2>1 DEF Fresh
<1>. QED  BY <1>3, <1>4, <1>5, <1>6, <1>7, <1>8, <1>9, <1>10 DEF Control

\* _onExit hands on whatever was queued.
LEMMA ShowExitIs ==
    ASSUME Control, ShowExit
    PROVE  /\ exited' = TRUE /\ phase' = "idle" /\ cqueue' = <<>> /\ fed' \in Seq(Byte)
           /\ unparsed' = unparsed /\ xterm' \in Seq(Writes) /\ Remains(xterm', unparsed)
           /\ InOrder(xterm')
           /\ Asks(xterm') <=> Parsing
           /\ Old(xterm') <=> Stale
<1>1. /\ cqueue \in Seq(Byte) /\ fed \in Seq(Byte) /\ xterm \in Seq(Writes) /\ unparsed \in Nat
      /\ Remains(xterm, unparsed) /\ InOrder(xterm)
      /\ Parsing <=> Asks(xterm)
      /\ Stale <=> Old(xterm)
  BY XtermIs DEF Control, Typed, PaneTyped
<1>2. /\ exited' = TRUE /\ phase' = "idle" /\ cqueue' = <<>> /\ unparsed' = unparsed
      /\ fed' = fed \o cqueue
      /\ xterm' = IF cqueue = <<>> THEN xterm ELSE Append(xterm, Write("flush", cqueue))
  BY DEF ShowExit
<1>3. fed' \in Seq(Byte)
  BY <1>1, <1>2, ConcatIs
<1>4. CASE cqueue = <<>>
  BY <1>1, <1>2, <1>3, <1>4
<1>5. CASE cqueue # <<>>
  <2>w. PICK w : w = Write("flush", cqueue)
    OBVIOUS
  <2>1. /\ w \in Writes /\ w.kind = "flush" /\ ~w.stale /\ w.bytes # <<>> /\ Counts(w) = 0
        /\ xterm' = Append(xterm, w) /\ w.kind # "replay"
    BY <1>1, <1>2, <1>5, <2>w DEF Write, Writes, Counts
  <2>2. /\ xterm' \in Seq(Writes) /\ Remains(xterm', unparsed + Counts(w)) /\ InOrder(xterm')
        /\ Asks(xterm') <=> Parsing \/ w.kind = "replay"
        /\ Old(xterm') <=> Stale
    BY <2>1, MoreToParse
  <2>3. Remains(xterm', unparsed)
    BY <1>1, <2>1, <2>2
  <2>. QED  BY <1>2, <1>3, <2>1, <2>2, <2>3
<1>. QED  BY <1>4, <1>5

\* The pane ends: from the wire, or as the session list says the session is gone.
LEMMA ExitControl ==
    ASSUME Control, ShowExit, ~Alive, srv = "off", ~exited, WireOK',
           UNCHANGED <<terminal, handler, viewer, up, replayDone, resync, code, drops>>,
           conn \in {"open", "closed"}, conn' = conn \/ (conn = "closed" /\ conn' = "off"),
           down' \in Seq(Messages), conn = "closed" => down' = <<>>,
           Has("done")' => Has("done"), Has("data")' => Has("data")
    PROVE  Control'
<1>0. /\ UNCHANGED <<produced, ended, srv, replay, awaiting, buffer, sealed, pending, queue, overflowed,
                     up, code, drops, replayDone, resync>>
      /\ Alive' = Alive
  BY DEF terminal, handler, viewer, Alive
<1>s. /\ exited' = TRUE /\ phase' = "idle" /\ cqueue' = <<>> /\ fed' \in Seq(Byte)
      /\ unparsed' = unparsed /\ xterm' \in Seq(Writes) /\ Remains(xterm', unparsed)
      /\ InOrder(xterm')
      /\ Asks(xterm') <=> Parsing
      /\ Old(xterm') <=> Stale
  BY ShowExitIs
<1>y. (Parsing' <=> Parsing) /\ (Stale' <=> Stale)
  BY <1>s, XtermNext
<1>o. /\ \A i, j \in 1 .. Len(xterm') : i < j /\ xterm'[j].stale => xterm'[i].stale
      /\ \A i \in 1 .. Len(xterm') : xterm'[i].bytes # <<>>
  BY <1>s DEF InOrder
<1>q. (\A i, j \in 1 .. Len(xterm) : Acknowledges(xterm[i]) /\ Acknowledges(xterm[j]) => i = j)'
  BY <1>s, XtermNext
<1>t. Byte' = Byte /\ Item' = Item /\ Messages' = Messages /\ Writes' = Writes
  BY <1>0, SameTypes
<1>3. Typed'
  <2>1. ServerTyped'
    BY <1>0 DEF Control, Typed, ServerTyped
  <2>2. QueuesTyped'
    BY <1>0, <1>t DEF Control, Typed, QueuesTyped
  <2>3. LineTyped'
    BY <1>0, <1>t DEF Control, Typed, LineTyped
  <2>4. PaneTyped'
    <3>1. exited' \in BOOLEAN /\ cqueue' \in Seq(Byte)
      BY <1>s, EmptySeq
    <3>. QED  BY <1>0, <1>t, <1>s, <3>1 DEF Control, Typed, PaneTyped
  <2>. QED  BY <2>1, <2>2, <2>3, <2>4 DEF Typed
<1>4. Bounded'
  <2>1. Len(cqueue') <= ClientMax
    BY <1>s, EmptySeq, LimitsAssumption
  <2>. QED  BY <1>0, <1>s, <2>1 DEF Control, Bounded
<1>5. Remains(xterm, unparsed)'
  BY <1>s
<1>6. HandlerOK'
  BY <1>0 DEF Control, HandlerOK, Subscribed
<1>8. PaneOK'
  BY <1>0, <1>s, <1>o DEF Control, PaneOK
<1>9. OneFrame'
  BY <1>0, <1>s, <1>y, <1>q DEF Control, OneFrame, Quiet, Coming
<1>10. Fresh'
  BY <1>0, <1>s, <1>y DEF Control, Fresh
<1>. QED  BY <1>3, <1>4, <1>5, <1>6, <1>8, <1>9, <1>10 DEF Control

\* The exit is taken.
LEMMA ReceiveExitControl ==
    ASSUME Control, ReceiveExit
    PROVE  Control'
<1>1. /\ Takes("exit") /\ ShowExit
      /\ UNCHANGED <<terminal, handler, viewer, up, conn, replayDone, resync, code, drops>>
      /\ "exit" \in Kinds /\ "done" \in Kinds /\ "data" \in Kinds
  BY DEF ReceiveExit, Kinds
<1>2. /\ conn = "open" /\ down' \in Seq(Messages) /\ down[1].kind = "exit" /\ Len(down) \in Nat \ {0}
      /\ (Has("done")' => Has("done")) /\ (Has("data")' => Has("data"))
  BY <1>1, TakenIs
<1>3. 1 \in 1 .. Len(down)
  BY <1>2
<1>4. srv = "off" /\ ~Alive /\ ~exited
  BY <1>2, <1>3 DEF Control, WireOK, Closes
<1>5. exited' /\ UNCHANGED <<srv, ended>>
  BY <1>1 DEF ShowExit, terminal, handler
<1>6. WireOK'
  <2>. "exit" # "size"
    OBVIOUS
  <2>. QED  BY <1>1, <1>4, <1>5, WireLess
<1>. QED  BY <1>1, <1>2, <1>4, <1>6, ExitControl

\* _closed
LEMMA ClosedControl ==
    ASSUME Control, ClosedAfterExit \/ ClosedOtherwise
    PROVE  Control'
<1>0. conn = "closed" /\ down = <<>> /\ srv = "off" /\ Len(down) = 0
  BY EmptySeq DEF ClosedAfterExit, ClosedOtherwise, Control, PaneOK, HandlerOK
<1>1. CASE /\ ClosedOtherwise /\ ~Alive /\ conn' = "off" /\ ShowExit
           /\ UNCHANGED <<replayDone, resync>>
  <2>1. UNCHANGED <<terminal, handler, viewer, down, up, code, drops>> /\ ~exited
    BY <1>1 DEF ClosedOtherwise
  <2>2. WireOK'
    BY <1>0, <2>1 DEF WireOK
  <2>3. /\ down' \in Seq(Messages) /\ down' = <<>>
        /\ (Has("done")' => Has("done")) /\ (Has("data")' => Has("data"))
    BY <1>0, <2>1, EmptySeq DEF Has
  <2>. QED  BY <1>0, <1>1, <2>1, <2>2, <2>3, ExitControl
<1>2. CASE /\ conn' \in {"retry", "off"} /\ (conn' = "off" \/ ~exited)
           /\ UNCHANGED <<terminal, handler, viewer, down, up, pane, screen, code, drops>>
  <2>0. /\ UNCHANGED <<produced, ended, srv, replay, awaiting, buffer, sealed, pending, queue, overflowed,
                     down, up, code, drops, phase, replayDone, cqueue, resync, exited, xterm, unparsed, fed>>
        /\ Alive' = Alive
    BY <1>2 DEF terminal, handler, viewer, pane, screen, Alive
  <2>t. Byte' = Byte /\ Item' = Item /\ Messages' = Messages /\ Writes' = Writes
    BY <2>0, SameTypes
  <2>1. Typed'
    <3>1. ServerTyped'
      BY <2>0 DEF Control, Typed, ServerTyped
    <3>2. QueuesTyped'
      BY <2>0, <2>t DEF Control, Typed, QueuesTyped
    <3>3. LineTyped'
      BY <1>2, <2>0, <2>t DEF Control, Typed, LineTyped
    <3>4. PaneTyped'
      BY <2>0, <2>t DEF Control, Typed, PaneTyped
    <3>. QED  BY <3>1, <3>2, <3>3, <3>4 DEF Typed
  <2>2. Bounded'
    BY <2>0 DEF Control, Bounded
  <2>3. Remains(xterm, unparsed)'
    BY <2>0 DEF Control
  <2>4. HandlerOK'
    BY <1>0, <2>0 DEF Control, HandlerOK, Subscribed
  <2>5. WireOK'
    BY <1>0, <2>0 DEF WireOK
  <2>6. PaneOK'
    BY <1>0, <1>2, <2>0 DEF Control, PaneOK
  <2>7. Parsing' = Parsing /\ Coming' = Coming /\ Has("done")' = Has("done")
    BY <2>0 DEF Parsing, Coming, Has
  <2>8. OneFrame'
    BY <1>0, <2>0, <2>7 DEF Control, OneFrame, Quiet
  <2>9. Fresh'
    BY <1>2 DEF Fresh
  <2>. QED  BY <2>1, <2>2, <2>3, <2>4, <2>5, <2>6, <2>8, <2>9 DEF Control
<1>. QED  BY <1>1, <1>2 DEF ClosedAfterExit, ClosedOtherwise

\* xterm parses its next write; that never makes a pane live.
LEMMA XtermParsesIs ==
    ASSUME Control, XtermParses
    PROVE  /\ xterm # <<>> /\ xterm[1] \in Writes
           /\ UNCHANGED <<produced, ended, srv, replay, awaiting, buffer, sealed, pending, queue, overflowed,
                     down, conn, code, drops, phase, replayDone, resync, exited>>
           /\ up' = IF Acknowledges(xterm[1]) /\ conn = "open" THEN up + 1 ELSE up
           /\ \/ /\ phase = "live" \/ exited
                 /\ xterm[1].kind = "live" /\ ~xterm[1].stale
                 /\ Pump(cqueue, Tail(xterm), unparsed - Counts(xterm[1]))
              \/ /\ xterm' = Tail(xterm) /\ unparsed' = unparsed - Counts(xterm[1])
                 /\ UNCHANGED <<cqueue, fed>>
<1>1. /\ xterm # <<>> /\ xterm \in Seq(Writes) /\ unparsed \in Nat
  BY DEF XtermParses, Control, Typed, PaneTyped
<1>2. Head(xterm) = xterm[1] /\ xterm[1] \in Writes /\ Len(xterm) \in Nat \ {0}
  BY <1>1, TailIs
<1>3. ~(Acknowledges(Head(xterm)) /\ replayDone)
  <2>. SUFFICES ASSUME Acknowledges(xterm[1]), replayDone  PROVE FALSE
    BY <1>2
  <2>1. 1 \in 1 .. Len(xterm)
    BY <1>2
  <2>. QED  BY <2>1 DEF Control, OneFrame, Quiet, Parsing
<1>4. unparsed - Counts(xterm[1]) = IF xterm[1].kind = "live" /\ ~xterm[1].stale
                                    THEN unparsed - Len(xterm[1].bytes) ELSE unparsed
  BY <1>1 DEF Counts
<1>5. /\ UNCHANGED <<produced, ended, srv, replay, awaiting, buffer, sealed, pending, queue, overflowed,
                     down, conn, code, drops, replayDone, resync, exited>>
      /\ up' = IF Acknowledges(xterm[1]) /\ conn = "open" THEN up + 1 ELSE up
  BY <1>2 DEF XtermParses, terminal, handler, viewer
<1>6. /\ UNCHANGED phase
      /\ IF xterm[1].kind = "live" /\ ~xterm[1].stale /\ (phase = "live" \/ exited)
         THEN Pump(cqueue, Tail(xterm), unparsed - Counts(xterm[1]))
         ELSE xterm' = Tail(xterm) /\ unparsed' = unparsed - Counts(xterm[1]) /\ UNCHANGED <<cqueue, fed>>
  BY <1>2, <1>3, <1>4 DEF XtermParses
<1>. QED  BY <1>1, <1>2, <1>5, <1>6

\* What xterm has left to parse.
LEMMA ParsedIs ==
    ASSUME Control, xterm # <<>>, NEW rest, rest = Tail(xterm)
    PROVE  /\ rest \in Seq(Writes) /\ InOrder(rest)
           /\ unparsed - Counts(xterm[1]) \in Nat /\ unparsed - Counts(xterm[1]) < 2 * PendingMax
           /\ Remains(rest, unparsed - Counts(xterm[1]))
           /\ Asks(rest) <=> Parsing /\ ~Acknowledges(xterm[1])
           /\ Old(rest) => Stale /\ xterm[1].stale
<1>1. /\ xterm \in Seq(Writes) /\ unparsed \in Nat /\ Remains(xterm, unparsed) /\ unparsed < 2 * PendingMax
      /\ \A i \in 1 .. Len(xterm) : xterm[i].bytes # <<>>
      /\ \A i \in 1 .. Len(xterm) : \A j \in 1 .. Len(xterm) : i < j /\ xterm[j].stale => xterm[i].stale
      /\ \A i \in 1 .. Len(xterm) : \A j \in 1 .. Len(xterm) :
            Acknowledges(xterm[i]) /\ Acknowledges(xterm[j]) => i = j
  BY DEF Control, Typed, PaneTyped, PaneOK, OneFrame, Bounded
<1>2. /\ rest \in Seq(Writes) /\ Len(rest) = Len(xterm) - 1 /\ Len(xterm) \in Nat \ {0}
      /\ \A i \in 1 .. Len(rest) : rest[i] = xterm[i + 1]
      /\ xterm[1] \in Writes
  BY <1>1, TailIs
<1>3. PICK n \in Nat : n = Len(rest) /\ n + 1 = Len(xterm)
  <2>. Len(rest) \in Nat /\ Len(rest) + 1 = Len(xterm)
    BY <1>2
  <2>. QED  OBVIOUS
<1>4. /\ 1 \in 1 .. n + 1 /\ \A i \in 1 .. n : i + 1 \in 1 .. n + 1 /\ 1 < i + 1 /\ i + 1 # 1
      /\ \A i \in 1 .. n : \A j \in 1 .. n : (i < j => i + 1 < j + 1) /\ (i + 1 = j + 1 => i = j)
      /\ \A i \in 1 .. n + 1 : i = 1 \/ (i - 1 \in 1 .. n /\ (i - 1) + 1 = i)
  OBVIOUS
<1>5. \A i \in 1 .. n : rest[i] = xterm[i + 1]
  BY <1>2, <1>3
<1>6. /\ unparsed - Counts(xterm[1]) \in Nat /\ unparsed - Counts(xterm[1]) < 2 * PendingMax
      /\ Remains(rest, unparsed - Counts(xterm[1]))
  <2>1. /\ unparsed - Counts(xterm[1]) \in Nat
        /\ Remains(rest, unparsed - Counts(xterm[1]))
    BY <1>1, RemainsTail
  <2>2. Counts(xterm[1]) \in Nat
    <3>. xterm[1].bytes \in Seq(Byte)
      BY <1>2 DEF Writes
    <3>. QED  BY LenProperties DEF Counts
  <2>. QED  BY <1>1, <2>1, <2>2, LimitsAssumption
<1>7. \A i \in 1 .. n : rest[i].bytes # <<>>
  BY <1>1, <1>3, <1>4, <1>5
<1>8. ASSUME NEW i \in 1 .. n, NEW j \in 1 .. n, i < j, rest[j].stale  PROVE rest[i].stale
  <2>1. i + 1 \in 1 .. Len(xterm) /\ j + 1 \in 1 .. Len(xterm) /\ i + 1 < j + 1
    BY <1>3, <1>4, <1>8
  <2>. QED  BY <1>1, <1>5, <1>8, <2>1
<1>9. ASSUME NEW i \in 1 .. n, NEW j \in 1 .. n, Acknowledges(rest[i]), Acknowledges(rest[j])  PROVE i = j
  <2>1. i + 1 \in 1 .. Len(xterm) /\ j + 1 \in 1 .. Len(xterm)
    BY <1>3, <1>4
  <2>2. i + 1 = j + 1
    BY <1>1, <1>5, <1>9, <2>1
  <2>. QED  BY <2>2
<1>10. ASSUME NEW i \in 1 .. n, Acknowledges(rest[i])  PROVE Parsing /\ ~Acknowledges(xterm[1])
  <2>1. i + 1 \in 1 .. Len(xterm) /\ 1 \in 1 .. Len(xterm) /\ i + 1 # 1
    BY <1>3, <1>4
  <2>. QED  BY <1>1, <1>5, <1>10, <2>1 DEF Parsing
<1>11. ASSUME Parsing, ~Acknowledges(xterm[1])  PROVE \E i \in 1 .. n : Acknowledges(rest[i])
  <2>1. PICK i \in 1 .. n + 1 : Acknowledges(xterm[i])
    BY <1>3, <1>11 DEF Parsing
  <2>2. i - 1 \in 1 .. n /\ (i - 1) + 1 = i
    BY <1>4, <1>11, <2>1
  <2>. QED  BY <1>5, <2>1, <2>2
<1>12. ASSUME NEW i \in 1 .. n, rest[i].stale  PROVE Stale /\ xterm[1].stale
  <2>1. i + 1 \in 1 .. Len(xterm) /\ 1 \in 1 .. Len(xterm) /\ 1 < i + 1
    BY <1>3, <1>4
  <2>. QED  BY <1>1, <1>5, <1>12, <2>1 DEF Stale
<1>13. InOrder(rest)
  BY <1>3, <1>7, <1>8, <1>9 DEF InOrder
<1>. QED  BY <1>2, <1>3, <1>6, <1>10, <1>11, <1>12, <1>13 DEF Asks, Old

\* xterm has parsed a write.
LEMMA XtermParsesControl ==
    ASSUME Control, XtermParses
    PROVE  Control'
<1>0. /\ xterm # <<>> /\ xterm[1] \in Writes
      /\ UNCHANGED <<produced, ended, srv, replay, awaiting, buffer, sealed, pending, queue, overflowed,
                down, conn, code, drops, phase, replayDone, resync, exited>>
      /\ up' = IF Acknowledges(xterm[1]) /\ conn = "open" THEN up + 1 ELSE up
      /\ \/ /\ phase = "live" \/ exited
            /\ xterm[1].kind = "live" /\ ~xterm[1].stale
            /\ Pump(cqueue, Tail(xterm), unparsed - Counts(xterm[1]))
         \/ /\ xterm' = Tail(xterm) /\ unparsed' = unparsed - Counts(xterm[1])
            /\ UNCHANGED <<cqueue, fed>>
  BY XtermParsesIs
<1>a. Alive' = Alive
  BY <1>0 DEF Alive
<1>r. PICK rest : rest = Tail(xterm)
  OBVIOUS
<1>1. /\ rest \in Seq(Writes) /\ InOrder(rest)
      /\ unparsed - Counts(xterm[1]) \in Nat /\ unparsed - Counts(xterm[1]) < 2 * PendingMax
      /\ Remains(rest, unparsed - Counts(xterm[1]))
      /\ Asks(rest) <=> Parsing /\ ~Acknowledges(xterm[1])
      /\ Old(rest) => Stale /\ xterm[1].stale
  BY <1>0, <1>r, ParsedIs
<1>3. /\ cqueue \in Seq(Byte) /\ fed \in Seq(Byte) /\ Len(cqueue) <= ClientMax /\ Len(cqueue) \in Nat
      /\ up \in 0 .. 1 /\ ClientMax \in Nat
  BY LenProperties, LimitsAssumption DEF Control, Typed, PaneTyped, LineTyped, Bounded
<1>4. /\ cqueue' \in Seq(Byte) /\ Len(cqueue') <= Len(cqueue) /\ fed' \in Seq(Byte)
      /\ xterm' \in Seq(Writes) /\ unparsed' \in Nat /\ Remains(xterm', unparsed')
      /\ unparsed' < 2 * PendingMax /\ InOrder(xterm')
      /\ Asks(xterm') <=> Asks(rest)
      /\ Old(xterm') <=> Old(rest)
      /\ fed # <<>> => fed' # <<>>
  <2>1. CASE Pump(cqueue, Tail(xterm), unparsed - Counts(xterm[1]))
    BY <1>r, <1>1, <1>3, <2>1, PumpLeaves
  <2>2. CASE xterm' = Tail(xterm) /\ unparsed' = unparsed - Counts(xterm[1]) /\ UNCHANGED <<cqueue, fed>>
    BY <1>r, <1>1, <1>3, <2>2
  <2>. QED  BY <1>0, <2>1, <2>2
<1>6. /\ \A i, j \in 1 .. Len(xterm') : i < j /\ xterm'[j].stale => xterm'[i].stale
      /\ \A i \in 1 .. Len(xterm') : xterm'[i].bytes # <<>>
  BY <1>4 DEF InOrder
<1>7. (Parsing' <=> Parsing /\ ~Acknowledges(xterm[1])) /\ (Stale' => Stale /\ xterm[1].stale)
  BY <1>1, <1>4, XtermNext
<1>8. Shown => Shown'
  <2>2. SizeComes' = SizeComes
    BY <1>0 DEF SizeComes
  <2>. QED  BY <1>4, <2>2 DEF Shown
<1>9. phase = "replay" => fed' = fed /\ cqueue' = cqueue
  BY <1>0 DEF Control, PaneOK
<1>10. Acknowledges(xterm[1]) => Parsing /\ up = 0
  <2>1. Acknowledges(xterm[1]) => Parsing
    <3>. 1 \in 1 .. Len(xterm)
      BY <1>0, TailIs DEF Control, Typed, PaneTyped
    <3>. QED  BY DEF Parsing
  <2>. QED  BY <1>3, <2>1 DEF Control, OneFrame
<1>11. up' \in 0 .. 1 /\ (conn # "open" => up' = 0)
  BY <1>0, <1>3, <1>10 DEF Control, PaneOK
<1>t. Byte' = Byte /\ Item' = Item /\ Messages' = Messages /\ Writes' = Writes
  BY <1>0, SameTypes
<1>12. Typed'
  <2>1. ServerTyped'
    BY <1>0 DEF Control, Typed, ServerTyped
  <2>2. QueuesTyped'
    BY <1>0, <1>t DEF Control, Typed, QueuesTyped
  <2>3. LineTyped'
    BY <1>0, <1>t, <1>11 DEF Control, Typed, LineTyped
  <2>4. PaneTyped'
    BY <1>0, <1>t, <1>4 DEF Control, Typed, PaneTyped
  <2>. QED  BY <2>1, <2>2, <2>3, <2>4 DEF Typed
<1>13. Bounded'
  <2>1. Len(cqueue') \in Nat
    BY <1>4, LenProperties
  <2>2. Len(cqueue') <= ClientMax
    BY <1>3, <1>4, <2>1
  <2>. QED  BY <1>0, <1>a, <1>4, <2>2 DEF Control, Bounded
<1>14. Remains(xterm, unparsed)'
  BY <1>4
<1>15. HandlerOK'
  BY <1>0, <1>a DEF Control, HandlerOK, Subscribed
<1>16. WireOK'
  BY <1>0, <1>a, <1>9 DEF Control, WireOK, SizeComes
<1>17. PaneOK'
  <2>1. Has("done")' = Has("done")
    BY <1>0 DEF Has
  <2>2. cqueue = <<>> => cqueue' = <<>>
    <3>1. Len(cqueue') \in Nat
      BY <1>4, LenProperties
    <3>2. cqueue = <<>> => Len(cqueue') = 0
      BY <1>3, <1>4, <3>1, EmptySeq
    <3>. QED  BY <1>4, <3>2, EmptySeq
  <2>. QED  BY <1>0, <1>a, <1>6, <1>11, <2>1, <2>2 DEF Control, PaneOK
<1>18. OneFrame'
  <2>1. Coming' = Coming /\ Has("done")' = Has("done") /\ Has("data")' = Has("data")
    BY <1>0 DEF Coming, Has
  <2>2. (\A i, j \in 1 .. Len(xterm) : Acknowledges(xterm[i]) /\ Acknowledges(xterm[j]) => i = j)'
    BY <1>4, XtermNext
  <2>3. Quiet => Quiet'
    BY <1>0, <1>7, <1>10, <2>1 DEF Quiet
  <2>4. up' = 1 => ~Parsing' /\ ~Coming'
    BY <1>0, <1>7, <1>10, <2>1 DEF Control, OneFrame
  <2>5. ~(Parsing' /\ Coming')
    BY <1>7, <2>1 DEF Control, OneFrame
  <2>. QED  BY <1>0, <2>1, <2>2, <2>3, <2>4, <2>5 DEF Control, OneFrame
<1>19. Fresh'
  <2>1. Coming' = Coming /\ Has("done")' = Has("done") /\ SizeComes' = SizeComes
    BY <1>0 DEF Coming, Has, SizeComes
  <2>2. phase = "replay" => (Shown' <=> Shown)
    BY <1>9, <2>1 DEF Shown
  <2>3. Stale' => ~Acknowledges(xterm[1])
    BY <1>7 DEF Acknowledges
  <2>. QED  BY <1>0, <1>7, <1>8, <2>1, <2>2, <2>3 DEF Control, Fresh
<1>. QED  BY <1>12, <1>13, <1>14, <1>15, <1>16, <1>17, <1>18, <1>19 DEF Control

\* The first part of the invariant holds at the start.
LEMMA ControlInit == Init => Control
<1>. SUFFICES ASSUME Init  PROVE Control
  OBVIOUS
<1>. USE DEF Init
<1>1. \A S : <<>> \in Seq(S) /\ Len(<<>>) = 0
  BY EmptySeq
<1>2. Typed
  <2>1. ServerTyped
    <3>1. produced \in 0 .. MaxBytes /\ ended \in {"no", "exit", "kill"} /\ srv \in Handler
      BY LimitsAssumption DEF Handler
    <3>2. awaiting \in BOOLEAN /\ overflowed \in BOOLEAN /\ sealed \in BOOLEAN
      OBVIOUS
    <3>. QED  BY <3>1, <3>2 DEF ServerTyped
  <2>2. QueuesTyped
    BY <1>1 DEF QueuesTyped
  <2>3. LineTyped
    BY <1>1, LimitsAssumption DEF LineTyped
  <2>4. PaneTyped
    BY <1>1 DEF PaneTyped
  <2>. QED  BY <2>1, <2>2, <2>3, <2>4 DEF Typed
<1>3. Bounded
  BY <1>1, LimitsAssumption DEF Bounded
<1>4. Remains(xterm, unparsed)
  <2>1. PICK left \in [0 .. 0 -> Nat] : left[0] = 0
    <3>. [i \in 0 .. 0 |-> 0] \in [0 .. 0 -> Nat] /\ [i \in 0 .. 0 |-> 0][0] = 0
      OBVIOUS
    <3>. QED  OBVIOUS
  <2>2. Len(xterm) = 0 /\ unparsed = 0
    BY <1>1
  <2>. QED  BY <2>1, <2>2 DEF Remains
<1>5. HandlerOK
  BY DEF HandlerOK, Subscribed
<1>6. WireOK /\ PaneOK
  BY <1>1 DEF WireOK, PaneOK
<1>7. OneFrame /\ Fresh
  BY <1>1 DEF OneFrame, Fresh, Has, Coming, Parsing
<1>. QED  BY <1>2, <1>3, <1>4, <1>5, <1>6, <1>7 DEF Control

\* It holds of a step that changes nothing.
LEMMA ControlSame ==
    ASSUME Control, UNCHANGED vars
    PROVE  Control'
<1>0. UNCHANGED <<produced, ended, srv, replay, awaiting, buffer, sealed, pending, queue, overflowed,
                  down, up, conn, phase, replayDone, cqueue, xterm, unparsed, resync, exited, code, fed, drops>>
  BY DEF vars, terminal, handler, viewer, pane, screen
<1>t. Byte' = Byte /\ Item' = Item /\ Messages' = Messages /\ Writes' = Writes
  BY <1>0, SameTypes
<1>1. Typed'
  <2>1. ServerTyped'
    BY <1>0 DEF Control, Typed, ServerTyped
  <2>2. QueuesTyped'
    BY <1>0, <1>t DEF Control, Typed, QueuesTyped
  <2>3. LineTyped'
    BY <1>0, <1>t DEF Control, Typed, LineTyped
  <2>4. PaneTyped'
    BY <1>0, <1>t DEF Control, Typed, PaneTyped
  <2>. QED  BY <2>1, <2>2, <2>3, <2>4 DEF Typed
<1>2. Bounded'
  BY <1>0 DEF Control, Bounded, Alive
<1>3. Remains(xterm, unparsed)'
  BY <1>0 DEF Control
<1>4. HandlerOK'
  BY <1>0 DEF Control, HandlerOK, Subscribed, Alive
<1>5. WireOK'
  BY <1>0 DEF Control, WireOK, SizeComes, Alive
<1>6. PaneOK'
  BY <1>0 DEF Control, PaneOK, Has, Alive
<1>7. OneFrame'
  BY <1>0 DEF Control, OneFrame, Quiet, Parsing, Coming, Has, Acknowledges
<1>8. Fresh'
  BY <1>0 DEF Control, Fresh, Stale, Shown, Coming, Has, Parsing, SizeComes, Acknowledges
<1>. QED  BY <1>1, <1>2, <1>3, <1>4, <1>5, <1>6, <1>7, <1>8 DEF Control

\* The first part of the invariant holds of every step.
LEMMA ControlStep == Control /\ [Next]_vars => Control'
<1>. SUFFICES ASSUME Control, [Next]_vars  PROVE Control'
  OBVIOUS
<1>1. CASE TerminalStep
  BY <1>1, OnOutputControl, EndsControl DEF TerminalStep
<1>2. CASE HandlerStep
  BY <1>2, AcceptControl, SendFrameControl, ReceiveAckControl, ReplayDoneControl, DrainControl,
     StartPumpControl, PumpFrameControl DEF HandlerStep
<1>3. CASE PaneStep
  BY <1>3, ConnectControl, ReceiveSizeControl, ReceiveReplayControl, PartsControl, ReceiveLiveControl,
     ReceiveDoneControl, ReceiveExitControl, ClosedControl DEF PaneStep
<1>4. CASE XtermParses
  BY <1>4, XtermParsesControl
<1>5. CASE Breaks
  BY <1>5, GivesUpControl, PartsControl DEF Breaks
<1>6. CASE UNCHANGED vars
  BY <1>6, ControlSame
<1>. QED  BY <1>1, <1>2, <1>3, <1>4, <1>5, <1>6 DEF Next

\* A sequence over a set is one over a larger set.
LEMMA Widens ==
  ASSUME NEW S, NEW T, S \subseteq T, NEW s \in Seq(S)
  PROVE  s \in Seq(T)
BY SeqMonotonic

\* However slow the viewer, no queue outgrows its limit, and every variable keeps its
\* type: in particular the phase "prelive" (completeReplay before the last callback of
\* the replay) is never entered.
THEOREM MemoryStaysBounded == Spec => []MemoryIsBounded
<1>1. Control => MemoryIsBounded
  <2>. SUFFICES ASSUME Control  PROVE MemoryIsBounded
    OBVIOUS
  <2>1. Byte \subseteq 1 .. MaxBytes /\ Item \subseteq 1 .. MaxBytes \cup {Exit, Overflow}
    BY LimitsAssumption DEF Byte, Item, Control, Typed, ServerTyped
  <2>2. /\ \A s \in Seq(Byte) : s \in Bytes
        /\ \A s \in Seq(Item) : s \in Items
    BY <2>1, SeqMonotonic DEF Bytes, Items
  <2>3. /\ Messages \subseteq [kind : Kinds, bytes : Bytes]
        /\ Writes \subseteq [kind : {"replay", "live", "flush"}, bytes : Bytes, stale : BOOLEAN]
    BY <2>2 DEF Messages, Writes
  <2>4. /\ \A s \in Seq(Messages) : s \in Seq([kind : Kinds, bytes : Bytes])
        /\ \A s \in Seq(Writes) :
              s \in Seq([kind : {"replay", "live", "flush"}, bytes : Bytes, stale : BOOLEAN])
    BY <2>3, SeqMonotonic
  <2>5. TypeOK
    <3>1. /\ produced \in 0 .. MaxBytes /\ ended \in {"no", "exit", "kill"}
          /\ srv \in Handler /\ replay \in Bytes /\ awaiting \in BOOLEAN
          /\ queue \in Items /\ overflowed \in BOOLEAN
          /\ buffer \in Items /\ sealed \in BOOLEAN /\ pending \in Items
      BY <2>2 DEF Control, Typed, ServerTyped, QueuesTyped
    <3>2. /\ down \in Seq([kind : Kinds, bytes : Bytes]) /\ up \in 0 .. 1
          /\ conn \in {"retry", "open", "closed", "off"}
          /\ code \in {0, 1000, 1002, 1006, 1013} /\ drops \in 0 .. MaxDrops
      <4>1. LineTyped
        BY DEF Control, Typed
      <4>. DEFINE Wide == [kind : Kinds, bytes : Bytes]
      <4>2. down \in Seq(Messages) /\ Messages \subseteq Wide
        BY <4>1, <2>3 DEF LineTyped
      <4>. HIDE DEF Wide
      <4>3. down \in Seq(Wide)
        BY <4>2, Widens
      <4>4. down \in Seq([kind : Kinds, bytes : Bytes])
        BY <4>3, Zenon DEF Wide
      <4>. QED  BY <4>1, <4>4 DEF LineTyped
    <3>3. /\ phase \in {"idle", "replay", "prelive", "live"} /\ replayDone \in BOOLEAN
          /\ cqueue \in Bytes /\ resync \in BOOLEAN /\ exited \in BOOLEAN
          /\ xterm \in Seq([kind : {"replay", "live", "flush"}, bytes : Bytes, stale : BOOLEAN])
          /\ unparsed \in Nat /\ fed \in Bytes
      BY <2>2, <2>4 DEF Control, Typed, PaneTyped
    <3>. QED  BY <3>1, <3>2, <3>3 DEF TypeOK
  <2>6. Len(queue) <= QueueMax + 1 /\ Len(buffer) <= BufferMax + 1
    <3>. Len(queue) \in Nat /\ Len(buffer) \in Nat /\ QueueMax \in Nat /\ BufferMax \in Nat
      BY LenProperties, LimitsAssumption DEF Control, Typed, QueuesTyped
    <3>. QED  BY DEF Control, Bounded
  <2>. QED  BY <2>5, <2>6 DEF Control, Bounded, MemoryIsBounded
<1>. QED  BY <1>1, ControlInit, ControlStep, PTL DEF Spec

\* The pane sends input only when the handshake is over and xterm has parsed the replay.
THEOREM ReplayStaysQuiet == Spec => []ReplayIsQuiet
<1>1. Control => ReplayIsQuiet
  <2>. SUFFICES ASSUME Control, phase = "live", conn = "open"
                PROVE  srv \in {"handover", "live", "off"} /\ \A i \in DOMAIN xterm : xterm[i].kind # "replay"
    BY DEF ReplayIsQuiet
  <2>1. srv \in {"handover", "live", "off"}
    BY DEF Control, Typed, ServerTyped, Handler, PaneOK
  <2>2. ~Parsing /\ ~Stale
    BY DEF Control, PaneOK, OneFrame, Quiet, Fresh
  <2>3. DOMAIN xterm = 1 .. Len(xterm)
    BY LenProperties DEF Control, Typed, PaneTyped
  <2>. QED  BY <2>1, <2>2, <2>3 DEF Parsing, Stale, Acknowledges
<1>. QED  BY <1>1, ControlInit, ControlStep, PTL DEF Spec

-----------------------------------------------------------------------------
(* Every step keeps which byte is where. *)

\* A message that fits behind what is on the wire.
Fits(d, at, m, n) ==
    /\ d \in Seq(Messages) /\ Wire(d, at) /\ m \in Messages
    /\ n \in 0 .. produced /\ Sits(m, at[Len(d)], n)

\* A message on the wire, bytes and all, after what is there.
LEMMA WireOne ==
    ASSUME NEW d, NEW at, NEW m, NEW n, Fits(d, at, m, n), produced \in Nat
    PROVE  \E bt : Wire(Append(d, m), bt) /\ bt[0] = at[0] /\ bt[Len(Append(d, m))] = n
<1>0. /\ d \in Seq(Messages) /\ Wire(d, at) /\ m \in Messages
      /\ n \in 0 .. produced /\ Sits(m, at[Len(d)], n)
  BY DEF Fits
<1>. PICK more : more = Append(d, m)
  OBVIOUS
<1>1. /\ more \in Seq(Messages) /\ Len(d) \in Nat /\ Len(more) = Len(d) + 1
      /\ \A i \in 1 .. Len(d) : more[i] = d[i]
      /\ more[Len(d) + 1] = m
  BY <1>0, AppendIs
<1>2. PICK k \in Nat : k = Len(d)
  BY <1>1
<1>3. /\ at \in [0 .. k -> 0 .. produced]
      /\ \A i \in 1 .. k : Sits(d[i], at[i - 1], at[i])
  BY <1>0, <1>2 DEF Wire
<1>4. PICK bt : bt = [i \in 0 .. k + 1 |-> IF i <= k THEN at[i] ELSE n]
  OBVIOUS
<1>5. \A i \in 0 .. k : bt[i] = at[i] /\ at[i] \in 0 .. produced
  <2>. \A i \in 0 .. k : i \in 0 .. k + 1 /\ i <= k
    BY <1>2
  <2>. QED  BY <1>3, <1>4
<1>6. bt[k + 1] = n
  BY <1>2, <1>4
<1>7. bt \in [0 .. k + 1 -> 0 .. produced]
  BY <1>0, <1>4, <1>5, <1>2
<1>8. ASSUME NEW i \in 1 .. k + 1
      PROVE  Sits(more[i], bt[i - 1], bt[i])
  <2>1. CASE i \in 1 .. k
    <3>. i - 1 \in 0 .. k /\ i \in 0 .. k
      BY <2>1, <1>2
    <3>. QED  BY <1>1, <1>2, <1>3, <1>5, <2>1
  <2>2. CASE i = k + 1
    <3>. i - 1 = k /\ k \in 0 .. k
      BY <2>2, <1>2
    <3>. QED  BY <1>0, <1>1, <1>2, <1>5, <1>6, <2>2
  <2>. QED  BY <1>2, <2>1, <2>2
<1>9. Wire(more, bt) /\ bt[0] = at[0] /\ bt[Len(more)] = n
  <2>1. Len(more) = k + 1 /\ 0 \in 0 .. k
    BY <1>1, <1>2
  <2>. QED  BY <1>5, <1>6, <1>7, <1>8, <2>1 DEF Wire
<1>. QED  BY <1>9

\* Messages without bytes, behind byte n.
Silent(messages, n) ==
    \A i \in 1 .. Len(messages) :
        /\ messages[i].kind # "size" /\ messages[i].bytes = <<>>
        /\ messages[i].kind = "exit" /\ ended = "exit" => n = produced

\* Messages without bytes after what is on the wire.
LEMMA WireOn ==
    ASSUME NEW d \in Seq(Messages), NEW at, Wire(d, at), NEW t \in Seq(Messages),
           Silent(t, at[Len(d)]), NEW more, more = d \o t
    PROVE  \E bt : Wire(more, bt) /\ bt[0] = at[0] /\ bt[Len(more)] = at[Len(d)]
<1>1. /\ more \in Seq(Messages) /\ Len(d) \in Nat /\ Len(t) \in Nat /\ Len(more) = Len(d) + Len(t)
      /\ \A i \in 1 .. Len(d) : more[i] = d[i]
      /\ \A i \in 1 .. Len(t) : more[Len(d) + i] = t[i]
  BY ConcatIs
<1>2. PICK k \in Nat, l \in Nat : k = Len(d) /\ l = Len(t)
  BY <1>1
<1>3. /\ at \in [0 .. k -> 0 .. produced]
      /\ \A i \in 1 .. k : Sits(d[i], at[i - 1], at[i])
  BY <1>2 DEF Wire
<1>4. PICK bt : bt = [i \in 0 .. k + l |-> IF i <= k THEN at[i] ELSE at[k]]
  OBVIOUS
<1>k. k \in 0 .. k /\ at[k] \in 0 .. produced
  BY <1>2, <1>3
<1>5. \A i \in 0 .. k : bt[i] = at[i] /\ at[i] \in 0 .. produced
  <2>. \A i \in 0 .. k : i \in 0 .. k + l /\ i <= k
    BY <1>2
  <2>. QED  BY <1>3, <1>4
<1>6. \A i \in k .. k + l : bt[i] = at[k]
  <2>1. \A i \in k .. k + l : i \in 0 .. k + l /\ (i <= k => i = k)
    BY <1>2
  <2>. QED  BY <1>4, <2>1
<1>7. bt \in [0 .. k + l -> 0 .. produced]
  <2>. ASSUME NEW i \in 0 .. k + l  PROVE bt[i] \in 0 .. produced
    <3>. i \in 0 .. k \/ i \in k .. k + l
      BY <1>2
    <3>. QED  BY <1>5, <1>6, <1>k
  <2>. QED  BY <1>4
<1>8. ASSUME NEW i \in 1 .. k + l
      PROVE  Sits(more[i], bt[i - 1], bt[i])
  <2>1. CASE i \in 1 .. k
    <3>. i - 1 \in 0 .. k /\ i \in 0 .. k
      BY <2>1, <1>2
    <3>. QED  BY <1>1, <1>2, <1>3, <1>5, <2>1
  <2>2. CASE i \in k + 1 .. k + l
    <3>1. PICK j \in 1 .. l : i = k + j
      <4>. i - k \in 1 .. l /\ i = k + (i - k)
        BY <2>2, <1>2
      <4>. QED  OBVIOUS
    <3>2. more[i] = t[j]
      BY <1>1, <1>2, <3>1
    <3>3. i - 1 \in k .. k + l /\ i \in k .. k + l
      BY <2>2, <1>2
    <3>4. bt[i - 1] = at[k] /\ bt[i] = at[k]
      BY <1>6, <3>3
    <3>5. /\ t[j].bytes = <<>>
          /\ t[j].kind = "exit" /\ ended = "exit" => at[k] = produced
      BY <1>2, <3>1 DEF Silent
    <3>6. Sits(t[j], at[k], at[k])
      <4>. at[k] + 0 = at[k] /\ 1 .. 0 = {}
        BY <1>k
      <4>. QED  BY <3>5, EmptySeq DEF Sits, Piece
    <3>. QED  BY <3>2, <3>4, <3>6
  <2>. QED  BY <1>2, <2>1, <2>2
<1>9. Wire(more, bt) /\ bt[0] = at[0] /\ bt[Len(more)] = at[Len(d)]
  <2>1. Len(more) = k + l /\ 0 \in 0 .. k /\ k + l \in k .. k + l
    BY <1>1, <1>2
  <2>. QED  BY <1>2, <1>5, <1>6, <1>7, <1>8, <2>1 DEF Wire
<1>. QED  BY <1>9

\* The wire when its first message is taken.
LEMMA WireTaken ==
    ASSUME NEW d \in Seq(Messages), d # <<>>, NEW at, Wire(d, at), NEW less, less = Tail(d)
    PROVE  /\ \E bt : Wire(less, bt) /\ bt[0] = at[1] /\ bt[Len(less)] = at[Len(d)]
           /\ Sits(d[1], at[0], at[1]) /\ at[0] \in 0 .. produced /\ at[1] \in 0 .. produced
<1>1. /\ Len(d) \in Nat \ {0} /\ Len(less) = Len(d) - 1
      /\ \A i \in 1 .. Len(less) : less[i] = d[i + 1]
  BY TailIs
<1>2. PICK k \in Nat : k = Len(less) /\ k + 1 = Len(d)
  <2>1. PICK l \in Nat \ {0} : l = Len(d)
    BY <1>1
  <2>2. l - 1 \in Nat /\ l - 1 + 1 = l /\ Len(less) = l - 1
    BY <1>1, <2>1
  <2>. QED  BY <2>1, <2>2
<1>3. /\ at \in [0 .. k + 1 -> 0 .. produced]
      /\ \A i \in 1 .. k + 1 : Sits(d[i], at[i - 1], at[i])
  BY <1>2 DEF Wire
<1>4. PICK bt : bt = [i \in 0 .. k |-> at[i + 1]]
  OBVIOUS
<1>5. \A i \in 0 .. k : bt[i] = at[i + 1] /\ at[i + 1] \in 0 .. produced
  <2>. \A i \in 0 .. k : i + 1 \in 0 .. k + 1
    BY <1>2
  <2>. QED  BY <1>3, <1>4
<1>6. bt \in [0 .. k -> 0 .. produced]
  BY <1>4, <1>5
<1>7. ASSUME NEW i \in 1 .. k
      PROVE  Sits(less[i], bt[i - 1], bt[i])
  <2>1. i - 1 \in 0 .. k /\ i \in 0 .. k /\ (i - 1) + 1 = i /\ i + 1 \in 1 .. k + 1 /\ (i + 1) - 1 = i
    BY <1>2
  <2>2. bt[i - 1] = at[i] /\ bt[i] = at[i + 1]
    BY <1>5, <2>1
  <2>3. Sits(d[i + 1], at[i], at[i + 1])
    BY <1>3, <2>1
  <2>. QED  BY <1>1, <1>2, <2>2, <2>3
<1>8. Wire(less, bt) /\ bt[0] = at[1] /\ bt[Len(less)] = at[Len(d)]
  <2>1. 0 \in 0 .. k /\ 0 + 1 = 1 /\ k \in 0 .. k
    BY <1>2
  <2>. QED  BY <1>2, <1>5, <1>6, <1>7, <2>1 DEF Wire
<1>9. Sits(d[1], at[0], at[1]) /\ at[0] \in 0 .. produced /\ at[1] \in 0 .. produced
  <2>1. 1 \in 1 .. k + 1 /\ 1 - 1 = 0 /\ 0 \in 0 .. k + 1 /\ 1 \in 0 .. k + 1
    BY <1>2
  <2>. QED  BY <1>3, <2>1
<1>. QED  BY <1>8, <1>9

\* What is held, place by place.
LEMMA HeldIs ==
    ASSUME buffer \in Seq(Item), pending \in Seq(Item), queue \in Seq(Item)
    PROVE  /\ Held \in Seq(Item) /\ buffer \o pending \in Seq(Item)
           /\ Len(buffer) \in Nat /\ Len(pending) \in Nat /\ Len(queue) \in Nat
           /\ Len(buffer \o pending) = Len(buffer) + Len(pending)
           /\ Len(Held) = Len(buffer \o pending) + Len(queue)
           /\ \A i \in 1 .. Len(buffer \o pending) : Held[i] = (buffer \o pending)[i]
           /\ \A i \in 1 .. Len(queue) : Held[Len(buffer \o pending) + i] = queue[i]
           /\ pending = <<>> => buffer \o pending = buffer
           /\ buffer = <<>> => Held = pending \o queue
<1>1. /\ buffer \o pending \in Seq(Item) /\ Len(buffer) \in Nat /\ Len(pending) \in Nat
      /\ Len(buffer \o pending) = Len(buffer) + Len(pending)
  BY ConcatIs
<1>2. PICK s : s = buffer \o pending
  OBVIOUS
<1>3. /\ Held = s \o queue /\ s \in Seq(Item)
      /\ pending = <<>> => s = buffer
      /\ buffer = <<>> => s = pending
  BY <1>1, <1>2, ConcatEmptySeq DEF Held
<1>4. /\ Held \in Seq(Item) /\ Len(queue) \in Nat
      /\ Len(Held) = Len(s) + Len(queue)
      /\ \A i \in 1 .. Len(s) : Held[i] = s[i]
      /\ \A i \in 1 .. Len(queue) : Held[Len(s) + i] = queue[i]
  BY <1>3, ConcatIs
<1>. QED  BY <1>1, <1>2, <1>3, <1>4

\* Nothing held that is unmarked: it keeps its meaning while nothing is written.
LEMMA FollowingSame ==
    ASSUME UNCHANGED <<produced, ended, overflowed>>, NEW x, NEW e, Following(x, e), Held' = x
    PROVE  Following(Held, e)'
  BY DEF Following, Alive

\* Items without their first n, which are bytes.
LEMMA FollowingAfter ==
    ASSUME NEW x \in Seq(Item), NEW n \in Nat, n <= Len(x), Unmarked(x, n),
           NEW e \in Nat, Following(x, e), NEW y, y = After(x, n)
    PROVE  Following(y, e + n)
<1>1. /\ y \in Seq(Item) /\ Len(x) \in Nat /\ Len(y) = Len(x) - n /\ Len(y) \in Nat
      /\ \A i \in 1 .. Len(y) : y[i] = x[n + i]
  <2>. /\ y \in Seq(Item) /\ Len(x) \in Nat
       /\ Len(y) = IF n < Len(x) THEN Len(x) - n ELSE 0
       /\ \A i \in 1 .. Len(y) : y[i] = x[n + i]
    BY AfterIs
  <2>. QED  OBVIOUS
<1>2. PICK k \in Nat : k = Len(y) /\ n + k = Len(x)
  <2>. Len(y) \in Nat /\ n + Len(y) = Len(x)
    BY <1>1
  <2>. QED  OBVIOUS
<1>3. ASSUME NEW m \in 0 .. k, Unmarked(y, m)
      PROVE  Unmarked(x, n + m)
  <2>. SUFFICES ASSUME NEW j \in 1 .. n + m  PROVE ~IsMark(x[j])
    BY DEF Unmarked
  <2>1. CASE j \in 1 .. n
    BY <2>1 DEF Unmarked
  <2>2. CASE j \in n + 1 .. n + m
    <3>1. j - n \in 1 .. m /\ j - n \in 1 .. k /\ n + (j - n) = j
      BY <2>2, <1>2
    <3>. QED  BY <1>1, <1>2, <1>3, <3>1 DEF Unmarked
  <2>. QED  BY <1>2, <2>1, <2>2
<1>4. Follow(y, e + n)
  <2>. SUFFICES ASSUME NEW i \in 1 .. k, Unmarked(y, i)  PROVE y[i] = e + n + i
    BY <1>2 DEF Follow
  <2>1. n + i \in 1 .. Len(x) /\ i \in 0 .. k
    BY <1>2
  <2>2. Unmarked(x, n + i)
    BY <1>3, <2>1
  <2>3. x[n + i] = e + (n + i)
    BY <2>1, <2>2 DEF Following, Follow
  <2>. QED  BY <1>1, <1>2, <2>3
<1>5. Unmarked(y, Len(y)) => Alive /\ ~overflowed /\ e + n + Len(y) = produced
  <2>. SUFFICES ASSUME Unmarked(y, k)  PROVE Alive /\ ~overflowed /\ e + n + k = produced
    BY <1>2
  <2>1. Unmarked(x, Len(x))
    <3>. k \in 0 .. k
      OBVIOUS
    <3>. QED  BY <1>2, <1>3
  <2>2. Alive /\ ~overflowed /\ e + Len(x) = produced
    BY <2>1 DEF Following
  <2>3. e + n + k = e + Len(x)
    BY <1>2
  <2>. QED  BY <2>2, <2>3
<1>6. ASSUME NEW m \in 1 .. k, y[m] = Exit, ended = "exit", Unmarked(y, m - 1)
      PROVE  e + n + m - 1 = produced
  <2>1. m - 1 \in 0 .. k /\ n + m \in 1 .. Len(x) /\ n + (m - 1) = (n + m) - 1
    BY <1>2
  <2>2. Unmarked(x, (n + m) - 1)
    BY <1>3, <1>6, <2>1
  <2>3. x[n + m] = Exit
    BY <1>1, <1>2, <1>6
  <2>4. e + (n + m) - 1 = produced
    BY <1>6, <2>1, <2>2, <2>3 DEF Following
  <2>. QED  BY <2>4
<1>. QED  BY <1>2, <1>4, <1>5, <1>6 DEF Following

\* Items cut short by an overflow.
LEMMA FollowingCut ==
    ASSUME NEW x \in Seq(Item), NEW y \in Seq(Item), NEW k \in Nat, k <= Len(x), k < Len(y),
           \A i \in 1 .. k : y[i] = x[i], y[k + 1] = Overflow,
           NEW e \in Nat, Following(x, e)
    PROVE  /\ Follow(y, e) /\ ~Unmarked(y, Len(y))
           /\ \A m \in 1 .. Len(y) :
                 y[m] = Exit /\ ended = "exit" /\ Unmarked(y, m - 1) => e + m - 1 = produced
<1>1. PICK l \in Nat : l = Len(y) /\ k + 1 \in 1 .. l
  <2>. Len(y) \in Nat
    BY LenProperties
  <2>. k + 1 \in 1 .. Len(y)
    OBVIOUS
  <2>. QED  OBVIOUS
<1>2. IsMark(y[k + 1])
  BY DEF IsMark, Overflow
<1>3. ASSUME NEW m \in 0 .. l, Unmarked(y, m)
      PROVE  m <= k /\ Unmarked(x, m)
  <2>1. m <= k
    BY <1>1, <1>2, <1>3 DEF Unmarked
  <2>2. \A j \in 1 .. m : j \in 1 .. k
    BY <2>1
  <2>. QED  BY <1>3, <2>1, <2>2 DEF Unmarked
<1>4. Len(x) \in Nat
  BY LenProperties
<1>5. Follow(y, e)
  <2>. SUFFICES ASSUME NEW i \in 1 .. l, Unmarked(y, i)  PROVE y[i] = e + i
    BY <1>1 DEF Follow
  <2>1. i <= k /\ Unmarked(x, i)
    BY <1>3
  <2>2. i \in 1 .. Len(x) /\ i \in 1 .. k
    BY <1>4, <2>1
  <2>. QED  BY <2>1, <2>2 DEF Following, Follow
<1>6. ~Unmarked(y, Len(y))
  BY <1>1, <1>2 DEF Unmarked
<1>7. ASSUME NEW m \in 1 .. l, y[m] = Exit, ended = "exit", Unmarked(y, m - 1)
      PROVE  e + m - 1 = produced
  <2>1. m - 1 <= k /\ Unmarked(x, m - 1)
    <3>. m - 1 \in 0 .. l
      OBVIOUS
    <3>. QED  BY <1>3, <1>7
  <2>2. m # k + 1
    BY <1>7 DEF Exit, Overflow
  <2>3. m \in 1 .. k /\ m \in 1 .. Len(x)
    BY <1>4, <2>1, <2>2
  <2>. QED  BY <1>7, <2>1, <2>3 DEF Following
<1>. QED  BY <1>1, <1>5, <1>6, <1>7

\* The screen is left alone, or bytes are added to it.
Onward(a) ==
    /\ produced' = produced
    /\ fed' = fed \/ \E bytes \in Seq(Byte) : fed' = fed \o bytes
    /\ \E bt : Positions(a, bt)'

\* What a concatenation consists of, whatever the parts are made of.
LEMMA JoinIs ==
    ASSUME NEW S, NEW T, NEW s \in Seq(S), NEW t \in Seq(T)
    PROVE  /\ Len(s) \in Nat /\ Len(t) \in Nat /\ Len(s \o t) = Len(s) + Len(t)
           /\ \A i \in 1 .. Len(s) : (s \o t)[i] = s[i]
           /\ \A i \in 1 .. Len(t) : (s \o t)[Len(s) + i] = t[i]
<1>. PICK R : R = S \cup T
  OBVIOUS
<1>1. s \in Seq(R) /\ t \in Seq(R)
  BY SeqMonotonic
<1>. QED  BY <1>1, ConcatIs

\* Concatenation is associative, whatever the parts are made of.
LEMMA JoinJoin ==
    ASSUME NEW R, NEW S, NEW T, NEW r \in Seq(R), NEW s \in Seq(S), NEW t \in Seq(T)
    PROVE  r \o (s \o t) = (r \o s) \o t
<1>. PICK U : U = R \cup (S \cup T)
  OBVIOUS
<1>1. r \in Seq(U) /\ s \in Seq(U) /\ t \in Seq(U)
  BY SeqMonotonic
<1>. QED  BY <1>1, ConcatAssociative

\* What is written behind the items.
LEMMA FollowingRun ==
    ASSUME NEW x \in Seq(Item), NEW e \in Nat, Following(x, e), NEW S, NEW run \in Seq(S),
           NEW n \in Nat \ {0}, Len(run) = n, \A i \in 1 .. n : run[i] = produced + i,
           produced \in Nat, produced' = produced + n, ended' = ended, ended # "exit",
           ~overflowed', NEW y, y = x \o run, Held' = y
    PROVE  Following(Held, e)'
<1>. PICK k \in Nat : k = Len(x)
  BY LenProperties
<1>1. /\ Len(y) = k + n /\ \A i \in 1 .. k : y[i] = x[i]
      /\ \A i \in 1 .. n : y[k + i] = produced + i
  <2>1. /\ Len(x \o run) = Len(x) + Len(run) /\ \A i \in 1 .. Len(x) : (x \o run)[i] = x[i]
        /\ \A i \in 1 .. Len(run) : (x \o run)[Len(x) + i] = run[i]
    <3>1. x \in Seq(Item) /\ run \in Seq(S)
      OBVIOUS
    <3>. QED  BY ONLY <3>1, JoinIs
  <2>. QED  BY <2>1
<1>2. ASSUME NEW m \in 0 .. k, Unmarked(y, m)  PROVE Unmarked(x, m)
  <2>. \A j \in 1 .. m : j \in 1 .. k
    OBVIOUS
  <2>. QED  BY <1>1, <1>2 DEF Unmarked
<1>3. ASSUME NEW m \in k .. k + n, Unmarked(y, m)
      PROVE  Alive /\ ~overflowed /\ e + k = produced
  <2>1. Unmarked(y, k)
    <3>. \A j \in 1 .. k : j \in 1 .. m
      OBVIOUS
    <3>. QED  BY <1>3 DEF Unmarked
  <2>2. k \in 0 .. k
    OBVIOUS
  <2>. QED  BY <1>2, <2>1, <2>2 DEF Following
<1>4. Follow(y, e)
  <2>. SUFFICES ASSUME NEW i \in 1 .. k + n, Unmarked(y, i)  PROVE y[i] = e + i
    BY <1>1 DEF Follow
  <2>1. CASE i \in 1 .. k
    <3>. i \in 0 .. k
      BY <2>1
    <3>. Unmarked(x, i)
      BY <1>2
    <3>. QED  BY <1>1, <2>1 DEF Following, Follow
  <2>2. CASE i \in k + 1 .. k + n
    <3>1. i - k \in 1 .. n /\ k + (i - k) = i /\ i \in k .. k + n
      BY <2>2
    <3>2. y[i] = produced + (i - k)
      BY <1>1, <3>1
    <3>3. e + k = produced
      BY <1>3, <3>1
    <3>4. (e + k) + (i - k) = e + i
      BY <2>2
    <3>. QED  BY <3>2, <3>3, <3>4
  <2>. QED  BY <2>1, <2>2
<1>5. Unmarked(y, k + n) => Alive /\ e + (k + n) = produced + n
  <2>. SUFFICES ASSUME Unmarked(y, k + n)  PROVE Alive /\ e + (k + n) = produced + n
    OBVIOUS
  <2>1. k + n \in k .. k + n
    OBVIOUS
  <2>2. Alive /\ e + k = produced
    BY <1>3, <2>1
  <2>3. e + (k + n) = (e + k) + n
    OBVIOUS
  <2>. QED  BY <2>2, <2>3
<1>6. Len(y) = k + n /\ (Alive' <=> Alive)
  BY <1>1 DEF Alive
<1>. QED  BY <1>4, <1>5, <1>6 DEF Following

\* The end of the session behind the items.
LEMMA FollowingExit ==
    ASSUME NEW x \in Seq(Item), NEW e \in Nat, Following(x, e), Alive, produced \in Nat,
           produced' = produced, NEW y, y = x \o <<Exit>>, Held' = y
    PROVE  Following(Held, e)'
<1>. PICK k \in Nat : k = Len(x)
  BY LenProperties
<1>1. Len(y) = k + 1 /\ (\A i \in 1 .. k : y[i] = x[i]) /\ y[k + 1] = Exit
  <2>. DEFINE T == Item \cup {Exit}
  <2>1. x \in Seq(T) /\ <<Exit>> \in Seq(T) /\ Len(<<Exit>>) = 1 /\ <<Exit>>[1] = Exit
    BY SeqMonotonic
  <2>. HIDE DEF T
  <2>2. /\ Len(y) = Len(x) + Len(<<Exit>>) /\ \A i \in 1 .. Len(x) : y[i] = x[i]
        /\ \A i \in 1 .. Len(<<Exit>>) : y[Len(x) + i] = <<Exit>>[i]
    BY <2>1, ConcatIs
  <2>3. 1 \in 1 .. Len(<<Exit>>)
    BY <2>1
  <2>. QED  BY <2>1, <2>2, <2>3
<1>2. IsMark(y[k + 1]) /\ k + 1 \in 1 .. k + 1
  BY <1>1 DEF IsMark, Exit
<1>3. ASSUME NEW m \in 0 .. k, Unmarked(y, m)  PROVE Unmarked(x, m)
  <2>. \A j \in 1 .. m : j \in 1 .. k
    OBVIOUS
  <2>. QED  BY <1>1, <1>3 DEF Unmarked
<1>4. Follow(y, e)
  <2>. SUFFICES ASSUME NEW i \in 1 .. k + 1, Unmarked(y, i)  PROVE y[i] = e + i
    BY <1>1 DEF Follow
  <2>1. i # k + 1
    BY <1>2 DEF Unmarked
  <2>2. i \in 0 .. k /\ i \in 1 .. k
    BY <2>1
  <2>. QED  BY <1>1, <1>3, <2>2 DEF Following, Follow
<1>5. ~Unmarked(y, k + 1)
  BY <1>2 DEF Unmarked
<1>6. ASSUME NEW m \in 1 .. k + 1, y[m] = Exit, Unmarked(y, m - 1)
      PROVE  e + m - 1 = produced
  <2>1. m - 1 \in 0 .. k
    OBVIOUS
  <2>2. Unmarked(x, m - 1)
    BY <1>3, <1>6, <2>1
  <2>3. CASE m \in 1 .. k
    <3>1. x[m] = Exit /\ x[m] \in Item
      BY <1>1, <1>6, <2>3, ElementOfSeq
    <3>. QED  BY <3>1 DEF Item, Byte, Exit, Overflow
  <2>4. CASE m = k + 1
    <3>1. Unmarked(x, Len(x))
      BY <2>2, <2>4
    <3>2. e + Len(x) = produced
      BY <3>1 DEF Following
    <3>. QED  BY <2>4, <3>2
  <2>. QED  BY <2>3, <2>4
<1>. QED  BY <1>1, <1>4, <1>5, <1>6 DEF Following

\* The fan-out gets a run of bytes.
LEMMA OnOutputHeld ==
    ASSUME Control, NEW e \in Nat, Subscribed, Following(Held, e), NEW n \in 1 .. 2, OnOutput(n)
    PROVE  Following(Held, e)'
<1>0. /\ produced \in Nat /\ produced' = produced + n /\ produced' \in Nat /\ ended # "exit"
      /\ UNCHANGED <<ended, buffer, pending>>
      /\ Publish(Run(produced + 1, produced + n))
  BY LimitsAssumption
     DEF OnOutput, Control, Typed, ServerTyped, handler
<1>1. /\ buffer \in Seq(Item) /\ pending \in Seq(Item) /\ queue \in Seq(Item)
  BY DEF Control, Typed, QueuesTyped
<1>. PICK x : x = buffer \o pending
  OBVIOUS
<1>2. /\ x \in Seq(Item) /\ Held \in Seq(Item) /\ Held = x \o queue /\ Len(x) \in Nat
      /\ Len(x) <= Len(Held)
      /\ \A i \in 1 .. Len(x) : Held[i] = x[i]
      /\ Held' = x \o queue'
  <2>1. Held = x \o queue /\ Held' = x \o queue'
    BY <1>0 DEF Held
  <2>. QED  BY <1>1, <2>1, HeldIs
<1>. PICK items : items = Run(produced + 1, produced + n)
  OBVIOUS
<1>3. /\ items \in Seq(1 .. produced + n) /\ Len(items) = n
      /\ \A i \in 1 .. n : items[i] = produced + i
  <2>1. /\ items \in Seq(produced + 1 .. produced + n) /\ Len(items) = produced + n + 1 - (produced + 1)
        /\ \A i \in 1 .. Len(items) : items[i] = produced + 1 + i - 1
    <3>. /\ produced + 1 \in Nat \ {0} /\ produced + n \in Nat
         /\ produced + 1 <= (produced + n) + 1
      BY <1>0
    <3>. QED  BY RunIs
  <2>2. Len(items) = n
    BY <1>0, <2>1
  <2>3. produced + 1 .. produced + n \subseteq 1 .. produced + n
    BY <1>0
  <2>. QED  BY <1>0, <2>1, <2>2, <2>3, SeqMonotonic
<1>4. CASE UNCHANGED viewer /\ (~Subscribed \/ overflowed)
  <2>1. Held' = Held /\ overflowed' = overflowed /\ overflowed
    BY <1>0, <1>2, <1>4 DEF viewer
  <2>2. PICK h : h = Held /\ Following(h, e)
    OBVIOUS
  <2>. QED  BY <1>0, <2>1, <2>2 DEF Following, Alive
<1>5. CASE queue' = <<Overflow>> /\ overflowed' = TRUE
  <2>. PICK h : h = Held /\ Following(h, e)
    OBVIOUS
  <2>. PICK y : y = x \o <<Overflow>>
    OBVIOUS
  <2>1. /\ y \in Seq(Item) /\ Len(y) = Len(x) + 1 /\ \A i \in 1 .. Len(x) : y[i] = x[i]
        /\ y[Len(x) + 1] = Overflow
    <3>1. <<Overflow>> \in Seq(Item) /\ Len(<<Overflow>>) = 1 /\ <<Overflow>>[1] = Overflow
      BY DEF Item
    <3>2. 1 \in 1 .. Len(<<Overflow>>)
      BY <3>1
    <3>. QED  BY <1>2, <3>1, <3>2, ConcatIs
  <2>2. /\ Follow(y, e) /\ ~Unmarked(y, Len(y))
    <3>. PICK k \in Nat : k = Len(x)
      BY <1>2
    <3>. h \in Seq(Item) /\ y \in Seq(Item) /\ k <= Len(h) /\ k < Len(y) /\ y[k + 1] = Overflow
      BY <1>2, <2>1
    <3>. \A i \in 1 .. k : y[i] = h[i]
      BY <1>2, <2>1
    <3>. QED  BY FollowingCut
  <2>3. Held' = y /\ ended' # "exit"
    BY <1>0, <1>2, <1>5
  <2>. QED  BY <2>2, <2>3 DEF Following
<1>6. CASE ~overflowed /\ queue' = queue \o items /\ UNCHANGED overflowed
  <2>. PICK h : h = Held /\ Following(h, e)
    OBVIOUS
  <2>1. Held' = h \o items /\ h \in Seq(Item)
    <3>2. x \o (queue \o items) = (x \o queue) \o items
      <4>1. x \in Seq(Item) /\ queue \in Seq(Item) /\ items \in Seq(1 .. produced + n)
        BY <1>1, <1>2, <1>3
      <4>. QED  BY ONLY <4>1, JoinJoin
    <3>. QED  BY <1>2, <1>6, <3>2
  <2>2. ended # "exit" /\ ended' = ended /\ produced \in Nat /\ produced' = produced + n /\ ~overflowed'
    BY <1>0, <1>6
  <2>. PICK y : y = h \o items
    OBVIOUS
  <2>3. n \in Nat \ {0} /\ Held' = y
    BY <2>1
  <2>. QED  BY <1>3, <2>1, <2>2, <2>3, FollowingRun
<1>. QED  BY <1>0, <1>4, <1>5, <1>6, PublishIs

\* The terminal writes.
LEMMA OnOutputPlaces ==
    ASSUME Control, NEW a, NEW at, Positions(a, at), NEW n \in 1 .. 2, OnOutput(n)
    PROVE  produced' > produced /\ fed' = fed /\ Positions(a, at)'
<1>0. /\ produced \in Nat /\ produced' = produced + n /\ produced' \in Nat /\ ended # "exit"
      /\ UNCHANGED <<ended, srv, replay, awaiting, buffer, sealed, pending, down, up, conn,
                     phase, replayDone, cqueue, resync, exited, xterm, unparsed, fed, code>>
  BY LimitsAssumption
     DEF OnOutput, Control, Typed, ServerTyped, handler, pane, screen
<1>1. RingCap \in Nat /\ Len(fed) \in Nat /\ Len(cqueue) \in Nat /\ Len(replay) \in Nat /\ Len(down) \in Nat
  BY LimitsAssumption, LenProperties DEF Control, Typed, PaneTyped, QueuesTyped, LineTyped
<1>s. ASSUME NEW b \in 0 .. produced, Start(b)  PROVE b \in 0 .. produced' /\ Start(b)'
  BY <1>0, <1>1, <1>s DEF Start
<1>2. Screen(a)'
  <2>1. /\ a \in 0 .. produced /\ Start(a) /\ Piece(fed, a) /\ Piece(cqueue, a + Len(fed))
        /\ a + Len(fed) + Len(cqueue) <= produced
    BY DEF Positions, Screen
  <2>2. a \in 0 .. produced' /\ Start(a)'
    BY <1>s, <2>1
  <2>3. a + Len(fed) + Len(cqueue) <= produced'
    BY <1>0, <1>1, <2>1
  <2>. QED  BY <1>0, <2>1, <2>2, <2>3 DEF Screen
<1>3. Ended(a)'
  BY <1>0 DEF Ended
<1>4. Line(a, at)'
  <2>. SUFFICES ASSUME conn = "open", srv # "accept"
                PROVE  /\ Wire(down, at)'
                       /\ IF SizeComes THEN Start(at[0])' ELSE at[0] = a + Len(fed) + Len(cqueue)
                       /\ srv # "off" => Unsent(at[Len(down)])'
    BY <1>0 DEF Line, SizeComes
  <2>. PICK k \in Nat : k = Len(down)
    BY <1>1
  <2>1. /\ at \in [0 .. k -> 0 .. produced]
        /\ \A i \in 1 .. k : Sits(down[i], at[i - 1], at[i])
        /\ IF SizeComes THEN Start(at[0]) ELSE at[0] = a + Len(fed) + Len(cqueue)
        /\ srv # "off" => Unsent(at[k])
    BY DEF Positions, Line, Wire
  <2>2. at[0] \in 0 .. produced /\ at[k] \in 0 .. produced
    <3>. 0 \in 0 .. k /\ k \in 0 .. k
      OBVIOUS
    <3>. QED  BY <2>1
  <2>3. Wire(down, at)'
    <3>1. at \in [0 .. k -> 0 .. produced']
      <4>. \A i \in 0 .. k : at[i] \in 0 .. produced'
        BY <1>0, <2>1
      <4>. QED  BY <2>1
    <3>2. \A i \in 1 .. k : Sits(down[i], at[i - 1], at[i])'
      BY <1>0, <2>1 DEF Sits
    <3>. QED  BY <1>0, <3>1, <3>2 DEF Wire
  <2>4. IF SizeComes THEN Start(at[0])' ELSE at[0] = a + Len(fed) + Len(cqueue)
    BY <1>s, <2>1, <2>2
  <2>5. ASSUME srv # "off"  PROVE Unsent(at[k])'
    <3>. PICK b \in 0 .. produced : b = at[k]
      BY <2>2
    <3>1. /\ Piece(replay, b) /\ b + Len(replay) <= produced
          /\ Subscribed => Following(Held, b + Len(replay))
      BY <2>1, <2>5 DEF Unsent
    <3>2. b + Len(replay) <= produced' /\ b + Len(replay) \in Nat
      BY <1>0, <1>1, <3>1
    <3>3. Subscribed => Following(Held, b + Len(replay))'
      <4>. SUFFICES ASSUME Subscribed  PROVE Following(Held, b + Len(replay))'
        OBVIOUS
      <4>. PICK e \in Nat : e = b + Len(replay)
        BY <3>2
      <4>1. Following(Held, e)'
        BY <3>1, OnOutputHeld
      <4>. QED  BY <1>0, <4>1
    <3>. QED  BY <1>0, <3>1, <3>2, <3>3 DEF Unsent, Subscribed
  <2>. QED  BY <1>0, <2>3, <2>4, <2>5
<1>5. produced' > produced
  BY <1>0
<1>. QED  BY <1>0, <1>2, <1>3, <1>4, <1>5 DEF Positions

\* The session ends.
LEMMA EndsPlaces ==
    ASSUME Control, NEW a, NEW at, Positions(a, at), NEW how \in {"exit", "kill"}, Ends(how)
    PROVE  produced' = produced /\ fed' = fed /\ Positions(a, at)'
<1>0. /\ produced \in Nat /\ produced' = produced /\ Alive /\ ended' = how /\ ~exited /\ srv # "final"
      /\ UNCHANGED <<srv, replay, awaiting, buffer, sealed, pending, down, up, conn,
                     phase, replayDone, cqueue, resync, exited, xterm, unparsed, fed, code>>
      /\ Publish(<<Exit>>)
  BY LimitsAssumption
     DEF Ends, Control, Typed, ServerTyped, handler, pane, screen, PaneOK, HandlerOK
<1>1. Len(fed) \in Nat /\ Len(cqueue) \in Nat /\ Len(replay) \in Nat /\ Len(down) \in Nat
  BY LenProperties DEF Control, Typed, PaneTyped, QueuesTyped, LineTyped
<1>2. Screen(a)' /\ Ended(a)'
  BY <1>0 DEF Screen, Ended, Start, Positions
<1>4. Line(a, at)'
  <2>. SUFFICES ASSUME conn = "open", srv # "accept"
                PROVE  /\ Wire(down, at)'
                       /\ IF SizeComes THEN Start(at[0])' ELSE at[0] = a + Len(fed) + Len(cqueue)
                       /\ srv # "off" => Unsent(at[Len(down)])'
    BY <1>0 DEF Line, SizeComes
  <2>. PICK k \in Nat : k = Len(down)
    BY <1>1
  <2>1. /\ at \in [0 .. k -> 0 .. produced]
        /\ \A i \in 1 .. k : Sits(down[i], at[i - 1], at[i])
        /\ IF SizeComes THEN Start(at[0]) ELSE at[0] = a + Len(fed) + Len(cqueue)
        /\ srv # "off" => Unsent(at[k])
    BY DEF Positions, Line, Wire
  <2>2. at[k] \in 0 .. produced
    <3>. k \in 0 .. k
      OBVIOUS
    <3>. QED  BY <2>1
  <2>3. Wire(down, at)'
    <3>1. ASSUME NEW i \in 1 .. k  PROVE Sits(down[i], at[i - 1], at[i])' /\ down[i].kind # "exit"
      <4>1. down[i].kind # "exit"
        BY <1>0 DEF Control, WireOK
      <4>2. Sits(down[i], at[i - 1], at[i])
        BY <2>1
      <4>. QED  BY <1>0, <4>1, <4>2 DEF Sits
    <3>. QED  BY <1>0, <2>1, <3>1 DEF Wire
  <2>4. IF SizeComes THEN Start(at[0])' ELSE at[0] = a + Len(fed) + Len(cqueue)
    BY <1>0, <2>1 DEF Start
  <2>5. ASSUME srv # "off"  PROVE Unsent(at[k])'
    <3>. PICK b \in 0 .. produced : b = at[k]
      BY <2>2
    <3>1. /\ Piece(replay, b) /\ b + Len(replay) <= produced
          /\ Subscribed => Following(Held, b + Len(replay))
      BY <2>1, <2>5 DEF Unsent
    <3>2. b + Len(replay) \in Nat
      BY <1>1
    <3>3. Subscribed => Following(Held, b + Len(replay))'
      <4>. SUFFICES ASSUME Subscribed  PROVE Following(Held, b + Len(replay))'
        OBVIOUS
      <4>. PICK e \in Nat : e = b + Len(replay)
        BY <3>2
      <4>. PICK h : h = Held
        OBVIOUS
      <4>0. /\ buffer \in Seq(Item) /\ pending \in Seq(Item) /\ queue \in Seq(Item) /\ h \in Seq(Item)
        BY HeldIs DEF Control, Typed, QueuesTyped
      <4>1. Following(h, e)
        BY <3>1
      <4>2. CASE UNCHANGED viewer /\ overflowed
        <5>1. Held' = h /\ overflowed' = overflowed
          BY <1>0, <4>2 DEF Held, viewer
        <5>2. ~Unmarked(h, Len(h))
          BY <4>1, <4>2 DEF Following
        <5>3. ASSUME NEW m \in 1 .. Len(h)  PROVE h[m] # Exit
          <6>. h[m] \in Item
            BY <4>0, ElementOfSeq
          <6>. QED  BY <1>0 DEF Item, Byte, Exit, Overflow
        <5>4. Following(Held, e)'
          BY <4>1, <5>1, <5>2, <5>3 DEF Following
        <5>. QED  BY <1>0, <5>4
      <4>3. CASE queue' = queue \o <<Exit>>
        <5>1. Held' = h \o <<Exit>>
          <6>1. Held' = (buffer \o pending) \o (queue \o <<Exit>>)
            BY <1>0, <4>3 DEF Held
          <6>2. buffer \o pending \in Seq(Item) /\ queue \in Seq(Item) /\ <<Exit>> \in Seq({Exit})
            BY <4>0, HeldIs
          <6>3. (buffer \o pending) \o (queue \o <<Exit>>) = ((buffer \o pending) \o queue) \o <<Exit>>
            BY ONLY <6>2, JoinJoin
          <6>. QED  BY <6>1, <6>3 DEF Held
        <5>2. Following(Held, e)'
          BY <1>0, <4>0, <4>1, <5>1, FollowingExit
        <5>. QED  BY <1>0, <5>2
      <4>4. IsMark(Last(<<Exit>>))
        BY DEF Last, IsMark, Exit
      <4>. QED  BY <1>0, <4>2, <4>3, <4>4, PublishIs
    <3>. QED  BY <1>0, <3>1, <3>3 DEF Unsent, Subscribed
  <2>. QED  BY <1>0, <2>3, <2>4, <2>5
<1>. QED  BY <1>0, <1>2, <1>4 DEF Positions

\* Messages behind the first leave the first where it is.
LEMMA SizeStays ==
    ASSUME Control, NEW t \in Seq(Messages), \A i \in 1 .. Len(t) : t[i].kind # "size", down' = down \o t
    PROVE  SizeComes' <=> SizeComes
<1>. PICK d : d = down
  OBVIOUS
<1>. PICK x : x = down'
  OBVIOUS
<1>1. /\ d \in Seq(Messages) /\ x \in Seq(Messages) /\ Len(d) \in Nat /\ Len(t) \in Nat
      /\ Len(x) = Len(d) + Len(t)
      /\ \A i \in 1 .. Len(d) : x[i] = d[i]
      /\ \A i \in 1 .. Len(t) : x[Len(d) + i] = t[i]
  BY ConcatIs DEF Control, Typed, LineTyped
<1>2. CASE Len(d) > 0
  <2>1. Len(x) > 0 /\ x[1] = d[1]
    BY <1>1, <1>2
  <2>. QED  BY <1>1, <1>2, <2>1, EmptySeq DEF SizeComes
<1>3. CASE Len(d) = 0
  <2>1. d = <<>>
    BY <1>1, <1>3, EmptySeq
  <2>2. Len(t) > 0 => x[1] = t[1] /\ 1 \in 1 .. Len(t)
    <3>. SUFFICES ASSUME Len(t) > 0  PROVE x[1] = t[1] /\ 1 \in 1 .. Len(t)
      OBVIOUS
    <3>1. 1 \in 1 .. Len(t) /\ Len(d) + 1 = 1
      BY <1>1, <1>3
    <3>. QED  BY <1>1, <3>1
  <2>3. Len(t) = 0 => x = <<>>
    BY <1>1, <1>3, EmptySeq
  <2>. QED  BY <1>1, <2>1, <2>2, <2>3 DEF SizeComes
<1>. QED  BY <1>1, <1>2, <1>3

\* What the handler does: messages more on the wire, and less to send.
LEMMA HandlerOnward ==
    ASSUME Control, NEW a, NEW at, Positions(a, at), srv \notin {"off", "accept"}, srv' # "accept",
           UNCHANGED <<produced, ended, fed, cqueue, exited, code, conn>>,
           NEW t \in Seq(Messages), \A i \in 1 .. Len(t) : t[i].kind # "size", down' = down \o t,
           NEW d, d = down', NEW bt, Wire(d, bt), bt[0] = at[0],
           srv' # "off" => Unsent(bt[Len(d)])'
    PROVE  Onward(a)
<1>1. conn = "open" /\ conn' = "open"
  BY DEF Control, HandlerOK
<1>2. SizeComes' <=> SizeComes
  BY SizeStays
<1>3. Screen(a)' /\ Ended(a)'
  BY DEF Screen, Ended, Start, Positions
<1>4. IF SizeComes THEN Start(at[0]) ELSE at[0] = a + Len(fed) + Len(cqueue)
  BY <1>1 DEF Positions, Line
<1>5. Wire(down, bt)'
  BY DEF Wire, Sits
<1>6. (IF SizeComes THEN Start(bt[0]) ELSE bt[0] = a + Len(fed) + Len(cqueue))'
  BY <1>2, <1>4 DEF Start
<1>7. Line(a, bt)'
  BY <1>5, <1>6 DEF Line
<1>. QED  BY <1>3, <1>7 DEF Onward, Positions

\* The position of the end of the wire.
LEMMA WireEnd ==
    ASSUME Control, NEW a, NEW at, Positions(a, at), srv \notin {"off", "accept"}
    PROVE  /\ down \in Seq(Messages) /\ Wire(down, at) /\ at[Len(down)] \in 0 .. produced
           /\ Unsent(at[Len(down)]) /\ produced \in Nat /\ Len(replay) \in Nat
<1>1. Wire(down, at) /\ Unsent(at[Len(down)])
  BY DEF Control, HandlerOK, Positions, Line
<1>2. down \in Seq(Messages) /\ produced \in Nat /\ Len(replay) \in Nat
  BY LenProperties, LimitsAssumption DEF Control, Typed, ServerTyped, QueuesTyped, LineTyped
<1>3. at[Len(down)] \in 0 .. produced
  <2>. PICK k \in Nat : k = Len(down)
    BY <1>2, LenProperties
  <2>. k \in 0 .. k /\ at \in [0 .. k -> 0 .. produced]
    BY <1>1 DEF Wire
  <2>. QED  OBVIOUS
<1>. QED  BY <1>1, <1>2, <1>3

\* Nothing is sent, and what is held stays the same.
LEMMA QuietOnward ==
    ASSUME Control, NEW a, NEW at, Positions(a, at), srv \notin {"off", "accept"}, srv' \notin {"off", "accept"},
           UNCHANGED <<produced, ended, replay, overflowed, down, fed, cqueue, exited, code, conn>>,
           srv' = "final" => srv = "final", Subscribed' => Subscribed,
           \A e \in Nat : Subscribed /\ Following(Held, e) => Following(Held, e)'
    PROVE  Onward(a)
<1>1. /\ down \in Seq(Messages) /\ Wire(down, at) /\ at[Len(down)] \in 0 .. produced
      /\ Unsent(at[Len(down)]) /\ produced \in Nat /\ Len(replay) \in Nat
  BY WireEnd
<1>2. PICK d : d = down /\ d = down \o <<>>
  BY <1>1, ConcatEmptySeq
<1>3. PICK b \in Nat : b = at[Len(d)]
  BY <1>1, <1>2
<1>4. Unsent(b)'
  <2>1. /\ Piece(replay, b) /\ b + Len(replay) <= produced
        /\ srv = "final" /\ ended = "exit" => b + Len(replay) = produced
        /\ Subscribed => Following(Held, b + Len(replay))
    BY <1>1, <1>2, <1>3 DEF Unsent
  <2>2. PICK e \in Nat : e = b + Len(replay)
    BY <1>1
  <2>3. Subscribed' => Following(Held, e)'
    BY <2>1, <2>2
  <2>4. (Subscribed => Following(Held, b + Len(replay)))'
    BY <2>2, <2>3
  <2>. QED  BY <2>1, <2>4 DEF Unsent
<1>5. down' = down \o <<>> /\ d = down' /\ <<>> \in Seq(Messages) /\ \A i \in 1 .. Len(<<>>) : <<>>[i].kind # "size"
  BY <1>2, EmptySeq
<1>6. Wire(d, at) /\ (srv' # "off" => Unsent(at[Len(d)])')
  BY <1>1, <1>2, <1>3, <1>4
<1>7. at[0] = at[0] /\ srv' # "accept"
  OBVIOUS
<1>. QED  BY <1>5, <1>6, <1>7, HandlerOnward

\* An acknowledgement is taken.
LEMMA ReceiveAckOnward ==
    ASSUME Control, NEW a, NEW at, Positions(a, at), ReceiveAck
    PROVE  Onward(a)
<1>1. /\ srv \notin {"off", "accept"} /\ srv' = srv
      /\ UNCHANGED <<produced, ended, replay, overflowed, buffer, pending, queue, down, fed, cqueue, exited, code, conn>>
  BY DEF ReceiveAck, Control, HandlerOK, terminal, viewer, pane, screen
<1>2. ASSUME NEW e \in Nat, Following(Held, e)  PROVE Following(Held, e)'
  <2>. PICK h : h = Held
    OBVIOUS
  <2>. Held' = h /\ Following(h, e)
    BY <1>1, <1>2 DEF Held
  <2>. QED  BY <1>1, FollowingSame
<1>. QED  BY <1>1, <1>2, QuietOnward DEF Subscribed

\* The first n and the rest.
LEMMA UptoAfter ==
    ASSUME NEW S, NEW s \in Seq(S), NEW n \in Nat
    PROVE  Upto(s, n) \o After(s, n) = s
<1>. PICK l \in Nat : l = Len(s)
  BY LenProperties
<1>. PICK u : u = Upto(s, n)
  OBVIOUS
<1>. PICK r : r = After(s, n)
  OBVIOUS
<1>. PICK k \in Nat : k = Least(n, l)
  BY DEF Least
<1>1. u \in Seq(S) /\ Len(u) = k /\ \A i \in 1 .. k : u[i] = s[i]
  BY UptoIs
<1>2. /\ r \in Seq(S) /\ Len(r) = IF n < l THEN l - n ELSE 0
      /\ \A i \in 1 .. Len(r) : r[i] = s[n + i]
  BY AfterIs
<1>3. k + Len(r) = l /\ (Len(r) > 0 => k = n)
  BY <1>2 DEF Least
<1>t. PICK t : t = u \o r
  OBVIOUS
<1>4. /\ t \in Seq(S) /\ Len(t) = k + Len(r) /\ \A i \in 1 .. k : t[i] = u[i]
      /\ \A i \in 1 .. Len(r) : t[k + i] = r[i]
  <2>1. u \in Seq(S) /\ r \in Seq(S) /\ Len(u) = k
    BY <1>1, <1>2
  <2>2. /\ u \o r \in Seq(S) /\ Len(u \o r) = Len(u) + Len(r)
        /\ \A i \in 1 .. Len(u) : (u \o r)[i] = u[i]
        /\ \A i \in 1 .. Len(r) : (u \o r)[Len(u) + i] = r[i]
    <3>1. u \in Seq(S) /\ r \in Seq(S)
      BY <2>1
    <3>. QED  BY ONLY <3>1, ConcatIs
  <2>. QED  BY <2>1, <2>2, <1>t
<1>5. ASSUME NEW i \in 1 .. l  PROVE t[i] = s[i]
  <2>1. CASE i \in 1 .. k
    BY <1>1, <1>4, <2>1
  <2>2. CASE i \in k + 1 .. l
    <3>1. i - k \in 1 .. Len(r) /\ k + (i - k) = i /\ k = n
      BY <1>2, <1>3, <2>2
    <3>2. t[k + (i - k)] = r[i - k] /\ r[i - k] = s[n + (i - k)]
      BY <1>2, <1>4, <3>1
    <3>. QED  BY <3>1, <3>2
  <2>3. i \in 1 .. k \/ i \in k + 1 .. l
    OBVIOUS
  <2>. QED  BY <2>1, <2>2, <2>3
<1>. QED  BY <1>3, <1>4, <1>5, <1>t, SeqEqual

\* take(): what was held is held.
LEMMA StartPumpOnward ==
    ASSUME Control, NEW a, NEW at, Positions(a, at), StartPump
    PROVE  Onward(a)
<1>1. /\ srv = "handover" /\ srv' = "live" /\ buffer' = <<>>
      /\ pending' = buffer \o (IF sealed THEN <<>> ELSE queue)
      /\ queue' = IF sealed THEN queue ELSE <<>>
      /\ UNCHANGED <<produced, ended, replay, overflowed, down, fed, cqueue, exited, code, conn>>
  BY DEF StartPump, terminal, pane, screen
<1>2. /\ queue \in Seq(Item) /\ buffer \in Seq(Item) /\ pending = <<>>
  BY <1>1 DEF Control, Typed, QueuesTyped, HandlerOK
<1>3. Held' = Held
  <2>1. Held = buffer \o queue
    BY <1>2, ConcatEmptySeq DEF Held
  <2>2. Held' = pending' \o queue'
    <3>1. pending' \in Seq(Item)
      BY <1>1, <1>2, ConcatIs, EmptySeq
    <3>. QED  BY <1>1, <3>1, ConcatEmptySeq DEF Held
  <2>3. CASE sealed
    BY <1>1, <1>2, <2>1, <2>2, <2>3, ConcatEmptySeq
  <2>4. CASE ~sealed
    <3>1. buffer \o queue \in Seq(Item)
      BY <1>2, ConcatIs
    <3>. QED  BY <1>1, <2>1, <2>2, <2>4, <3>1, ConcatEmptySeq
  <2>. QED  BY <2>3, <2>4
<1>4. ASSUME NEW e \in Nat, Following(Held, e)  PROVE Following(Held, e)'
  <2>. PICK h : h = Held
    OBVIOUS
  <2>. Held' = h /\ Following(h, e)
    BY <1>3, <1>4
  <2>. QED  BY <1>1, FollowingSame
<1>. QED  BY <1>1, <1>4, QuietOnward DEF Subscribed

\* The handshake buffer takes what is queued, or marks where it is full.
LEMMA DrainOnward ==
    ASSUME Control, NEW a, NEW at, Positions(a, at), Drain
    PROVE  Onward(a)
<1>. PICK mark : mark = FirstMark(queue)
  OBVIOUS
<1>. PICK room : room = BufferMax - Len(buffer)
  OBVIOUS
<1>1. /\ queue \in Seq(Item) /\ buffer \in Seq(Item) /\ Len(queue) \in Nat /\ Len(buffer) \in Nat
      /\ Len(buffer) < BufferMax /\ BufferMax \in Nat \ {0}
      /\ srv \in {"replay", "handover"} /\ ~sealed /\ pending = <<>>
      /\ UNCHANGED <<srv, pending, produced, ended, replay, overflowed, down, fed, cqueue, exited, code, conn>>
      /\ \/ /\ mark \in 1 .. room
            /\ buffer' = buffer \o Upto(queue, mark)
            /\ queue' = After(queue, mark)
         \/ /\ Len(queue) >= room
            /\ buffer' = buffer \o Upto(queue, room) \o <<Overflow>>
            /\ queue' = After(queue, room)
         \/ /\ buffer' = buffer \o queue
            /\ queue' = <<>>
  BY LimitsAssumption, LenProperties
     DEF Drain, Control, Typed, QueuesTyped, Bounded, HandlerOK, terminal, pane, screen
<1>2. room \in Nat \ {0}
  BY <1>1
<1>3. Held = buffer \o queue
  BY <1>1, ConcatEmptySeq DEF Held
<1>. PICK h : h = Held
  OBVIOUS
<1>4. h \in Seq(Item) /\ Len(h) = Len(buffer) + Len(queue)
      /\ (\A i \in 1 .. Len(buffer) : h[i] = buffer[i])
      /\ \A i \in 1 .. Len(queue) : h[Len(buffer) + i] = queue[i]
  BY <1>1, <1>3, ConcatIs
<1>5. ASSUME NEW e \in Nat, Following(Held, e)  PROVE Following(Held, e)'
  <2>1. CASE /\ mark \in 1 .. room
             /\ buffer' = buffer \o Upto(queue, mark)
             /\ queue' = After(queue, mark)
    <3>1. Upto(queue, mark) \in Seq(Item) /\ After(queue, mark) \in Seq(Item)
          /\ Upto(queue, mark) \o After(queue, mark) = queue
      <4>1. queue \in Seq(Item) /\ mark \in Nat
        BY <1>1, <1>2, <2>1
      <4>. QED  BY ONLY <4>1, UptoIs, AfterIs, UptoAfter
    <3>2. buffer \o Upto(queue, mark) \in Seq(Item)
      BY <1>1, <3>1, ConcatIs
    <3>3. Held' = (buffer \o Upto(queue, mark)) \o After(queue, mark)
      BY <1>1, <2>1, <3>2, ConcatEmptySeq DEF Held
    <3>4. (buffer \o Upto(queue, mark)) \o After(queue, mark) = buffer \o (Upto(queue, mark) \o After(queue, mark))
      <4>1. buffer \in Seq(Item) /\ Upto(queue, mark) \in Seq(Item) /\ After(queue, mark) \in Seq(Item)
        BY <1>1, <3>1
      <4>. QED  BY ONLY <4>1, ConcatAssociative
    <3>. Held' = h /\ Following(h, e)
      BY <1>3, <1>5, <3>1, <3>3, <3>4
    <3>. QED  BY <1>1, FollowingSame
  <2>2. CASE /\ Len(queue) >= room
             /\ buffer' = buffer \o Upto(queue, room) \o <<Overflow>>
             /\ queue' = After(queue, room)
    <3>. PICK u : u = Upto(queue, room)
      OBVIOUS
    <3>. PICK k \in Nat : k = Len(buffer) + room
      BY <1>1, <1>2
    <3>1. u \in Seq(Item) /\ Len(u) = room /\ \A i \in 1 .. room : u[i] = queue[i]
      <4>. Least(room, Len(queue)) = room
        BY <1>1, <1>2, <2>2 DEF Least
      <4>. QED  BY <1>1, <1>2, UptoIs
    <3>x. PICK x : x = buffer \o u
      OBVIOUS
    <3>2. /\ x \in Seq(Item) /\ Len(x) = k
          /\ \A i \in 1 .. Len(buffer) : x[i] = buffer[i]
          /\ \A i \in 1 .. room : x[Len(buffer) + i] = u[i]
      <4>1. buffer \in Seq(Item) /\ u \in Seq(Item) /\ Len(buffer) \in Nat /\ Len(u) = room
        BY <1>1, <3>1, LenProperties
      <4>2. /\ buffer \o u \in Seq(Item) /\ Len(buffer \o u) = Len(buffer) + Len(u)
            /\ \A i \in 1 .. Len(buffer) : (buffer \o u)[i] = buffer[i]
            /\ \A i \in 1 .. Len(u) : (buffer \o u)[Len(buffer) + i] = u[i]
        <5>1. buffer \in Seq(Item) /\ u \in Seq(Item)
          BY <4>1
        <5>2. /\ buffer \o u \in Seq(Item) /\ Len(buffer \o u) = Len(buffer) + Len(u)
              /\ \A i \in 1 .. Len(buffer) : (buffer \o u)[i] = buffer[i]
          BY ONLY <5>1, ConcatIs
        <5>3. \A i \in 1 .. Len(u) : (buffer \o u)[Len(buffer) + i] = u[i]
          BY ONLY <5>1, ConcatIs
        <5>. QED  BY ONLY <5>2, <5>3
      <4>3. Len(x) = k
        BY <4>1, <4>2, <3>x
      <4>. QED  BY ONLY <4>1, <4>2, <4>3, <3>x
    <3>. PICK y : y = x \o <<Overflow>>
      OBVIOUS
    <3>3. y \in Seq(Item) /\ Len(y) = k + 1 /\ (\A i \in 1 .. k : y[i] = x[i]) /\ y[k + 1] = Overflow
      <4>1. <<Overflow>> \in Seq(Item) /\ Len(<<Overflow>>) = 1 /\ <<Overflow>>[1] = Overflow
        BY DEF Item
      <4>2. 1 \in 1 .. Len(<<Overflow>>)
        BY <4>1
      <4>. QED  BY <3>2, <4>1, <4>2, ConcatIs
    <3>. PICK r : r = After(queue, room)
      OBVIOUS
    <3>z. PICK z : z = y \o r
      OBVIOUS
    <3>4. /\ z \in Seq(Item) /\ Len(z) = k + 1 + Len(r) /\ Len(r) \in Nat
          /\ \A i \in 1 .. k + 1 : z[i] = y[i]
      <4>1. r \in Seq(Item) /\ y \in Seq(Item) /\ Len(y) = k + 1
        BY <1>1, <1>2, <3>3, AfterIs
      <4>2. Len(r) \in Nat
        BY ONLY <4>1, LenProperties
      <4>3. z \in Seq(Item) /\ Len(z) = Len(y) + Len(r) /\ \A i \in 1 .. Len(y) : z[i] = y[i]
        BY ONLY <4>1, <3>z, ConcatIs
      <4>. QED  BY ONLY <4>1, <4>2, <4>3
    <3>5. Held' = z
      <4>1. buffer' = y /\ queue' = r /\ pending' = <<>>
        <5>1. buffer' = (buffer \o u) \o <<Overflow>> /\ queue' = r
          BY <2>2
        <5>2. pending' = <<>>
          BY <1>1
        <5>3. y = (buffer \o u) \o <<Overflow>>
          BY <3>x
        <5>. QED  BY ONLY <5>1, <5>2, <5>3
      <4>2. y \o <<>> = y
        BY <3>3, ConcatEmptySeq
      <4>. QED  BY ONLY <4>1, <4>2, <3>z DEF Held
    <3>6. ASSUME NEW i \in 1 .. k  PROVE z[i] = h[i]
      <4>1. z[i] = x[i]
        <5>. i \in 1 .. k + 1
          OBVIOUS
        <5>. QED  BY <3>3, <3>4
      <4>2. CASE i \in 1 .. Len(buffer)
        BY <1>4, <3>2, <4>1, <4>2
      <4>3. CASE i \in Len(buffer) + 1 .. k
        <5>1. i - Len(buffer) \in 1 .. room /\ i - Len(buffer) \in 1 .. Len(queue)
              /\ Len(buffer) + (i - Len(buffer)) = i
          BY <1>1, <1>2, <2>2, <4>3
        <5>2. x[Len(buffer) + (i - Len(buffer))] = u[i - Len(buffer)]
          BY <3>2, <5>1
        <5>3. h[Len(buffer) + (i - Len(buffer))] = queue[i - Len(buffer)]
          BY <1>4, <5>1
        <5>. QED  BY <3>1, <4>1, <5>1, <5>2, <5>3
      <4>4. i \in 1 .. Len(buffer) \/ i \in Len(buffer) + 1 .. k
        BY <1>1
      <4>. QED  BY <4>2, <4>3, <4>4
    <3>7. /\ Follow(z, e) /\ ~Unmarked(z, Len(z))
          /\ \A m \in 1 .. Len(z) :
                z[m] = Exit /\ ended = "exit" /\ Unmarked(z, m - 1) => e + m - 1 = produced
      <4>1. k \in Nat /\ k <= Len(h) /\ e \in Nat /\ z \in Seq(Item) /\ h \in Seq(Item) /\ Following(h, e)
        BY <1>1, <1>2, <1>4, <1>5, <2>2, <3>4
      <4>2. k < Len(z)
        BY <3>4
      <4>3. z[k + 1] = Overflow
        <5>. k + 1 \in 1 .. k + 1
          OBVIOUS
        <5>. QED  BY <3>3, <3>4
      <4>. QED  BY ONLY <3>6, <4>1, <4>2, <4>3, FollowingCut
    <3>. QED  BY <1>1, <3>5, <3>7 DEF Following
  <2>3. CASE buffer' = buffer \o queue /\ queue' = <<>>
    <3>1. buffer \o queue \in Seq(Item)
      BY <1>1, ConcatIs
    <3>. Held' = h /\ Following(h, e)
      BY <1>1, <1>3, <1>5, <2>3, <3>1, ConcatEmptySeq DEF Held
    <3>. QED  BY <1>1, FollowingSame
  <2>. QED  BY <1>1, <2>1, <2>2, <2>3
<1>. QED  BY <1>1, <1>5, QuietOnward DEF Subscribed

\* The handler sends its last messages, which are no bytes.
LEMMA StopsOnward ==
    ASSUME Control, NEW a, NEW at, Positions(a, at), srv \notin {"off", "accept"}, srv' = "off",
           UNCHANGED <<produced, ended, fed, cqueue, exited, code, conn>>,
           NEW t \in Seq(Messages), down' = down \o t, Silent(t, at[Len(down)])
    PROVE  Onward(a)
<1>1. down \in Seq(Messages) /\ Wire(down, at)
  BY WireEnd
<1>2. PICK d0 : d0 = down
  OBVIOUS
<1>3. PICK d : d = d0 \o t
  OBVIOUS
<1>4. Silent(t, at[Len(d0)])
  BY <1>2
<1>5. PICK bt : Wire(d, bt) /\ bt[0] = at[0] /\ bt[Len(d)] = at[Len(d0)]
  <2>1. d0 \in Seq(Messages) /\ Wire(d0, at) /\ t \in Seq(Messages) /\ Silent(t, at[Len(d0)])
    BY <1>1, <1>2, <1>4
  <2>2. \E bt : Wire(d0 \o t, bt) /\ bt[0] = at[0] /\ bt[Len(d0 \o t)] = at[Len(d0)]
    BY ONLY <2>1, WireOn
  <2>. QED  BY <1>3, <2>2
<1>6. d = down'
  BY <1>2, <1>3
<1>7. (\A i \in 1 .. Len(t) : t[i].kind # "size") /\ srv' # "accept" /\ (srv' # "off" => Unsent(bt[Len(d)])')
  BY DEF Silent
<1>. QED  BY <1>5, <1>6, <1>7, HandlerOnward

\* 1013 for a full input queue, 1002 for a late acknowledgement.
LEMMA GivesUpOnward ==
    ASSUME Control, NEW a, NEW at, Positions(a, at), InputFull \/ AckTimeout
    PROVE  Onward(a)
<1>1. /\ srv \notin {"off", "accept"} /\ srv' = "off"
      /\ UNCHANGED <<produced, ended, fed, cqueue, exited, code, conn>>
  BY DEF InputFull, AckTimeout, HandlerEnds, Control, HandlerOK, terminal, pane, screen
<1>2. PICK kind \in {"close1013", "close1002"} : down' = Append(down, Message(kind))
  BY DEF InputFull, AckTimeout
<1>3. Message(kind) \in Messages /\ Message(kind).kind = kind /\ Message(kind).bytes = <<>>
  BY MessageIs DEF Kinds
<1>4. PICK t : t = <<Message(kind)>>
  OBVIOUS
<1>5. t \in Seq(Messages) /\ Len(t) = 1 /\ t[1] = Message(kind) /\ down' = down \o t
  BY <1>2, <1>3, <1>4, AppendIsConcat DEF Control, Typed, LineTyped
<1>6. Silent(t, at[Len(down)])
  BY <1>3, <1>5 DEF Silent
<1>. QED  BY <1>1, <1>5, <1>6, StopsOnward

\* replay_done, and for an exited session its exit: all of the ring is sent by then.
LEMMA ReplayDoneOnward ==
    ASSUME Control, NEW a, NEW at, Positions(a, at), ReplayDone
    PROVE  Onward(a)
<1>0. /\ srv \in {"replay", "final"} /\ replay = <<>>
      /\ UNCHANGED <<produced, ended, fed, cqueue, exited, code, conn>>
  BY DEF ReplayDone, terminal, pane, screen
<1>1. /\ down \in Seq(Messages) /\ Wire(down, at) /\ at[Len(down)] \in 0 .. produced
      /\ Unsent(at[Len(down)]) /\ produced \in Nat
  BY <1>0, WireEnd
<1>m. \A kind \in Kinds : Message(kind) \in Messages /\ Message(kind).kind = kind /\ Message(kind).bytes = <<>>
  BY MessageIs
<1>2. CASE srv = "final"
  <2>1. PICK t : t = <<Message("done"), Message("exit"), Message("close1000")>>
    OBVIOUS
  <2>2. srv' = "off" /\ down' = down \o t
    BY <1>2, <2>1 DEF ReplayDone, HandlerEnds
  <2>m. /\ Message("done") \in Messages /\ Message("done").kind = "done" /\ Message("done").bytes = <<>>
        /\ Message("exit") \in Messages /\ Message("exit").kind = "exit" /\ Message("exit").bytes = <<>>
        /\ Message("close1000") \in Messages /\ Message("close1000").kind = "close1000"
        /\ Message("close1000").bytes = <<>>
    BY <1>m DEF Kinds
  <2>3. /\ t \in Seq(Messages) /\ Len(t) = 3 /\ t[1].kind = "done" /\ t[2].kind = "exit" /\ t[3].kind = "close1000"
        /\ t[1].bytes = <<>> /\ t[2].bytes = <<>> /\ t[3].bytes = <<>>
    BY <2>1, <2>m
  <2>4. ended = "exit" => at[Len(down)] = produced
    <3>. Len(replay) = 0
      BY <1>0, EmptySeq
    <3>. PICK b \in Nat : b = at[Len(down)]
      BY <1>1
    <3>. QED  BY <1>1, <1>2 DEF Unsent
  <2>5. Silent(t, at[Len(down)])
    <3>. SUFFICES ASSUME NEW i \in 1 .. Len(t)  PROVE t[i].kind # "size" /\ t[i].bytes = <<>>
      BY <2>4 DEF Silent
    <3>. i = 1 \/ i = 2 \/ i = 3
      BY <2>3
    <3>. QED  BY <2>3
  <2>. QED  BY <1>0, <2>2, <2>3, <2>5, StopsOnward
<1>3. CASE srv = "replay"
  <2>1. PICK t : t = <<Message("done")>>
    OBVIOUS
  <2>2. PICK d0 : d0 = down
    OBVIOUS
  <2>3. PICK d : d = d0 \o t
    OBVIOUS
  <2>m. Message("done") \in Messages /\ Message("done").kind = "done" /\ Message("done").bytes = <<>>
    BY <1>m DEF Kinds
  <2>4. /\ t \in Seq(Messages) /\ Len(t) = 1 /\ t[1].kind = "done" /\ t[1].bytes = <<>>
    BY <2>1, <2>m
  <2>5. down' = d
    <3>. down' = Append(down, Message("done"))
      BY <1>3 DEF ReplayDone
    <3>. QED  BY <1>1, <2>1, <2>2, <2>3, <2>m, AppendIsConcat
  <2>6. PICK bt : Wire(d, bt) /\ bt[0] = at[0] /\ bt[Len(d)] = at[Len(d0)]
    <3>1. Silent(t, at[Len(d0)])
      BY <2>4 DEF Silent
    <3>2. d0 \in Seq(Messages) /\ Wire(d0, at) /\ t \in Seq(Messages)
      BY <1>1, <2>2, <2>4
    <3>3. \E bt : Wire(d0 \o t, bt) /\ bt[0] = at[0] /\ bt[Len(d0 \o t)] = at[Len(d0)]
      BY ONLY <3>1, <3>2, WireOn
    <3>. QED  BY <2>3, <3>3
  <2>7. PICK b \in Nat : b = at[Len(d0)] /\ Unsent(b)
    BY <1>1, <2>2
  <2>8. /\ srv' = "handover" /\ UNCHANGED <<replay, buffer, pending, queue, overflowed>>
    BY <1>3 DEF ReplayDone, viewer
  <2>9. Unsent(b)'
    <3>1. Subscribed /\ Following(Held, b + Len(replay))
      BY <1>3, <2>7 DEF Unsent, Subscribed
    <3>2. Following(Held, b + Len(replay))'
      <4>. PICK e : e = b + Len(replay)
        OBVIOUS
      <4>. PICK h : h = Held
        OBVIOUS
      <4>1. Following(h, e) /\ Held' = h
        BY <2>8, <3>1 DEF Held
      <4>2. Following(Held, e)'
        BY <1>0, <2>8, <4>1, FollowingSame
      <4>. QED  BY <2>8, <4>2
    <3>. QED  BY <1>0, <2>7, <2>8, <3>2 DEF Unsent
  <2>10. /\ srv \notin {"off", "accept"} /\ srv' # "accept" /\ t \in Seq(Messages)
         /\ (\A i \in 1 .. Len(t) : t[i].kind # "size") /\ down' = down \o t
         /\ bt[Len(d)] = b
    BY <1>3, <2>2, <2>3, <2>4, <2>5, <2>6, <2>7, <2>8
  <2>. QED  BY <1>0, <2>5, <2>6, <2>9, <2>10, HandlerOnward
<1>. QED  BY <1>0, <1>2, <1>3

\* A frame of bytes behind what is on the wire.
LEMMA FrameOn ==
    ASSUME NEW d \in Seq(Messages), NEW at, Wire(d, at), NEW frame \in Seq(Byte), NEW b \in Nat, b = at[Len(d)],
           Piece(frame, b), b + Len(frame) <= produced, produced \in Nat
    PROVE  /\ Data(frame) \in Messages /\ Data(frame).kind = "data"
           /\ \E bt : Wire(Append(d, Data(frame)), bt) /\ bt[0] = at[0]
                      /\ bt[Len(Append(d, Data(frame)))] = b + Len(frame)
<1>1. PICK m : m = Data(frame)
  OBVIOUS
<1>2. m \in Messages /\ m.kind = "data" /\ m.bytes = frame
  BY <1>1 DEF Data, Messages, Kinds
<1>3. PICK n \in 0 .. produced : n = b + Len(frame)
  <2>. Len(frame) \in Nat
    BY LenProperties
  <2>. QED  OBVIOUS
<1>4. Sits(m, at[Len(d)], n)
  BY <1>2, <1>3 DEF Sits
<1>5. Fits(d, at, m, n) /\ produced \in Nat
  BY <1>2, <1>4 DEF Fits
<1>6. \E bt : Wire(Append(d, m), bt) /\ bt[0] = at[0] /\ bt[Len(Append(d, m))] = n
  BY ONLY <1>5, WireOne
<1>. QED  BY <1>1, <1>2, <1>3, <1>6

\* A frame of the replay.
LEMMA SendFrameOnward ==
    ASSUME Control, NEW a, NEW at, Positions(a, at), SendFrame
    PROVE  Onward(a)
<1>1. PICK frame : frame = Upto(replay, FrameMax)
  OBVIOUS
<1>2. PICK rest : rest = After(replay, FrameMax)
  OBVIOUS
<1>0. /\ srv \in {"replay", "final"} /\ srv' = srv
      /\ down' = Append(down, Data(frame)) /\ replay' = rest
      /\ UNCHANGED <<produced, ended, overflowed, buffer, pending, queue, fed, cqueue, exited, code, conn>>
  BY <1>1, <1>2 DEF SendFrame, terminal, viewer, pane, screen
<1>3. /\ down \in Seq(Messages) /\ Wire(down, at) /\ at[Len(down)] \in 0 .. produced
      /\ Unsent(at[Len(down)]) /\ produced \in Nat /\ Len(replay) \in Nat
  BY <1>0, WireEnd
<1>4. PICK b \in Nat : b = at[Len(down)]
  BY <1>3
<1>5. PICK l \in Nat, k \in Nat : l = Len(replay) /\ k = Least(FrameMax, l)
  BY <1>3, LimitsAssumption DEF Least
<1>6. /\ frame \in Seq(Byte) /\ Len(frame) = k /\ \A i \in 1 .. k : frame[i] = replay[i]
      /\ rest \in Seq(Byte) /\ Len(rest) = l - k
      /\ \A i \in 1 .. Len(rest) : rest[i] = replay[k + i]
  <2>1. replay \in Seq(Byte) /\ FrameMax \in Nat
    BY LimitsAssumption DEF Control, Typed, QueuesTyped
  <2>2. /\ frame \in Seq(Byte) /\ Len(frame) = k /\ \A i \in 1 .. k : frame[i] = replay[i]
    BY <1>1, <1>5, <2>1, UptoIs
  <2>3. /\ rest \in Seq(Byte) /\ Len(rest) = (IF FrameMax < l THEN l - FrameMax ELSE 0)
        /\ \A i \in 1 .. Len(rest) : rest[i] = replay[FrameMax + i]
    BY <1>2, <1>5, <2>1, AfterIs
  <2>4. Len(rest) = l - k /\ (Len(rest) > 0 => k = FrameMax)
    BY <1>5, <2>1, <2>3 DEF Least
  <2>5. \A i \in 1 .. Len(rest) : Len(rest) > 0
    BY <1>5, <2>4
  <2>. QED  BY <2>2, <2>3, <2>4, <2>5
<1>7. k <= l
  BY <1>5, LimitsAssumption DEF Least
<1>8. /\ Piece(replay, b) /\ b + l <= produced
      /\ srv = "final" /\ ended = "exit" => b + l = produced
      /\ Subscribed => Following(Held, b + l)
  BY <1>3, <1>4, <1>5 DEF Unsent
<1>9. Piece(frame, b) /\ b + Len(frame) <= produced
  <2>. \A i \in 1 .. k : i \in 1 .. l
    BY <1>7
  <2>. QED  BY <1>3, <1>5, <1>6, <1>7, <1>8 DEF Piece
<1>10. Piece(rest, b + k)
  <2>. SUFFICES ASSUME NEW i \in 1 .. Len(rest)  PROVE rest[i] = b + k + i
    BY DEF Piece
  <2>1. k + i \in 1 .. l /\ b + (k + i) = b + k + i
    BY <1>6, <1>7
  <2>2. replay[k + i] = b + (k + i)
    BY <1>5, <1>8, <2>1 DEF Piece
  <2>. QED  BY <1>6, <2>1, <2>2
<1>11. PICK m : m = Data(frame)
  OBVIOUS
<1>12. PICK d : d = Append(down, m)
  OBVIOUS
<1>13. /\ m \in Messages /\ m.kind = "data"
       /\ \E bt : Wire(d, bt) /\ bt[0] = at[0] /\ bt[Len(d)] = b + k
  <2>1. /\ down \in Seq(Messages) /\ Wire(down, at) /\ frame \in Seq(Byte) /\ b \in Nat /\ b = at[Len(down)]
        /\ Piece(frame, b) /\ b + Len(frame) <= produced /\ produced \in Nat
    BY <1>3, <1>4, <1>6, <1>9
  <2>2. /\ Data(frame) \in Messages /\ Data(frame).kind = "data"
        /\ \E bt : Wire(Append(down, Data(frame)), bt) /\ bt[0] = at[0]
                   /\ bt[Len(Append(down, Data(frame)))] = b + Len(frame)
    BY ONLY <2>1, FrameOn
  <2>. QED  BY <1>6, <1>11, <1>12, <2>2
<1>14. PICK bt : Wire(d, bt) /\ bt[0] = at[0] /\ bt[Len(d)] = b + k
  BY <1>13
<1>15. Unsent(b + k)'
  <2>1. b + k + Len(rest) = b + l
    BY <1>5, <1>6, <1>7
  <2>2. (Subscribed => Following(Held, b + k + Len(replay)))'
    <3>. SUFFICES ASSUME Subscribed  PROVE Following(Held, b + k + Len(replay))'
      BY <1>0 DEF Subscribed
    <3>. PICK e : e = b + l
      OBVIOUS
    <3>. PICK h : h = Held
      OBVIOUS
    <3>1. Following(h, e) /\ Held' = h
      BY <1>0, <1>8 DEF Held
    <3>2. Following(Held, e)'
      BY <1>0, <3>1, FollowingSame
    <3>. QED  BY <1>0, <2>1, <3>2
  <2>3. b + k + Len(rest) <= produced /\ (srv = "final" /\ ended = "exit" => b + k + Len(rest) = produced)
    BY <1>8, <2>1
  <2>. QED  BY <1>0, <1>10, <2>2, <2>3 DEF Unsent
<1>16. PICK t : t = <<m>>
  OBVIOUS
<1>17. /\ t \in Seq(Messages) /\ down' = down \o t /\ d = down' /\ \A i \in 1 .. Len(t) : t[i].kind # "size"
  BY <1>0, <1>3, <1>11, <1>12, <1>13, <1>16, AppendIsConcat
<1>18. srv \notin {"off", "accept"} /\ srv' # "accept" /\ (srv' # "off" => Unsent(bt[Len(d)])')
  BY <1>0, <1>14, <1>15
<1>. QED  BY <1>0, <1>14, <1>17, <1>18, HandlerOnward

\* The ring, which follows its first byte's predecessor, up to the last byte written.
LEMMA AcceptOnward ==
    ASSUME Control, NEW a, NEW at, Positions(a, at), Accept
    PROVE  Onward(a)
<1>0. /\ srv = "accept" /\ srv' = (IF Alive THEN "replay" ELSE "final")
      /\ replay' = Ring /\ down' = <<Message("size")>> /\ Alive' = Alive
      /\ UNCHANGED <<produced, ended, awaiting, buffer, sealed, pending, queue, overflowed,
                     up, conn, code, drops, phase, replayDone, cqueue, resync, exited, xterm, unparsed, fed>>
  BY DEF Accept, terminal, pane, screen, viewer, Alive
<1>1. /\ queue = <<>> /\ buffer = <<>> /\ pending = <<>> /\ ~overflowed /\ produced \in Nat
  BY <1>0, LimitsAssumption DEF Control, HandlerOK, Subscribed, Typed, ServerTyped
<1>2. Message("size") \in Messages /\ Message("size").kind = "size" /\ Message("size").bytes = <<>>
  BY MessageIs DEF Kinds
<1>3. PICK d : d = down'
  OBVIOUS
<1>4. d \in Seq(Messages) /\ Len(d) = 1 /\ d[1].kind = "size" /\ d[1].bytes = <<>> /\ d # <<>>
  BY <1>0, <1>2, <1>3
<1>5. PICK b \in 0 .. produced : /\ Start(b) /\ Ring \in Seq(Byte) /\ Len(Ring) = produced - b
                                 /\ \A i \in 1 .. Len(Ring) : Ring[i] = b + i
  BY <1>1, RingIs
<1>6. PICK bt : bt = [i \in 0 .. 1 |-> b]
  OBVIOUS
<1>7. Wire(d, bt) /\ bt[0] = b /\ bt[1] = b
  <2>1. bt \in [0 .. 1 -> 0 .. produced] /\ bt[0] = b /\ bt[1] = b
    BY <1>6
  <2>2. Sits(d[1], b, b)
    <3>. b + 0 = b /\ 1 .. 0 = {} /\ Len(<<>>) = 0
      BY <1>1
    <3>. QED  BY <1>4 DEF Sits, Piece
  <2>. QED  BY <1>4, <2>1, <2>2 DEF Wire
<1>8. Unsent(b)'
  <2>1. Len(<<>>) = 0 /\ Held' = <<>>
    BY <1>0, <1>1, ConcatEmptySeq, EmptySeq DEF Held
  <2>. PICK e \in Nat : e = produced
    BY <1>1
  <2>2. Subscribed' => Following(Held, e)'
    <3>1. Subscribed' => Alive'
      BY <1>0 DEF Subscribed
    <3>2. Len(Held') = 0 /\ ~overflowed' /\ e + 0 = e /\ produced' = e
      BY <1>0, <1>1, <2>1
    <3>. QED  BY <3>1, <3>2 DEF Following, Follow
  <2>3. b + Len(Ring) = e
    BY <1>1, <1>5
  <2>4. (Subscribed => Following(Held, b + Len(replay)))'
    BY <1>0, <2>2, <2>3
  <2>. QED  BY <1>0, <1>5, <2>3, <2>4 DEF Unsent, Piece
<1>9. Screen(a)' /\ Ended(a)'
  BY <1>0 DEF Screen, Ended, Start, Positions
<1>10. Line(a, bt)'
  <2>1. Wire(down, bt)'
    BY <1>0, <1>3, <1>7 DEF Wire, Sits
  <2>2. SizeComes' /\ Start(bt[0])'
    BY <1>0, <1>3, <1>4, <1>5, <1>7 DEF SizeComes, Start
  <2>3. Unsent(bt[Len(down)])'
    BY <1>3, <1>4, <1>7, <1>8
  <2>. QED  BY <2>1, <2>2, <2>3 DEF Line
<1>. QED  BY <1>0, <1>9, <1>10 DEF Onward, Positions

\* What is left of two queues when the first n of them are taken.
LEMMA AfterBoth ==
    ASSUME NEW S, NEW p \in Seq(S), NEW q \in Seq(S), NEW n \in Nat, n <= Len(p) + Len(q)
    PROVE  After(p, n) \o (IF n > Len(p) THEN After(q, n - Len(p)) ELSE q) = After(p \o q, n)
<1>1. PICK k \in Nat, l \in Nat : k = Len(p) /\ l = Len(q)
  BY LenProperties
<1>2. PICK s : s = p \o q
  OBVIOUS
<1>3. /\ s \in Seq(S) /\ Len(s) = k + l /\ (\A i \in 1 .. k : s[i] = p[i])
      /\ \A i \in 1 .. l : s[k + i] = q[i]
  <2>1. p \in Seq(S) /\ q \in Seq(S)
    OBVIOUS
  <2>2. /\ p \o q \in Seq(S) /\ Len(p \o q) = Len(p) + Len(q) /\ (\A i \in 1 .. Len(p) : (p \o q)[i] = p[i])
        /\ \A i \in 1 .. Len(q) : (p \o q)[Len(p) + i] = q[i]
    BY ONLY <2>1, ConcatIs
  <2>. QED  BY <1>1, <1>2, <2>2
<1>4. PICK r : r = After(s, n)
  OBVIOUS
<1>5. /\ r \in Seq(S) /\ Len(r) = k + l - n /\ \A i \in 1 .. Len(r) : r[i] = s[n + i]
  <2>1. s \in Seq(S) /\ n \in Nat
    BY <1>3
  <2>2. /\ r \in Seq(S) /\ Len(r) = (IF n < Len(s) THEN Len(s) - n ELSE 0)
        /\ \A i \in 1 .. Len(r) : r[i] = s[n + i]
    BY ONLY <1>4, <2>1, AfterIs
  <2>. QED  BY <1>1, <1>3, <2>2
<1>6. PICK x : x = After(p, n)
  OBVIOUS
<1>7. /\ x \in Seq(S) /\ Len(x) = (IF n < k THEN k - n ELSE 0) /\ \A i \in 1 .. Len(x) : x[i] = p[n + i]
  <2>1. p \in Seq(S) /\ n \in Nat
    OBVIOUS
  <2>2. /\ x \in Seq(S) /\ Len(x) = (IF n < Len(p) THEN Len(p) - n ELSE 0)
        /\ \A i \in 1 .. Len(x) : x[i] = p[n + i]
    BY ONLY <1>6, <2>1, AfterIs
  <2>. QED  BY <1>1, <2>2
<1>8. PICK m \in Nat : m = (IF n > k THEN n - k ELSE 0)
  <2>. (IF n > k THEN n - k ELSE 0) \in Nat
    OBVIOUS
  <2>. QED  OBVIOUS
<1>9. PICK y : y = IF n > k THEN After(q, n - k) ELSE q
  OBVIOUS
<1>10. /\ y \in Seq(S) /\ Len(y) = l - m /\ \A i \in 1 .. Len(y) : y[i] = q[m + i]
  <2>1. CASE n > k
    <3>1. q \in Seq(S) /\ m \in Nat /\ y = After(q, m)
      BY <1>8, <1>9, <2>1
    <3>2. /\ y \in Seq(S) /\ Len(y) = (IF m < Len(q) THEN Len(q) - m ELSE 0)
          /\ \A i \in 1 .. Len(y) : y[i] = q[m + i]
      BY ONLY <3>1, AfterIs
    <3>3. m <= l
      BY <1>1, <1>8, <2>1
    <3>. QED  BY <1>1, <3>2, <3>3
  <2>2. CASE ~(n > k)
    <3>. \A i \in 1 .. Len(q) : 0 + i = i
      BY <1>1
    <3>. QED  BY <1>1, <1>8, <1>9, <2>2
  <2>. QED  BY <2>1, <2>2
<1>11. PICK z : z = x \o y
  OBVIOUS
<1>12. PICK u \in Nat, v \in Nat : u = Len(x) /\ v = Len(y)
  BY <1>7, <1>10, LenProperties
<1>13. /\ z \in Seq(S) /\ Len(z) = u + v /\ (\A i \in 1 .. u : z[i] = x[i])
       /\ \A i \in 1 .. v : z[u + i] = y[i]
  <2>1. x \in Seq(S) /\ y \in Seq(S)
    BY <1>7, <1>10
  <2>2. /\ x \o y \in Seq(S) /\ Len(x \o y) = Len(x) + Len(y) /\ (\A i \in 1 .. Len(x) : (x \o y)[i] = x[i])
        /\ \A i \in 1 .. Len(y) : (x \o y)[Len(x) + i] = y[i]
    BY ONLY <2>1, ConcatIs
  <2>. QED  BY <1>11, <1>12, <2>2
<1>14. u + v = k + l - n /\ n + u = k + m
  <2>1. u = (IF n < k THEN k - n ELSE 0) /\ v = l - m /\ m = (IF n > k THEN n - k ELSE 0)
    BY <1>7, <1>8, <1>10, <1>12
  <2>2. CASE n < k
    BY <2>1, <2>2
  <2>3. CASE n = k
    BY <2>1, <2>3
  <2>4. CASE n > k
    BY <2>1, <2>4
  <2>. QED  BY <2>2, <2>3, <2>4
<1>15. ASSUME NEW i \in 1 .. k + l - n  PROVE z[i] = r[i]
  <2>0. r[i] = s[n + i]
    BY <1>1, <1>5
  <2>1. CASE i \in 1 .. u
    <3>1. n + i \in 1 .. k /\ i \in 1 .. Len(x)
      BY <1>7, <1>12, <2>1
    <3>2. z[i] = x[i] /\ x[i] = p[n + i]
      BY <1>7, <1>13, <2>1, <3>1
    <3>3. s[n + i] = p[n + i]
      BY <1>3, <3>1
    <3>. QED  BY <2>0, <3>2, <3>3
  <2>2. CASE i \in u + 1 .. k + l - n
    <3>1. i - u \in 1 .. v /\ u + (i - u) = i /\ m + (i - u) \in 1 .. l /\ k + (m + (i - u)) = n + i
      BY <1>14, <2>2
    <3>2. z[i] = y[i - u]
      BY <1>13, <3>1
    <3>3. y[i - u] = q[m + (i - u)]
      BY <1>10, <1>12, <3>1
    <3>4. s[k + (m + (i - u))] = q[m + (i - u)]
      BY <1>3, <3>1
    <3>. QED  BY <2>0, <3>1, <3>2, <3>3, <3>4
  <2>3. i \in 1 .. u \/ i \in u + 1 .. k + l - n
    OBVIOUS
  <2>. QED  BY <2>1, <2>2, <2>3
<1>16. z = r
  BY <1>5, <1>13, <1>14, <1>15, SeqEqual
<1>. QED  BY <1>1, <1>2, <1>4, <1>6, <1>9, <1>11, <1>16

\* The frame at hand follows what is on the wire.
LEMMA HandOn ==
    ASSUME Control, NEW a, NEW at, Positions(a, at), srv = "live", HandItems # <<>>,
           NEW b, b = at[Len(down)]
    PROVE  /\ b \in Nat /\ Following(HandItems, b) /\ Held = HandItems /\ Unmarked(HandItems, Len(HandFrame))
           /\ Len(HandFrame) \in Nat /\ replay = <<>> /\ buffer = <<>>
           /\ HandSent \in Seq(Messages) /\ \A i \in 1 .. Len(HandSent) : HandSent[i].kind # "size"
           /\ \E bt : /\ Wire(down \o HandSent, bt) /\ bt[0] = at[0]
                      /\ bt[Len(down \o HandSent)] = b + Len(HandFrame)
<1>1. /\ down \in Seq(Messages) /\ Wire(down, at) /\ b \in 0 .. produced /\ b \in Nat
      /\ Unsent(b) /\ produced \in Nat
  <2>. srv \notin {"off", "accept"}
    OBVIOUS
  <2>. QED  BY WireEnd
<1>2. /\ replay = <<>> /\ buffer = <<>> /\ Len(replay) = 0
  BY EmptySeq DEF Control, HandlerOK
<1>3. /\ pending \in Seq(Item) /\ queue \in Seq(Item) /\ HandItems \in Seq(Item)
      /\ HandFrame \in Seq(Byte) /\ Len(HandItems) \in Nat
      /\ Len(HandBytes) \in Nat /\ Len(HandBytes) <= Len(HandItems)
      /\ \A i \in 1 .. Len(HandBytes) : ~IsMark(HandItems[i])
      /\ Len(HandFrame) \in Nat /\ Len(HandFrame) <= Len(HandBytes)
      /\ \A i \in 1 .. Len(HandFrame) : HandFrame[i] = HandItems[i]
  <2>1. /\ pending \in Seq(Item) /\ queue \in Seq(Item) /\ HandItems \in Seq(Item)
        /\ HandBytes \in Seq(Byte) /\ HandFrame \in Seq(Byte)
        /\ HandMark \in 0 .. Len(HandItems) /\ FrameMax \in Nat \ {0}
        /\ Len(HandBytes) = (IF HandMark = 0 THEN Len(HandItems) ELSE HandMark - 1)
        /\ \A i \in 1 .. Len(HandBytes) : HandBytes[i] = HandItems[i] /\ ~IsMark(HandItems[i])
        /\ Len(HandFrame) = Least(FrameMax, Len(HandBytes))
        /\ \A i \in 1 .. Len(HandFrame) : HandFrame[i] = HandItems[i]
    BY HandIs
  <2>2. Len(HandItems) \in Nat /\ Len(HandBytes) \in Nat /\ Len(HandFrame) \in Nat
    BY <2>1, LenProperties
  <2>3. Len(HandBytes) <= Len(HandItems)
    BY <2>1, <2>2
  <2>4. Len(HandFrame) <= Len(HandBytes)
    BY <2>1, <2>2 DEF Least
  <2>. QED  BY <2>1, <2>2, <2>3, <2>4
<1>4. Held = HandItems
  BY <1>2, <1>3, HeldIs, EmptySeq DEF HandItems
<1>5. Following(HandItems, b)
  <2>. b + 0 = b
    BY <1>1
  <2>. QED  BY <1>1, <1>2, <1>4 DEF Unsent, Subscribed
<1>6. Unmarked(HandItems, Len(HandFrame))
  BY <1>3 DEF Unmarked
<1>7. Piece(HandFrame, b) /\ b + Len(HandFrame) <= produced
  <2>1. ASSUME NEW i \in 1 .. Len(HandFrame)  PROVE HandFrame[i] = b + i
    <3>1. i \in 1 .. Len(HandItems) /\ \A j \in 1 .. i : j \in 1 .. Len(HandFrame)
      BY <1>3
    <3>2. Unmarked(HandItems, i)
      BY <1>6, <3>1 DEF Unmarked
    <3>. QED  BY <1>3, <1>5, <3>1, <3>2 DEF Following, Follow
  <2>2. CASE Len(HandFrame) = 0
    BY <1>1, <2>1, <2>2 DEF Piece
  <2>3. CASE Len(HandFrame) > 0
    <3>1. Len(HandFrame) \in 1 .. Len(HandFrame)
      BY <1>3, <2>3
    <3>2. HandFrame[Len(HandFrame)] \in Byte
      BY <1>3, <3>1, ElementOfSeq
    <3>. QED  BY <2>1, <3>1, <3>2 DEF Piece, Byte
  <2>. QED  BY <1>3, <2>2, <2>3
<1>8. CASE HandFrame = <<>>
  <2>1. HandSent = <<>> /\ Len(HandFrame) = 0 /\ down \o HandSent = down
    BY <1>1, <1>8, ConcatEmptySeq, EmptySeq DEF HandSent
  <2>2. Wire(down \o HandSent, at) /\ at[Len(down \o HandSent)] = b + Len(HandFrame)
    BY <1>1, <2>1
  <2>3. HandSent \in Seq(Messages) /\ \A i \in 1 .. Len(HandSent) : HandSent[i].kind # "size"
    BY <2>1, EmptySeq
  <2>. QED  BY <1>1, <1>2, <1>3, <1>4, <1>5, <1>6, <2>2, <2>3
<1>9. CASE HandFrame # <<>>
  <2>1. PICK frame : frame = HandFrame
    OBVIOUS
  <2>2. /\ down \in Seq(Messages) /\ Wire(down, at) /\ frame \in Seq(Byte) /\ b \in Nat /\ b = at[Len(down)]
        /\ Piece(frame, b) /\ b + Len(frame) <= produced /\ produced \in Nat
    BY <1>1, <1>3, <1>7, <2>1
  <2>3. /\ Data(frame) \in Messages /\ Data(frame).kind = "data"
        /\ \E bt : Wire(Append(down, Data(frame)), bt) /\ bt[0] = at[0]
                   /\ bt[Len(Append(down, Data(frame)))] = b + Len(frame)
    BY ONLY <2>2, FrameOn
  <2>4. PICK m : m = Data(frame)
    OBVIOUS
  <2>5. HandSent = <<m>>
    BY <1>9, <2>1, <2>4 DEF HandSent
  <2>6. HandSent \in Seq(Messages) /\ \A i \in 1 .. Len(HandSent) : HandSent[i].kind # "size"
    BY <2>3, <2>4, <2>5
  <2>7. Append(down, m) = down \o HandSent
    BY <1>1, <2>3, <2>4, <2>5, AppendIsConcat
  <2>8. \E bt : /\ Wire(down \o HandSent, bt) /\ bt[0] = at[0]
                /\ bt[Len(down \o HandSent)] = b + Len(HandFrame)
    BY <2>1, <2>3, <2>4, <2>7
  <2>. QED  BY <1>1, <1>2, <1>3, <1>4, <1>5, <1>6, <2>6, <2>8
<1>. QED  BY <1>8, <1>9

\* One turn of the pump: a frame, or the exit behind the last byte, or the overflow.
LEMMA PumpFrameOnward ==
    ASSUME Control, NEW a, NEW at, Positions(a, at), PumpFrame
    PROVE  Onward(a)
<1>0. /\ srv = "live" /\ HandItems # <<>>
      /\ UNCHANGED <<produced, ended, fed, cqueue, exited, code, conn>>
      /\ \/ /\ ~HandFinal
            /\ down' = down \o HandSent
            /\ pending' = After(pending, Len(HandFrame))
            /\ queue' = IF Len(HandFrame) > Len(pending)
                        THEN After(queue, Len(HandFrame) - Len(pending)) ELSE queue
            /\ UNCHANGED <<srv, replay, awaiting, buffer, sealed, overflowed>>
         \/ /\ HandFinal /\ HandItems[HandMark] = Exit
            /\ HandlerEnds
            /\ down' = down \o (HandSent \o <<Message("exit"), Message("close1000")>>)
         \/ /\ HandFinal /\ HandItems[HandMark] # Exit
            /\ HandlerEnds
            /\ down' = down \o <<Message("overflow"), Message("close1013")>>
  BY PumpFrameIs DEF terminal, pane, screen
<1>1. /\ down \in Seq(Messages) /\ Wire(down, at) /\ at[Len(down)] \in 0 .. produced
      /\ produced \in Nat
  BY <1>0, WireEnd
<1>2. PICK b \in Nat : b = at[Len(down)]
  BY <1>1
<1>3. /\ Following(HandItems, b) /\ Held = HandItems /\ Unmarked(HandItems, Len(HandFrame))
      /\ Len(HandFrame) \in Nat /\ replay = <<>> /\ buffer = <<>>
      /\ HandSent \in Seq(Messages) /\ \A i \in 1 .. Len(HandSent) : HandSent[i].kind # "size"
      /\ \E bt : /\ Wire(down \o HandSent, bt) /\ bt[0] = at[0]
                 /\ bt[Len(down \o HandSent)] = b + Len(HandFrame)
  BY <1>0, <1>2, HandOn
<1>4. /\ pending \in Seq(Item) /\ queue \in Seq(Item) /\ HandItems \in Seq(Item)
      /\ Len(pending) \in Nat /\ Len(queue) \in Nat /\ Len(HandItems) = Len(pending) + Len(queue)
      /\ HandMark \in 0 .. Len(HandItems) /\ FrameMax \in Nat \ {0}
      /\ Len(HandBytes) = (IF HandMark = 0 THEN Len(HandItems) ELSE HandMark - 1)
      /\ Len(HandFrame) = Least(FrameMax, Len(HandBytes))
      /\ \A i \in 1 .. Len(HandBytes) : ~IsMark(HandItems[i])
  BY <1>0, HandIs
<1>5. PICK n \in Nat : n = Len(HandFrame)
  BY <1>3
<1>6. n <= Len(HandItems) /\ (HandFinal => n = HandMark - 1)
  BY <1>4, <1>5 DEF Least, HandFinal
<1>7. PICK d0 : d0 = down \o HandSent
  OBVIOUS
<1>8. PICK b0 : Wire(d0, b0) /\ b0[0] = at[0] /\ b0[Len(d0)] = b + n
  BY <1>3, <1>5, <1>7
<1>9. d0 \in Seq(Messages)
  BY <1>1, <1>3, <1>7, ConcatIs
<1>10. CASE /\ ~HandFinal
            /\ down' = down \o HandSent
            /\ pending' = After(pending, Len(HandFrame))
            /\ queue' = IF Len(HandFrame) > Len(pending)
                        THEN After(queue, Len(HandFrame) - Len(pending)) ELSE queue
            /\ UNCHANGED <<srv, replay, awaiting, buffer, sealed, overflowed>>
  <2>1. PICK h : h = After(HandItems, n)
    OBVIOUS
  <2>2. Held' = h
    <3>1. After(pending, n) \o (IF n > Len(pending) THEN After(queue, n - Len(pending)) ELSE queue)
             = After(pending \o queue, n)
      <4>1. pending \in Seq(Item) /\ queue \in Seq(Item) /\ n \in Nat /\ n <= Len(pending) + Len(queue)
        BY <1>4, <1>6
      <4>. QED  BY ONLY <4>1, AfterBoth
    <3>2. pending' \o queue' = h
      BY <1>5, <1>10, <2>1, <3>1 DEF HandItems
    <3>3. pending' \in Seq(Item) /\ buffer' = <<>>
      BY <1>3, <1>4, <1>5, <1>10, AfterIs
    <3>. QED  BY <3>2, <3>3, ConcatEmptySeq DEF Held
  <2>3. Following(h, b + n)
    <3>. PICK x : x = HandItems
      OBVIOUS
    <3>1. /\ x \in Seq(Item) /\ n \in Nat /\ n <= Len(x) /\ Unmarked(x, n) /\ b \in Nat /\ Following(x, b)
          /\ h = After(x, n)
      BY <1>3, <1>4, <1>5, <1>6, <2>1
    <3>. QED  BY ONLY <3>1, FollowingAfter
  <2>4. Unsent(b + n)'
    <3>1. replay' = <<>> /\ Len(<<>>) = 0 /\ b + n + 0 = b + n
      BY <1>2, <1>3, <1>5, <1>10
    <3>. PICK e : e = b + n
      OBVIOUS
    <3>2. Following(Held, e)'
      BY <1>0, <1>10, <2>2, <2>3, FollowingSame
    <3>3. (Subscribed => Following(Held, b + n + Len(replay)))'
      BY <3>1, <3>2
    <3>4. b + n <= produced
      <4>. PICK k \in Nat : k = Len(d0)
        BY <1>9, LenProperties
      <4>1. k \in 0 .. k /\ b0 \in [0 .. k -> 0 .. produced] /\ b0[k] = b + n
        BY <1>8 DEF Wire
      <4>2. b0[k] \in 0 .. produced
        BY <4>1
      <4>. QED  BY <4>1, <4>2
    <3>5. srv' # "final"
      BY <1>0, <1>10
    <3>. QED  BY <1>0, <3>1, <3>3, <3>4, <3>5 DEF Unsent, Piece
  <2>5. /\ srv \notin {"off", "accept"} /\ srv' # "accept" /\ d0 = down' /\ down' = down \o HandSent
        /\ (srv' # "off" => Unsent(b0[Len(d0)])')
    BY <1>0, <1>7, <1>8, <1>10, <2>4
  <2>. PICK t : t = HandSent
    OBVIOUS
  <2>6. t \in Seq(Messages) /\ (\A i \in 1 .. Len(t) : t[i].kind # "size") /\ down' = down \o t
    BY <1>3, <1>10
  <2>. QED  BY <1>0, <1>8, <2>5, <2>6, HandlerOnward
<1>m. \A kind \in Kinds : Message(kind) \in Messages /\ Message(kind).kind = kind /\ Message(kind).bytes = <<>>
  BY MessageIs
<1>11. CASE /\ HandFinal /\ HandItems[HandMark] = Exit
            /\ HandlerEnds
            /\ down' = down \o (HandSent \o <<Message("exit"), Message("close1000")>>)
  <2>1. PICK last : last = <<Message("exit"), Message("close1000")>>
    OBVIOUS
  <2>m. /\ Message("exit") \in Messages /\ Message("exit").kind = "exit" /\ Message("exit").bytes = <<>>
        /\ Message("close1000") \in Messages /\ Message("close1000").kind = "close1000"
        /\ Message("close1000").bytes = <<>>
    BY <1>m DEF Kinds
  <2>2. /\ last \in Seq(Messages) /\ Len(last) = 2 /\ last[1].kind = "exit" /\ last[2].kind = "close1000"
        /\ last[1].bytes = <<>> /\ last[2].bytes = <<>>
    BY <2>1, <2>m
  <2>3. ended = "exit" => b + n = produced
    <3>. SUFFICES ASSUME ended = "exit"  PROVE b + n = produced
      OBVIOUS
    <3>1. HandMark \in 1 .. Len(HandItems) /\ n = HandMark - 1
      BY <1>4, <1>6, <1>11 DEF HandFinal
    <3>2. Unmarked(HandItems, HandMark - 1)
      BY <1>3, <1>5, <3>1
    <3>3. b + HandMark - 1 = produced
      BY <1>3, <1>11, <3>1, <3>2 DEF Following
    <3>. QED  BY <1>2, <1>4, <3>1, <3>3
  <2>4. Silent(last, b0[Len(d0)])
    <3>. SUFFICES ASSUME NEW i \in 1 .. Len(last)  PROVE last[i].kind # "size" /\ last[i].bytes = <<>>
      BY <1>8, <2>3 DEF Silent
    <3>. i = 1 \/ i = 2
      BY <2>2
    <3>. QED  BY <2>2
  <2>5. \E bt : Wire(d0 \o last, bt) /\ bt[0] = b0[0] /\ bt[Len(d0 \o last)] = b0[Len(d0)]
    <3>1. d0 \in Seq(Messages) /\ Wire(d0, b0) /\ last \in Seq(Messages) /\ Silent(last, b0[Len(d0)])
      BY <1>8, <1>9, <2>2, <2>4
    <3>. QED  BY ONLY <3>1, WireOn
  <2>6. PICK d : d = d0 \o last
    OBVIOUS
  <2>7. PICK bt : Wire(d, bt) /\ bt[0] = at[0]
    BY <1>8, <2>5, <2>6
  <2>8. PICK t : t = HandSent \o last
    OBVIOUS
  <2>9. down' = down \o t /\ d = down'
    <3>1. down' = down \o (HandSent \o last)
      BY <1>11, <2>1
    <3>2. down \o (HandSent \o last) = (down \o HandSent) \o last
      <4>1. down \in Seq(Messages) /\ HandSent \in Seq(Messages) /\ last \in Seq(Messages)
        BY <1>1, <1>3, <2>2
      <4>. QED  BY ONLY <4>1, ConcatAssociative
    <3>. QED  BY <1>7, <2>6, <2>8, <3>1, <3>2
  <2>10. t \in Seq(Messages) /\ \A i \in 1 .. Len(t) : t[i].kind # "size"
    <3>1. /\ t \in Seq(Messages) /\ Len(HandSent) \in Nat /\ Len(t) = Len(HandSent) + 2
          /\ \A i \in 1 .. Len(HandSent) : t[i] = HandSent[i]
          /\ \A i \in 1 .. 2 : t[Len(HandSent) + i] = last[i]
      <4>1. HandSent \in Seq(Messages) /\ last \in Seq(Messages)
        BY <1>3, <2>2
      <4>2. /\ HandSent \o last \in Seq(Messages) /\ Len(HandSent) \in Nat
            /\ Len(HandSent \o last) = Len(HandSent) + Len(last)
            /\ \A i \in 1 .. Len(HandSent) : (HandSent \o last)[i] = HandSent[i]
            /\ \A i \in 1 .. Len(last) : (HandSent \o last)[Len(HandSent) + i] = last[i]
        BY ONLY <4>1, ConcatIs
      <4>. QED  BY <2>2, <2>8, <4>2
    <3>2. ASSUME NEW i \in 1 .. Len(t)  PROVE t[i].kind # "size"
      <4>1. CASE i \in 1 .. Len(HandSent)
        BY <1>3, <3>1, <4>1
      <4>2. CASE i = Len(HandSent) + 1
        BY <2>2, <3>1, <4>2
      <4>3. CASE i = Len(HandSent) + 2
        BY <2>2, <3>1, <4>3
      <4>. QED  BY <3>1, <4>1, <4>2, <4>3
    <3>. QED  BY <3>1, <3>2
  <2>11. srv \notin {"off", "accept"} /\ srv' # "accept" /\ (srv' # "off" => Unsent(bt[Len(d)])')
    BY <1>0, <1>11 DEF HandlerEnds
  <2>. QED  BY <1>0, <2>7, <2>9, <2>10, <2>11, HandlerOnward
<1>12. CASE /\ HandFinal /\ HandItems[HandMark] # Exit
            /\ HandlerEnds
            /\ down' = down \o <<Message("overflow"), Message("close1013")>>
  <2>1. PICK t : t = <<Message("overflow"), Message("close1013")>>
    OBVIOUS
  <2>m. /\ Message("overflow") \in Messages /\ Message("overflow").kind = "overflow"
        /\ Message("overflow").bytes = <<>>
        /\ Message("close1013") \in Messages /\ Message("close1013").kind = "close1013"
        /\ Message("close1013").bytes = <<>>
    BY <1>m DEF Kinds
  <2>2. /\ t \in Seq(Messages) /\ Len(t) = 2 /\ t[1].kind = "overflow" /\ t[2].kind = "close1013"
        /\ t[1].bytes = <<>> /\ t[2].bytes = <<>>
    BY <2>1, <2>m
  <2>3. Silent(t, at[Len(down)])
    <3>. SUFFICES ASSUME NEW i \in 1 .. Len(t)  PROVE t[i].kind \notin {"size", "exit"} /\ t[i].bytes = <<>>
      BY DEF Silent
    <3>. i = 1 \/ i = 2
      BY <2>2
    <3>. QED  BY <2>2
  <2>4. srv \notin {"off", "accept"} /\ srv' = "off" /\ down' = down \o t
    BY <1>0, <1>12, <2>1 DEF HandlerEnds
  <2>. QED  BY <1>0, <2>2, <2>3, <2>4, StopsOnward
<1>. QED  BY <1>0, <1>10, <1>11, <1>12

\* Two pieces that follow each other are one, and the other way round.
LEMMA PieceJoin ==
    ASSUME NEW S, NEW x \in Seq(S), NEW y \in Seq(S), NEW p \in Nat
    PROVE  Piece(x \o y, p) <=> Piece(x, p) /\ Piece(y, p + Len(x))
<1>1. PICK z : z = x \o y
  OBVIOUS
<1>2. PICK k \in Nat, l \in Nat : k = Len(x) /\ l = Len(y)
  BY LenProperties
<1>3. /\ Len(z) = k + l /\ (\A i \in 1 .. k : z[i] = x[i])
      /\ \A i \in 1 .. l : z[k + i] = y[i]
  <2>1. x \in Seq(S) /\ y \in Seq(S)
    OBVIOUS
  <2>2. /\ Len(x \o y) = Len(x) + Len(y) /\ (\A i \in 1 .. Len(x) : (x \o y)[i] = x[i])
        /\ \A i \in 1 .. Len(y) : (x \o y)[Len(x) + i] = y[i]
    BY ONLY <2>1, ConcatIs
  <2>. QED  BY <1>1, <1>2, <2>2
<1>4. ASSUME Piece(z, p)  PROVE Piece(x, p) /\ Piece(y, p + k)
  <2>1. ASSUME NEW i \in 1 .. k  PROVE x[i] = p + i
    <3>. i \in 1 .. k + l
      OBVIOUS
    <3>. QED  BY <1>3, <1>4 DEF Piece
  <2>2. ASSUME NEW i \in 1 .. l  PROVE y[i] = p + k + i
    <3>1. k + i \in 1 .. k + l
      OBVIOUS
    <3>2. z[k + i] = p + (k + i)
      BY <1>3, <1>4, <3>1 DEF Piece
    <3>. QED  BY <1>3, <3>2
  <2>. QED  BY <1>2, <2>1, <2>2 DEF Piece
<1>5. ASSUME Piece(x, p), Piece(y, p + k)  PROVE Piece(z, p)
  <2>. SUFFICES ASSUME NEW i \in 1 .. k + l  PROVE z[i] = p + i
    BY <1>3 DEF Piece
  <2>1. CASE i \in 1 .. k
    BY <1>2, <1>3, <1>5, <2>1 DEF Piece
  <2>2. CASE i \in k + 1 .. k + l
    <3>1. i - k \in 1 .. l /\ k + (i - k) = i
      BY <2>2
    <3>2. z[k + (i - k)] = y[i - k]
      BY <1>3, <3>1
    <3>3. y[i - k] = p + k + (i - k)
      BY <1>2, <1>5, <3>1 DEF Piece
    <3>4. p + k + (i - k) = p + i
      BY <2>2
    <3>. QED  BY <3>1, <3>2, <3>3, <3>4
  <2>3. i \in 1 .. k \/ i \in k + 1 .. k + l
    OBVIOUS
  <2>. QED  BY <2>1, <2>2, <2>3
<1>. QED  BY <1>1, <1>2, <1>4, <1>5

\* The lengths and the pieces of the screen.
LEMMA ScreenIs ==
    ASSUME Control, NEW a, Screen(a)
    PROVE  /\ a \in Nat /\ produced \in Nat /\ fed \in Seq(Byte) /\ cqueue \in Seq(Byte)
           /\ Len(fed) \in Nat /\ Len(cqueue) \in Nat
           /\ Start(a) /\ a <= produced /\ Piece(fed, a) /\ Piece(cqueue, a + Len(fed))
           /\ a + Len(fed) + Len(cqueue) <= produced
  BY LenProperties, LimitsAssumption DEF Screen, Control, Typed, ServerTyped, PaneTyped

\* data goes to the screen, and rest to the pane's queue.
LEMMA ScreenGrows ==
    ASSUME Control, NEW a, Screen(a), NEW data \in Seq(Byte), NEW rest \in Seq(Byte),
           Piece(data \o rest, a + Len(fed)), a + Len(fed) + Len(data \o rest) <= produced,
           produced' = produced, fed' = fed \o data, cqueue' = rest
    PROVE  /\ Screen(a)' /\ Len(fed') + Len(cqueue') = Len(fed) + Len(data \o rest)
           /\ \E bytes \in Seq(Byte) : fed' = fed \o bytes
<1>1. /\ a \in Nat /\ produced \in Nat /\ fed \in Seq(Byte) /\ Len(fed) \in Nat
      /\ Start(a) /\ a <= produced /\ Piece(fed, a)
  BY ScreenIs
<1>2. PICK p \in Nat, q \in Nat, r \in Nat : p = Len(fed) /\ q = Len(data) /\ r = Len(rest)
  BY <1>1, LenProperties
<1>3. Len(data \o rest) = q + r
  <2>1. data \in Seq(Byte) /\ rest \in Seq(Byte)
    OBVIOUS
  <2>2. Len(data \o rest) = Len(data) + Len(rest)
    BY ONLY <2>1, ConcatIs
  <2>. QED  BY <1>2, <2>2
<1>4. PICK f : f = fed \o data
  OBVIOUS
<1>5. Len(f) = p + q /\ Piece(f, a)
  <2>1. Piece(data, a + p)
    <3>1. data \in Seq(Byte) /\ rest \in Seq(Byte) /\ a + p \in Nat /\ Piece(data \o rest, a + p)
      BY <1>1, <1>2
    <3>. QED  BY ONLY <3>1, PieceJoin
  <2>2. fed \in Seq(Byte) /\ data \in Seq(Byte) /\ a \in Nat /\ Piece(fed, a) /\ Piece(data, a + Len(fed))
    BY <1>1, <1>2, <2>1
  <2>3. Len(fed \o data) = Len(fed) + Len(data) /\ Piece(fed \o data, a)
    BY ONLY <2>2, PieceJoin, ConcatIs
  <2>. QED  BY <1>2, <1>4, <2>3
<1>6. Piece(rest, a + (p + q))
  <2>1. data \in Seq(Byte) /\ rest \in Seq(Byte) /\ a + p \in Nat /\ Piece(data \o rest, a + p)
    BY <1>1, <1>2
  <2>2. Piece(rest, a + p + Len(data))
    BY ONLY <2>1, PieceJoin
  <2>3. a + p + q = a + (p + q)
    BY <1>1
  <2>. QED  BY <1>2, <2>2, <2>3
<1>7. a + (p + q) + r <= produced /\ p + q + r = p + (q + r) /\ a \in 0 .. produced
  BY <1>1, <1>2, <1>3
<1>8. fed' = f /\ cqueue' = rest /\ Len(fed') = p + q /\ Len(cqueue') = r
  BY <1>2, <1>4, <1>5
<1>9. Screen(a)'
  BY <1>1, <1>5, <1>6, <1>7, <1>8 DEF Screen, Start
<1>10. Len(fed') + Len(cqueue') = Len(fed) + Len(data \o rest)
  BY <1>2, <1>3, <1>7, <1>8
<1>. QED  BY <1>9, <1>10

\* _pump: some of the bytes at hand go to the screen.
LEMMA PumpScreen ==
    ASSUME Control, NEW a, Screen(a), NEW bytes \in Seq(Byte),
           Piece(bytes, a + Len(fed)), a + Len(fed) + Len(bytes) <= produced,
           produced' = produced, NEW writes, NEW behind, Pump(bytes, writes, behind)
    PROVE  /\ Screen(a)' /\ Len(fed') + Len(cqueue') = Len(fed) + Len(bytes)
           /\ fed' = fed \/ \E more \in Seq(Byte) : fed' = fed \o more
<1>1. CASE fed' = fed \o Upto(bytes, PendingMax) /\ cqueue' = After(bytes, PendingMax)
  <2>1. bytes \in Seq(Byte) /\ PendingMax \in Nat
    BY LimitsAssumption
  <2>2. /\ Upto(bytes, PendingMax) \in Seq(Byte) /\ After(bytes, PendingMax) \in Seq(Byte)
        /\ Upto(bytes, PendingMax) \o After(bytes, PendingMax) = bytes
    BY ONLY <2>1, UptoIs, AfterIs, UptoAfter
  <2>3. PICK data, rest : data = Upto(bytes, PendingMax) /\ rest = After(bytes, PendingMax)
    OBVIOUS
  <2>4. /\ data \in Seq(Byte) /\ rest \in Seq(Byte) /\ data \o rest = bytes
        /\ fed' = fed \o data /\ cqueue' = rest
    BY <1>1, <2>2, <2>3
  <2>. QED  BY <2>4, ScreenGrows
<1>2. CASE fed' = fed /\ cqueue' = bytes
  BY <1>2 DEF Screen, Start
<1>. QED  BY <1>1, <1>2 DEF Pump

\* The wire and what is not sent yet when the pane takes a message.
LEMMA LineTaken ==
    ASSUME Control, NEW a, NEW at, Positions(a, at), NEW kind \in Kinds, Takes(kind),
           UNCHANGED <<produced, ended, overflowed, srv, replay, buffer, pending, queue>>,
           NEW b, at[1] = b + Len(fed') + Len(cqueue')
    PROVE  \E bt : Line(b, bt)'
<1>1. /\ conn = "open" /\ down # <<>> /\ down \in Seq(Messages) /\ down' = Tail(down) /\ ~SizeComes'
      /\ srv # "accept"
  BY TakenIs DEF Control, HandlerOK
<1>2. Wire(down, at) /\ (srv # "off" => Unsent(at[Len(down)]))
  BY <1>1 DEF Positions, Line
<1>3. PICK d : d = Tail(down)
  OBVIOUS
<1>4. PICK bt : Wire(d, bt) /\ bt[0] = at[1] /\ bt[Len(d)] = at[Len(down)]
  <2>1. down \in Seq(Messages) /\ down # <<>> /\ Wire(down, at)
    BY <1>1, <1>2
  <2>2. \E bt : Wire(Tail(down), bt) /\ bt[0] = at[1] /\ bt[Len(Tail(down))] = at[Len(down)]
    BY ONLY <2>1, WireTaken
  <2>. QED  BY <1>3, <2>2
<1>5. PICK n : n = at[Len(down)]
  OBVIOUS
<1>6. srv # "off" => Unsent(n)'
  <2>. SUFFICES ASSUME srv # "off"  PROVE Unsent(n)'
    OBVIOUS
  <2>1. Unsent(n)
    BY <1>2, <1>5
  <2>2. (Subscribed => Following(Held, n + Len(replay)))'
    <3>. SUFFICES ASSUME Subscribed  PROVE Following(Held, n + Len(replay))'
      BY DEF Subscribed
    <3>. PICK e : e = n + Len(replay)
      OBVIOUS
    <3>. PICK h : h = Held
      OBVIOUS
    <3>1. Following(h, e) /\ Held' = h
      BY <2>1 DEF Held, Unsent
    <3>2. Following(Held, e)'
      BY <3>1, FollowingSame
    <3>. QED  BY <3>2
  <2>. QED  BY <2>1, <2>2 DEF Unsent
<1>7. Wire(down, bt)'
  BY <1>1, <1>3, <1>4 DEF Wire, Sits
<1>8. (srv # "off" => Unsent(bt[Len(down)]))'
  BY <1>1, <1>3, <1>4, <1>5, <1>6
<1>9. (IF SizeComes THEN Start(bt[0]) ELSE bt[0] = b + Len(fed) + Len(cqueue))'
  BY <1>1, <1>4
<1>. QED  BY <1>7, <1>8, <1>9 DEF Line

\* Where the first message on the wire belongs.
LEMMA FirstIs ==
    ASSUME Control, NEW a, NEW at, Positions(a, at), NEW kind \in Kinds, Takes(kind)
    PROVE  /\ at[0] \in Nat /\ at[1] \in Nat /\ at[0] <= produced /\ at[1] <= produced /\ produced \in Nat
           /\ down[1].bytes \in Seq(Byte) /\ Piece(down[1].bytes, at[0])
           /\ at[1] = at[0] + Len(down[1].bytes)
           /\ IF kind = "size" THEN Start(at[0]) ELSE at[0] = a + Len(fed) + Len(cqueue)
           /\ kind # "data" => at[1] = at[0]
           /\ kind = "exit" /\ ended = "exit" => at[1] = produced
           /\ Screen(a)
<1>1. /\ conn = "open" /\ down # <<>> /\ down \in Seq(Messages) /\ down[1].kind = kind
      /\ down[1] \in Messages /\ srv # "accept" /\ Len(down) \in Nat \ {0}
  BY TakenIs DEF Control, HandlerOK
<1>2. Wire(down, at) /\ Screen(a)
  BY <1>1 DEF Positions, Line
<1>3. Sits(down[1], at[0], at[1]) /\ at[0] \in 0 .. produced /\ at[1] \in 0 .. produced
  <2>1. down \in Seq(Messages) /\ down # <<>> /\ Wire(down, at)
    BY <1>1, <1>2
  <2>2. PICK less : less = Tail(down)
    OBVIOUS
  <2>. QED  BY ONLY <2>1, <2>2, WireTaken
<1>4. produced \in Nat /\ down[1].bytes \in Seq(Byte)
  BY <1>1, LimitsAssumption DEF Control, Typed, ServerTyped, Messages
<1>5. IF kind = "size" THEN Start(at[0]) ELSE at[0] = a + Len(fed) + Len(cqueue)
  BY <1>1 DEF Positions, Line, SizeComes
<1>6. kind # "data" => Len(down[1].bytes) = 0
  <2>1. kind # "data" => down[1].bytes = <<>>
    <3>. 1 \in 1 .. Len(down)
      BY <1>1
    <3>. QED  BY <1>1 DEF Control, WireOK
  <2>. QED  BY <2>1, EmptySeq
<1>7. at[1] = at[0] + Len(down[1].bytes) /\ Piece(down[1].bytes, at[0])
      /\ (kind = "exit" /\ ended = "exit" => at[1] = produced)
  BY <1>1, <1>3 DEF Sits
<1>8. kind # "data" => at[1] = at[0]
  BY <1>3, <1>4, <1>6, <1>7
<1>. QED  BY <1>2, <1>3, <1>4, <1>5, <1>7, <1>8

\* The screen starts over, where the replay starts.
LEMMA ReceiveSizePlaces ==
    ASSUME Control, NEW a, NEW at, Positions(a, at), ReceiveSize
    PROVE  produced' = produced /\ fed' = <<>> /\ \E b, bt : Positions(b, bt)'
<1>1. /\ Takes("size") /\ fed' = <<>>
      /\ UNCHANGED <<produced, ended, overflowed, srv, replay, buffer, pending, queue, conn, cqueue, exited, code>>
  BY DEF ReceiveSize, terminal, handler, viewer, pane
<1>2. /\ "size" \in Kinds /\ "data" \in Kinds
  BY DEF Kinds
<1>3. /\ at[0] \in Nat /\ at[1] \in Nat /\ at[0] <= produced /\ produced \in Nat
      /\ Start(at[0]) /\ at[1] = at[0]
  BY <1>1, <1>2, FirstIs
<1>4. cqueue = <<>> /\ ~exited
  <2>1. down[1].kind = "size" /\ Len(down) \in Nat \ {0}
    BY <1>1, <1>2, TakenIs
  <2>2. 1 \in 1 .. Len(down)
    BY <2>1
  <2>. QED  BY <2>1, <2>2 DEF Control, WireOK, Closes
<1>5. PICK b \in Nat : b = at[0]
  BY <1>3
<1>6. Len(fed') = 0 /\ Len(cqueue') = 0 /\ fed' = <<>> /\ cqueue' = <<>>
  BY <1>1, <1>4, EmptySeq
<1>7. Screen(b)'
  <2>. b \in 0 .. produced /\ Start(b) /\ b + 0 = b /\ b + 0 + 0 = b /\ b <= produced
    BY <1>3, <1>5
  <2>. QED  BY <1>1, <1>6 DEF Screen, Start, Piece
<1>8. at[1] = b + Len(fed') + Len(cqueue')
  BY <1>3, <1>5, <1>6
<1>9. \E bt : Line(b, bt)'
  BY <1>1, <1>2, <1>8, LineTaken
<1>10. Ended(b)'
  BY <1>1, <1>4 DEF Ended
<1>. QED  BY <1>1, <1>7, <1>9, <1>10 DEF Positions

\* A frame of the replay is written.
LEMMA ReceiveReplayOnward ==
    ASSUME Control, NEW a, NEW at, Positions(a, at), ReceiveReplay
    PROVE  Onward(a)
<1>1. /\ Takes("data") /\ phase = "replay" /\ fed' = fed \o down[1].bytes
      /\ UNCHANGED <<produced, ended, overflowed, srv, replay, buffer, pending, queue, conn, cqueue, exited, code>>
  <2>. "data" \in Kinds /\ Takes("data")
    BY DEF Kinds, ReceiveReplay
  <2>1. Head(down) = down[1]
    BY TakenIs
  <2>. QED  BY <2>1 DEF ReceiveReplay, terminal, handler, viewer, pane
<1>2. "data" \in Kinds
  BY DEF Kinds
<1>3. /\ at[0] \in Nat /\ at[1] \in Nat /\ at[1] <= produced /\ produced \in Nat
      /\ down[1].bytes \in Seq(Byte) /\ Piece(down[1].bytes, at[0])
      /\ at[1] = at[0] + Len(down[1].bytes) /\ at[0] = a + Len(fed) + Len(cqueue) /\ Screen(a)
  BY <1>1, <1>2, FirstIs
<1>4. cqueue = <<>> /\ ~exited
  BY <1>1 DEF Control, PaneOK
<1>5. PICK data : data = down[1].bytes
  OBVIOUS
<1>6. PICK rest : rest = <<>>
  OBVIOUS
<1>7. /\ data \in Seq(Byte) /\ rest \in Seq(Byte) /\ data \o rest = data /\ fed' = fed \o data /\ cqueue' = rest
  BY <1>1, <1>3, <1>4, <1>5, <1>6, ConcatEmptySeq, EmptySeq
<1>8. a \in Nat /\ Len(fed) \in Nat /\ Len(cqueue) = 0 /\ at[0] = a + Len(fed)
  BY <1>3, <1>4, ScreenIs, EmptySeq
<1>9. Piece(data \o rest, a + Len(fed)) /\ a + Len(fed) + Len(data \o rest) <= produced
  BY <1>3, <1>5, <1>7, <1>8
<1>10. /\ Screen(a)' /\ Len(fed') + Len(cqueue') = Len(fed) + Len(data \o rest)
       /\ \E bytes \in Seq(Byte) : fed' = fed \o bytes
  BY <1>1, <1>3, <1>7, <1>9, ScreenGrows
<1>11. at[1] = a + Len(fed') + Len(cqueue')
  <2>1. Len(fed') \in Nat /\ Len(cqueue') \in Nat /\ Len(data) \in Nat
    BY <1>7, <1>3, ScreenIs, ConcatIs, LenProperties
  <2>2. at[1] = a + Len(fed) + Len(data)
    BY <1>3, <1>5, <1>8
  <2>3. Len(fed') + Len(cqueue') = Len(fed) + Len(data)
    BY <1>7, <1>10
  <2>. QED  BY ONLY <1>8, <2>1, <2>2, <2>3
<1>12. \E bt : Line(a, bt)'
  BY <1>1, <1>2, <1>11, LineTaken
<1>13. Ended(a)'
  BY <1>1, <1>4 DEF Ended
<1>. QED  BY <1>1, <1>10, <1>12, <1>13 DEF Onward, Positions

\* replay_done is taken.
LEMMA ReceiveDoneOnward ==
    ASSUME Control, NEW a, NEW at, Positions(a, at), ReceiveDone
    PROVE  Onward(a)
<1>1. /\ Takes("done") /\ "done" \in Kinds
      /\ UNCHANGED <<produced, ended, srv, replay, buffer, pending, queue, overflowed, code, cqueue, exited, fed>>
      /\ ~exited
  BY ReceiveDoneIs DEF Kinds
<1>2. at[1] = a + Len(fed') + Len(cqueue') /\ Screen(a)
  BY <1>1, FirstIs
<1>3. \E bt : Line(a, bt)'
  BY <1>1, <1>2, LineTaken
<1>4. Screen(a)' /\ Ended(a)'
  BY <1>1, <1>2 DEF Screen, Start, Ended
<1>. QED  BY <1>1, <1>3, <1>4 DEF Onward, Positions

\* Live output that finds room is queued, and some of the queue written.
LEMMA ReceiveLiveOnward ==
    ASSUME Control, NEW a, NEW at, Positions(a, at), ReceiveLive,
           ~(Len(cqueue \o Head(down).bytes) > ClientMax)
    PROVE  Onward(a)
<1>1. /\ Takes("data") /\ "data" \in Kinds /\ Pump(cqueue \o down[1].bytes, xterm, unparsed)
      /\ cqueue \o down[1].bytes \in Seq(Byte) /\ down[1].bytes \in Seq(Byte)
      /\ UNCHANGED <<produced, ended, srv, replay, buffer, pending, queue, overflowed, code, exited>>
      /\ ~exited
  BY ReceiveLiveIs DEF Kinds
<1>2. /\ at[0] \in Nat /\ at[1] \in Nat /\ at[1] <= produced /\ produced \in Nat
      /\ Piece(down[1].bytes, at[0]) /\ at[1] = at[0] + Len(down[1].bytes)
      /\ at[0] = a + Len(fed) + Len(cqueue) /\ Screen(a)
  BY <1>1, FirstIs
<1>3. /\ a \in Nat /\ cqueue \in Seq(Byte) /\ Len(fed) \in Nat /\ Len(cqueue) \in Nat
      /\ Piece(cqueue, a + Len(fed))
  BY <1>2, ScreenIs
<1>4. PICK data : data = down[1].bytes
  OBVIOUS
<1>5. PICK bytes : bytes = cqueue \o data
  OBVIOUS
<1>6. PICK p \in Nat : p = a + Len(fed)
  BY <1>3
<1>7. /\ data \in Seq(Byte) /\ bytes \in Seq(Byte) /\ Len(data) \in Nat
      /\ Len(bytes) = Len(cqueue) + Len(data) /\ Pump(bytes, xterm, unparsed)
  BY <1>1, <1>3, <1>4, <1>5, ConcatIs
<1>8. Piece(bytes, p)
  <2>1. Piece(data, p + Len(cqueue)) /\ Piece(cqueue, p)
    BY <1>2, <1>3, <1>4, <1>6
  <2>2. data \in Seq(Byte) /\ cqueue \in Seq(Byte) /\ p \in Nat
    BY <1>3, <1>7
  <2>3. Piece(cqueue \o data, p)
    BY ONLY <2>1, <2>2, PieceJoin
  <2>. QED  BY <1>5, <2>3
<1>9. at[1] = p + Len(bytes) /\ p + Len(bytes) <= produced
  <2>1. at[1] = at[0] + Len(data) /\ at[0] = p + Len(cqueue)
    BY <1>2, <1>4, <1>6
  <2>2. at[1] <= produced /\ p \in Nat
    BY <1>2
  <2>. QED  BY ONLY <1>3, <1>7, <2>1, <2>2
<1>10. /\ Screen(a)' /\ Len(fed') + Len(cqueue') = Len(fed) + Len(bytes)
       /\ fed' = fed \/ \E more \in Seq(Byte) : fed' = fed \o more
  <2>1. Piece(bytes, a + Len(fed)) /\ a + Len(fed) + Len(bytes) <= produced
    BY <1>6, <1>8, <1>9
  <2>. QED  BY <1>1, <1>2, <1>7, <2>1, PumpScreen
<1>11. at[1] = a + Len(fed') + Len(cqueue')
  <2>1. fed' \in Seq(Byte)' /\ cqueue' \in Seq(Byte)'
    BY ControlStep DEF Next, PaneStep, Control, Typed, PaneTyped
  <2>2. Len(fed') \in Nat /\ Len(cqueue') \in Nat /\ Len(bytes) \in Nat
    BY <1>7, <2>1, LenProperties
  <2>. QED  BY ONLY <1>3, <1>6, <1>9, <1>10, <2>2
<1>12. \E bt : Line(a, bt)'
  BY <1>1, <1>11, LineTaken
<1>13. Ended(a)'
  BY <1>1 DEF Ended
<1>. QED  BY <1>1, <1>10, <1>12, <1>13 DEF Onward, Positions

\* What is queued is written when the pane ends.
LEMMA ShowExitScreen ==
    ASSUME Control, NEW a, Screen(a), ShowExit, produced' = produced
    PROVE  /\ Screen(a)' /\ Len(fed') + Len(cqueue') = Len(fed) + Len(cqueue) /\ cqueue' = <<>>
           /\ \E bytes \in Seq(Byte) : fed' = fed \o bytes
<1>1. /\ a \in Nat /\ cqueue \in Seq(Byte) /\ Len(fed) \in Nat /\ Len(cqueue) \in Nat
      /\ Piece(cqueue, a + Len(fed)) /\ a + Len(fed) + Len(cqueue) <= produced
  BY ScreenIs
<1>2. fed' = fed \o cqueue /\ cqueue' = <<>>
  BY DEF ShowExit
<1>3. PICK data : data = cqueue
  OBVIOUS
<1>4. PICK rest : rest = <<>>
  OBVIOUS
<1>5. /\ data \in Seq(Byte) /\ rest \in Seq(Byte) /\ data \o rest = data /\ fed' = fed \o data /\ cqueue' = rest
  BY <1>1, <1>2, <1>3, <1>4, ConcatEmptySeq, EmptySeq
<1>6. Piece(data \o rest, a + Len(fed)) /\ a + Len(fed) + Len(data \o rest) <= produced
  BY <1>1, <1>3, <1>5
<1>7. /\ Screen(a)' /\ Len(fed') + Len(cqueue') = Len(fed) + Len(data \o rest)
      /\ \E bytes \in Seq(Byte) : fed' = fed \o bytes
  BY <1>5, <1>6, ScreenGrows
<1>. QED  BY <1>2, <1>3, <1>5, <1>7

\* The exit is taken: behind it, if the session ended by itself, there is no byte.
LEMMA ReceiveExitOnward ==
    ASSUME Control, NEW a, NEW at, Positions(a, at), ReceiveExit
    PROVE  Onward(a)
<1>1. /\ Takes("exit") /\ "exit" \in Kinds /\ ShowExit
      /\ UNCHANGED <<produced, ended, srv, replay, buffer, pending, queue, overflowed, code>>
  BY DEF ReceiveExit, Kinds, terminal, handler, viewer
<1>2. /\ at[0] = a + Len(fed) + Len(cqueue) /\ at[1] = at[0] /\ Screen(a)
      /\ ended = "exit" => at[1] = produced
  BY <1>1, FirstIs
<1>3. /\ Screen(a)' /\ Len(fed') + Len(cqueue') = Len(fed) + Len(cqueue) /\ cqueue' = <<>>
      /\ \E bytes \in Seq(Byte) : fed' = fed \o bytes
  BY <1>1, <1>2, ShowExitScreen
<1>4. /\ a \in Nat /\ Len(fed) \in Nat /\ Len(cqueue) \in Nat /\ fed \in Seq(Byte)
  BY <1>2, ScreenIs
<1>5. Len(fed') \in Nat /\ Len(cqueue') = 0
  <2>1. PICK bytes \in Seq(Byte) : fed' = fed \o bytes
    BY <1>3
  <2>. QED  BY <1>3, <1>4, <2>1, ConcatIs, LenProperties, EmptySeq
<1>6. at[1] = a + Len(fed') + Len(cqueue') /\ at[1] = a + Len(fed')
  <2>1. PICK m \in Nat : m = Len(fed')
    BY <1>5
  <2>2. m + Len(cqueue') = Len(fed) + Len(cqueue)
    BY <1>3, <2>1
  <2>3. m = Len(fed) + Len(cqueue)
    BY <1>5, <2>2
  <2>4. at[1] = a + m
    BY <1>2, <1>4, <2>3
  <2>. QED  BY <1>4, <1>5, <2>1, <2>4
<1>7. \E bt : Line(a, bt)'
  BY <1>1, <1>6, LineTaken
<1>8. Ended(a)'
  BY <1>1, <1>2, <1>6 DEF Ended
<1>. QED  BY <1>1, <1>3, <1>7, <1>8 DEF Onward, Positions

\* xterm has parsed a write, and the pane may write more of its queue.
LEMMA XtermParsesOnward ==
    ASSUME Control, NEW a, NEW at, Positions(a, at), XtermParses
    PROVE  Onward(a)
<1>1. UNCHANGED <<produced, ended, srv, replay, buffer, pending, queue, overflowed, down, conn, code, exited>>
  BY XtermParsesIs
<1>2. /\ Screen(a) /\ a \in Nat /\ produced \in Nat /\ cqueue \in Seq(Byte) /\ Len(fed) \in Nat
      /\ Len(cqueue) \in Nat /\ Piece(cqueue, a + Len(fed)) /\ a + Len(fed) + Len(cqueue) <= produced
  BY ScreenIs DEF Positions
<1>3. /\ Screen(a)' /\ Len(fed') + Len(cqueue') = Len(fed) + Len(cqueue)
      /\ fed' = fed \/ \E bytes \in Seq(Byte) : fed' = fed \o bytes
  <2>1. \/ Pump(cqueue, Tail(xterm), unparsed - Counts(xterm[1]))
        \/ UNCHANGED <<cqueue, fed>>
    BY XtermParsesIs
  <2>2. CASE Pump(cqueue, Tail(xterm), unparsed - Counts(xterm[1]))
    BY <1>1, <1>2, <2>2, PumpScreen
  <2>3. CASE UNCHANGED <<cqueue, fed>>
    BY <1>1, <1>2, <2>3 DEF Screen, Start
  <2>. QED  BY <2>1, <2>2, <2>3
<1>4. Len(fed') \in Nat /\ Len(cqueue') \in Nat
  <2>1. fed' \in Seq(Byte)' /\ cqueue' \in Seq(Byte)'
    BY ControlStep DEF Next, Control, Typed, PaneTyped
  <2>. QED  BY <2>1, LenProperties
<1>5. a + Len(fed') + Len(cqueue') = a + Len(fed) + Len(cqueue)
  BY ONLY <1>2, <1>3, <1>4
<1>6. Line(a, at)'
  <2>. SUFFICES ASSUME conn = "open", srv # "accept"
                PROVE  /\ Wire(down, at)'
                       /\ (IF SizeComes THEN Start(at[0]) ELSE at[0] = a + Len(fed) + Len(cqueue))'
                       /\ srv # "off" => Unsent(at[Len(down)])'
    BY <1>1 DEF Line
  <2>1. /\ Wire(down, at) /\ IF SizeComes THEN Start(at[0]) ELSE at[0] = a + Len(fed) + Len(cqueue)
        /\ srv # "off" => Unsent(at[Len(down)])
    BY DEF Positions, Line
  <2>2. Wire(down, at)'
    BY <1>1, <2>1 DEF Wire, Sits
  <2>3. (IF SizeComes THEN Start(at[0]) ELSE at[0] = a + Len(fed) + Len(cqueue))'
    BY <1>1, <1>5, <2>1 DEF SizeComes, Start
  <2>4. srv # "off" => Unsent(at[Len(down)])'
    <3>. SUFFICES ASSUME srv # "off"  PROVE Unsent(at[Len(down)])'
      OBVIOUS
    <3>1. Unsent(at[Len(down)])
      BY <2>1
    <3>. QED  BY <1>1, <3>1 DEF Unsent, Following, Follow, Unmarked, Held, Subscribed, Alive
  <2>. QED  BY <2>2, <2>3, <2>4
<1>7. Ended(a)'
  <2>. SUFFICES ASSUME exited, ended = "exit", code \in {0, 1000}  PROVE a + Len(fed') = produced
    BY <1>1 DEF Ended
  <2>1. a + Len(fed) = produced /\ cqueue = <<>>
    BY DEF Positions, Ended, Control, PaneOK
  <2>2. Len(cqueue) = 0
    BY <2>1, EmptySeq
  <2>3. a + Len(fed') <= produced /\ Len(fed') >= Len(fed)
    <3>1. a + Len(fed') + Len(cqueue') <= produced
      BY <1>1, <1>2, <1>5
    <3>2. Len(fed') >= Len(fed)
      <4>1. CASE fed' = fed
        BY <1>2, <4>1
      <4>2. ASSUME NEW bytes \in Seq(Byte), fed' = fed \o bytes  PROVE Len(fed') >= Len(fed)
        <5>1. fed \in Seq(Byte)
          BY DEF Control, Typed, PaneTyped
        <5>2. Len(fed') = Len(fed) + Len(bytes) /\ Len(bytes) \in Nat
          BY <4>2, <5>1, ConcatIs
        <5>. QED  BY ONLY <1>2, <5>2
      <4>. QED  BY <1>3, <4>1, <4>2
    <3>. QED  BY ONLY <1>2, <1>4, <3>1, <3>2
  <2>. QED  BY ONLY <1>2, <1>4, <2>1, <2>3
<1>. QED  BY <1>1, <1>3, <1>6, <1>7 DEF Onward, Positions

\* Nothing is on the screen that was not: only the socket changes.
LEMMA StillOnward ==
    ASSUME Control, NEW a, NEW at, Positions(a, at), UNCHANGED <<produced, ended, fed, cqueue, exited>>,
           conn' # "open" \/ srv' = "accept",
           exited /\ code' \in {0, 1000} => code \in {0, 1000}
    PROVE  Onward(a)
<1>1. Screen(a)'
  BY DEF Positions, Screen, Start
<1>2. Ended(a)'
  BY DEF Positions, Ended
<1>3. Line(a, at)'
  BY DEF Line
<1>. QED  BY <1>1, <1>2, <1>3 DEF Onward, Positions

\* The socket closes, from either side.
LEMMA LeavesOnward ==
    ASSUME Control, NEW a, NEW at, Positions(a, at), NEW how, conn = "open", Leaves(how),
           UNCHANGED <<produced, ended, fed, cqueue, exited>>
    PROVE  Onward(a)
<1>1. conn' = "closed" /\ code = 0
  BY DEF Leaves, Control, PaneOK
<1>. QED  BY <1>1, StillOnward

\* The four ways to lose the socket.
LEMMA LosesOnward ==
    ASSUME Control, NEW a, NEW at, Positions(a, at),
           \/ ConnectionLost \/ ReceiveClose \/ ReceiveOverflow
           \/ ReceiveLive /\ Len(cqueue \o Head(down).bytes) > ClientMax
    PROVE  Onward(a)
<1>1. CASE ConnectionLost
  BY <1>1, LeavesOnward DEF ConnectionLost, terminal, pane, screen
<1>2. CASE ReceiveClose
  BY <1>2, LeavesOnward DEF ReceiveClose, terminal, pane, screen
<1>3. CASE ReceiveOverflow
  BY <1>3, LeavesOnward DEF ReceiveOverflow, terminal, screen
<1>4. CASE ReceiveLive /\ Len(cqueue \o Head(down).bytes) > ClientMax
  BY <1>4, LeavesOnward DEF ReceiveLive, terminal, screen
<1>. QED  BY <1>1, <1>2, <1>3, <1>4

\* The pane connects: nothing is on the wire, and its queue is empty.
LEMMA ConnectsOnward ==
    ASSUME Control, NEW a, NEW at, Positions(a, at), Connect \/ ClosedByOverflow
    PROVE  Onward(a)
<1>1. /\ ~exited /\ srv' = "accept" /\ cqueue' = <<>>
      /\ UNCHANGED <<produced, ended, fed, exited>>
  BY DEF Connect, ClosedByOverflow, Connects, terminal, Control, PaneOK
<1>2. /\ a \in 0 .. produced /\ Start(a) /\ Piece(fed, a) /\ a + Len(fed) <= produced
      /\ Len(fed) \in Nat /\ a \in Nat /\ produced \in Nat
  <2>1. /\ a \in Nat /\ produced \in Nat /\ Len(fed) \in Nat /\ Len(cqueue) \in Nat
        /\ a <= produced /\ Start(a) /\ Piece(fed, a) /\ a + Len(fed) + Len(cqueue) <= produced
    BY ScreenIs DEF Positions
  <2>2. a + Len(fed) <= produced
    BY ONLY <2>1
  <2>. QED  BY <2>1, <2>2
<1>3. Len(cqueue') = 0
  BY <1>1, EmptySeq
<1>4. Screen(a)'
  BY <1>1, <1>2, <1>3 DEF Screen, Start, Piece
<1>5. Ended(a)'
  BY <1>1 DEF Ended
<1>6. Line(a, at)'
  BY <1>1 DEF Line
<1>. QED  BY <1>1, <1>4, <1>5, <1>6 DEF Onward, Positions

\* What the pane makes of a closed socket without connecting.
LEMMA ClosedOnward ==
    ASSUME Control, NEW a, NEW at, Positions(a, at), ClosedAfterExit \/ ClosedOtherwise
    PROVE  Onward(a)
<1>1. CASE ClosedAfterExit
  BY <1>1, StillOnward DEF ClosedAfterExit, terminal, pane, screen
<1>2. CASE ClosedOtherwise /\ conn' = "retry" /\ UNCHANGED <<pane, screen>>
  BY <1>2, StillOnward DEF ClosedOtherwise, terminal, pane, screen
<1>3. CASE ClosedOtherwise /\ conn' = "off" /\ ShowExit
  <2>1. /\ UNCHANGED <<produced, ended, code>> /\ conn = "closed" /\ ~exited /\ ~resync
    BY <1>3 DEF ClosedOtherwise, terminal
  <2>2. code \notin {0, 1000}
    BY <2>1 DEF Control, PaneOK, Typed, LineTyped
  <2>3. /\ Screen(a)' /\ \E bytes \in Seq(Byte) : fed' = fed \o bytes
    BY <1>3, <2>1, ShowExitScreen DEF Positions
  <2>4. Line(a, at)' /\ Ended(a)'
    BY <1>3, <2>1, <2>2 DEF Line, Ended
  <2>. QED  BY <2>1, <2>3, <2>4 DEF Onward, Positions
<1>. QED  BY <1>1, <1>2, <1>3 DEF ClosedOtherwise

\* A step that is none.
LEMMA SameOnward ==
    ASSUME Control, NEW a, NEW at, Positions(a, at), UNCHANGED vars
    PROVE  Onward(a)
<1>1. UNCHANGED <<produced, ended, overflowed, srv, replay, buffer, pending, queue, down, conn, fed, cqueue,
                  exited, code>>
  BY DEF vars, terminal, handler, viewer, pane, screen
<1>2. Screen(a)' /\ Ended(a)'
  BY <1>1 DEF Positions, Screen, Start, Ended
<1>3. Line(a, at)'
  <2>. SUFFICES ASSUME conn = "open", srv # "accept"
                PROVE  /\ Wire(down, at)'
                       /\ (IF SizeComes THEN Start(at[0]) ELSE at[0] = a + Len(fed) + Len(cqueue))'
                       /\ srv # "off" => Unsent(at[Len(down)])'
    BY <1>1 DEF Line
  <2>1. /\ Wire(down, at) /\ IF SizeComes THEN Start(at[0]) ELSE at[0] = a + Len(fed) + Len(cqueue)
        /\ srv # "off" => Unsent(at[Len(down)])
    BY DEF Positions, Line
  <2>2. Wire(down, at)'
    BY <1>1, <2>1 DEF Wire, Sits
  <2>3. (IF SizeComes THEN Start(at[0]) ELSE at[0] = a + Len(fed) + Len(cqueue))'
    BY <1>1, <2>1 DEF SizeComes, Start
  <2>4. srv # "off" => Unsent(at[Len(down)])'
    BY <1>1, <2>1 DEF Unsent, Following, Follow, Unmarked, Held, Subscribed, Alive
  <2>. QED  BY <2>2, <2>3, <2>4
<1>. QED  BY <1>1, <1>2, <1>3 DEF Onward, Positions

\* Every step keeps each byte in its place: the terminal writes more, the screen starts
\* over, or bytes are added to the screen.
LEMMA PositionsStep ==
    ASSUME Control, NEW a, NEW at, Positions(a, at), [Next]_vars
    PROVE  \/ produced' > produced /\ fed' = fed /\ Positions(a, at)'
           \/ produced' = produced /\ fed' = <<>> /\ \E b, bt : Positions(b, bt)'
           \/ Onward(a)
<1>1. CASE TerminalStep
  <2>1. ASSUME NEW n \in 1 .. 2, OnOutput(n)  PROVE produced' > produced /\ fed' = fed /\ Positions(a, at)'
    BY <2>1, OnOutputPlaces
  <2>2. ASSUME NEW how \in {"exit", "kill"}, Ends(how)  PROVE Onward(a)
    BY <2>2, EndsPlaces DEF Onward
  <2>. QED  BY <1>1, <2>1, <2>2 DEF TerminalStep
<1>2. CASE HandlerStep
  BY <1>2, AcceptOnward, SendFrameOnward, ReceiveAckOnward, ReplayDoneOnward, DrainOnward,
     StartPumpOnward, PumpFrameOnward DEF HandlerStep
<1>3. CASE PaneStep
  BY <1>3, ConnectsOnward, ReceiveSizePlaces, ReceiveReplayOnward, ReceiveLiveOnward, LosesOnward,
     ReceiveDoneOnward, ReceiveExitOnward, ClosedOnward DEF PaneStep
<1>4. CASE XtermParses
  BY <1>4, XtermParsesOnward
<1>5. CASE Breaks
  BY <1>5, GivesUpOnward, LosesOnward DEF Breaks
<1>6. CASE UNCHANGED vars
  BY <1>6, SameOnward
<1>. QED  BY <1>1, <1>2, <1>3, <1>4, <1>5, <1>6 DEF Next

\* The invariant holds at the start.
LEMMA PositionsInit == Init => IInv
<1>. SUFFICES ASSUME Init  PROVE IInv
  OBVIOUS
<1>1. Len(fed) = 0 /\ Len(cqueue) = 0 /\ produced = 0
  BY EmptySeq DEF Init
<1>2. Screen(0)
  BY <1>1 DEF Screen, Start, Piece
<1>3. \A at : Line(0, at) /\ Ended(0)
  BY DEF Init, Line, Ended
<1>4. \A at : Positions(0, at)
  BY <1>2, <1>3 DEF Positions
<1>. QED  BY <1>4, ControlInit DEF IInv

\* The invariant holds of every step.
LEMMA IInvStep == IInv /\ [Next]_vars => IInv'
<1>. SUFFICES ASSUME IInv, [Next]_vars  PROVE IInv'
  OBVIOUS
<1>1. PICK a, at : Control /\ Positions(a, at)
  BY DEF IInv
<1>2. \E b, bt : Positions(b, bt)'
  BY <1>1, PositionsStep DEF Onward
<1>. QED  BY <1>1, <1>2, ControlStep DEF IInv

\* The invariant holds of every run.
LEMMA IInvHolds == Spec => []IInv
  BY PositionsInit, IInvStep, PTL DEF Spec

-----------------------------------------------------------------------------
(* What follows. *)

\* The pane that reports an exit by itself has everything up to the last byte.
THEOREM ExitShowsEverything == Spec => []ExitShowsAll
<1>1. IInv => ExitShowsAll
  <2>. SUFFICES ASSUME IInv, exited, ended = "exit", code \in {0, 1000}, produced # 0
                PROVE  fed # <<>> /\ Last(fed) = produced
    BY DEF ExitShowsAll, Complete
  <2>1. PICK a, at : Control /\ Positions(a, at)
    BY DEF IInv
  <2>2. /\ a \in Nat /\ produced \in Nat /\ Len(fed) \in Nat /\ fed \in Seq(Byte)
        /\ Start(a) /\ Piece(fed, a) /\ a + Len(fed) = produced
    BY <2>1, ScreenIs DEF Positions, Ended
  <2>3. fed # <<>>
    <3>. SUFFICES ASSUME fed = <<>>  PROVE FALSE
      OBVIOUS
    <3>1. Len(fed) = 0
      BY EmptySeq
    <3>2. RingCap \in Nat \ {0}
      BY LimitsAssumption
    <3>. QED  BY <2>2, <3>1, <3>2 DEF Start
  <2>4. Len(fed) \in 1 .. Len(fed)
    BY <2>2, <2>3, EmptySeq
  <2>5. fed[Len(fed)] = produced
    BY <2>2, <2>4 DEF Piece
  <2>. QED  BY <2>3, <2>5 DEF Last
<1>. QED  BY <1>1, IInvHolds, PTL

\* What is added to a screen is what comes next; on an empty one it starts inside the ring.
LEMMA ShowsMore ==
    ASSUME Control, Control', NEW a, Screen(a), Screen(a)', produced' = produced,
           NEW bytes \in Seq(Byte), fed' = fed \o bytes
    PROVE  [Stream!Next]_<<produced, fed>>
<1>1. /\ a \in Nat /\ produced \in Nat /\ fed \in Seq(Byte) /\ Len(fed) \in Nat /\ Start(a) /\ Piece(fed, a)
  BY ScreenIs
<1>2. /\ Len(bytes) \in Nat /\ Len(fed \o bytes) = Len(fed) + Len(bytes)
      /\ \A i \in 1 .. Len(bytes) : (fed \o bytes)[Len(fed) + i] = bytes[i]
  BY <1>1, ConcatIs
<1>3. PICK n \in Nat : n = a + Len(fed)
  BY <1>1
<1>4. CASE Len(bytes) = 0
  <2>1. bytes = <<>>
    BY <1>4, EmptySeq
  <2>2. fed' = fed
    BY <1>1, <2>1, ConcatEmptySeq
  <2>. QED  BY <2>2
<1>5. CASE Len(bytes) # 0
  <2>1. \A i \in 1 .. Len(bytes) : bytes[i] = n + i
    <3>. TAKE i \in 1 .. Len(bytes)
    <3>1. Piece(fed', a)
      BY DEF Screen, Piece
    <3>2. Len(fed) + i \in 1 .. Len(fed')
      BY <1>1, <1>2
    <3>3. fed'[Len(fed) + i] = a + (Len(fed) + i)
      BY <3>1, <3>2 DEF Piece
    <3>. QED  BY <1>1, <1>2, <1>3, <3>3
  <2>2. n + Len(bytes) <= produced
    <3>1. a + Len(fed') + Len(cqueue') <= produced /\ Len(cqueue') \in Nat
      <4>1. cqueue' \in Seq(Byte)'
        BY DEF Control, Typed, PaneTyped
      <4>. QED  BY <4>1, LenProperties DEF Screen
    <3>2. Len(fed') = Len(fed) + Len(bytes)
      BY <1>2
    <3>. QED  BY ONLY <1>1, <1>2, <1>3, <3>1, <3>2
  <2>3. PICK first \in 1 .. produced : first = n + 1
    BY <1>1, <1>2, <1>5, <2>2
  <2>4. PICK last \in 1 .. produced : last = n + Len(bytes)
    BY <1>1, <1>2, <1>5, <2>2
  <2>5. bytes = Stream!Run(first, last)
    <3>1. last + 1 - first = Len(bytes)
      BY <1>2, <2>3, <2>4
    <3>2. \A i \in 1 .. Len(bytes) : first + i - 1 = bytes[i]
      BY <1>2, <2>1, <2>3
    <3>3. bytes = [i \in 1 .. Len(bytes) |-> bytes[i]]
      BY LenProperties
    <3>4. Stream!Run(first, last) = [i \in 1 .. Len(bytes) |-> first + i - 1]
      BY <3>1 DEF Stream!Run
    <3>. QED  BY <3>2, <3>3, <3>4
  <2>6. IF fed = <<>> THEN first = 1 \/ first + RingCap <= produced + 1
                      ELSE first = fed[Len(fed)] + 1
    <3>1. CASE fed = <<>>
      <4>1. first = a + 1
        BY <1>1, <1>3, <2>3, <3>1, EmptySeq
      <4>2. RingCap \in Nat
        BY LimitsAssumption
      <4>. QED  BY <1>1, <3>1, <4>1, <4>2 DEF Start
    <3>2. CASE fed # <<>>
      <4>1. Len(fed) \in 1 .. Len(fed)
        BY <1>1, <3>2, EmptySeq
      <4>2. fed[Len(fed)] = a + Len(fed)
        BY <1>1, <4>1 DEF Piece
      <4>. QED  BY <1>3, <2>3, <3>2, <4>2
    <3>. QED  BY <3>1, <3>2
  <2>7. fed' = fed \o Stream!Run(first, last) /\ UNCHANGED produced
    BY <2>5
  <2>8. Stream!Show
    BY <2>6, <2>7 DEF Stream!Show
  <2>. QED  BY <2>8 DEF Stream!Next
<1>. QED  BY <1>2, <1>4, <1>5

\* What is written to the terminal is one piece of its output: nothing lost, doubled or
\* out of order, and a new start misses only what the ring dropped.
THEOREM OutputIsOnePiece == Spec => RefinesStream
<1>1. Init => Stream!Init
  BY DEF Init, Stream!Init
<1>2. IInv /\ [Next]_vars => [Stream!Next]_<<produced, fed>>
  <2>. SUFFICES ASSUME IInv, [Next]_vars  PROVE [Stream!Next]_<<produced, fed>>
    OBVIOUS
  <2>1. PICK a, at : Control /\ Positions(a, at)
    BY DEF IInv
  <2>2. CASE produced' > produced /\ fed' = fed
    <3>1. Stream!Produce
      BY <2>2 DEF Stream!Produce
    <3>. QED  BY <3>1 DEF Stream!Next
  <2>3. CASE produced' = produced /\ fed' = <<>>
    <3>1. Stream!Restart
      BY <2>3 DEF Stream!Restart
    <3>. QED  BY <3>1 DEF Stream!Next
  <2>4. CASE Onward(a)
    <3>1. CASE fed' = fed
      BY <2>4, <3>1 DEF Onward
    <3>2. ASSUME NEW bytes \in Seq(Byte), fed' = fed \o bytes
          PROVE  [Stream!Next]_<<produced, fed>>
      <4>1. Control'
        BY <2>1, ControlStep
      <4>2. Screen(a) /\ Screen(a)' /\ produced' = produced
        BY <2>1, <2>4 DEF Onward, Positions
      <4>. QED  BY <2>1, <3>2, <4>1, <4>2, ShowsMore
    <3>. QED  BY <2>4, <3>1, <3>2 DEF Onward
  <2>. QED  BY <2>1, <2>2, <2>3, <2>4, PositionsStep
<1>. QED  BY <1>1, <1>2, IInvHolds, PTL DEF Spec, RefinesStream, Stream!Spec
=============================================================================
