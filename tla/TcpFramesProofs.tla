-------------------------- MODULE TcpFramesProofs --------------------------
(* Who may write on a tcp connection, for any number of senders, sizes and  *)
(* frames.                                                                  *)
EXTENDS TcpFrames, SequenceTheorems, TLAPS

\* TypeOK says how much a writer has left; the proof needs what a write leaves.
SomeFrames == [n : Nat, size : Nat]
Pieces == [frame : SomeFrames, part : {"whole", "head", "tail"}]
Unwritten == {<< >>} \cup {<<p>> : p \in Pieces}
IInv ==
  /\ TypeOK
  /\ writing \in [Writers -> Unwritten]
  /\ sent \in [Directions -> Seq(SomeFrames)]

LEMMA UnwrittenFacts ==
  /\ << >> \in Unwritten
  /\ \A w \in Unwritten : Len(w) <= 1
  /\ \A f \in SomeFrames, part \in {"whole", "head", "tail"} : <<Piece(f, part)>> \in Unwritten
<1>1. \A f \in SomeFrames, part \in {"whole", "head", "tail"} : Piece(f, part) \in Pieces
  BY DEF Piece, Pieces
<1>2. \A p \in Pieces : <<p>> \in Unwritten /\ Len(<<p>>) = 1
  BY DEF Unwritten
<1>3. ASSUME NEW w \in Unwritten PROVE Len(w) <= 1
  <2>1. CASE w = << >>
    BY <2>1
  <2>2. ASSUME NEW p \in Pieces, w = <<p>> PROVE Len(w) <= 1
    BY <1>2, <2>2
  <2> QED  BY <2>1, <2>2 DEF Unwritten
<1> QED  BY <1>1, <1>2, <1>3 DEF Unwritten

LEMMA InitType == Init => IInv
<1> SUFFICES ASSUME Init PROVE IInv
  OBVIOUS
<1>1. << >> \in Seq(Sizes) /\ << >> \in Seq(SomeFrames)
  OBVIOUS
<1>2. writing \in [Writers -> Unwritten] /\ sent \in [Directions -> Seq(SomeFrames)]
  BY <1>1, UnwrittenFacts DEF Init
<1>3. \A w \in Writers : writing[w] = << >>
  BY DEF Init
<1>4. Dialler \in Writers /\ Senders \subseteq Writers
  BY DEF Writers
<1>5. \A w \in Writers : Len(writing[w]) <= 1
  BY <1>2, UnwrittenFacts
<1>6. TypeOK
  BY <1>1, <1>3, <1>4, <1>5 DEF Init, TypeOK
<1> QED  BY <1>2, <1>6 DEF IInv

\* A frame that is begun, by whom it may.
LEMMA BeginType ==
  ASSUME IInv, NEW w \in Writers, NEW size \in Sizes, Begin(w, size)
  PROVE  /\ writing' \in [Writers -> Unwritten]
         /\ writing' = [writing EXCEPT ![w] = writing'[w]]
         /\ writing'[w] # << >>
         /\ sent' \in [Directions -> Seq(SomeFrames)]
<1> DEFINE f == Frame(Len(sent[Direction(w)]) + 1, size)
<1>1. Direction(w) \in Directions
  BY DEF Direction, Directions
<1>2. Len(sent[Direction(w)]) + 1 \in Nat /\ size \in Nat
  BY <1>1, TcpFramesAssumption DEF IInv
<1>3. f \in SomeFrames
  BY <1>2 DEF Frame, SomeFrames
<1>4. <<Piece(f, "whole")>> \in Unwritten
  BY <1>3, UnwrittenFacts
<1>5. writing' = [writing EXCEPT ![w] = <<Piece(f, "whole")>>]
  BY DEF Begin
<1>6. sent' = [sent EXCEPT ![Direction(w)] = Append(@, f)]
  BY DEF Begin
<1> HIDE DEF f
<1>7. writing' \in [Writers -> Unwritten] /\ writing'[w] = <<Piece(f, "whole")>>
  BY <1>4, <1>5 DEF IInv
<1>8. sent' \in [Directions -> Seq(SomeFrames)]
  BY <1>1, <1>3, <1>6 DEF IInv
<1> QED  BY <1>5, <1>7, <1>8

LEMMA NextType == IInv /\ [Next]_vars => IInv'
<1> SUFFICES ASSUME IInv, [Next]_vars PROVE IInv'
  OBVIOUS
<1> USE DEF IInv, TypeOK, config
<1>1. ASSUME NEW size \in Sizes, Handshake(size) PROVE IInv'
  <2>1. Dialler \in Writers /\ Dialler \notin Senders
    BY TcpFramesAssumption DEF Writers
  <2>2. Begin(Dialler, size)
    BY <1>1 DEF Handshake
  <2>3. /\ writing' \in [Writers -> Unwritten]
        /\ \A w \in Writers \ {Dialler} : writing'[w] = writing[w]
        /\ sent' \in [Directions -> Seq(SomeFrames)]
    BY <2>1, <2>2, BeginType
  <2> QED  BY <1>1, <2>1, <2>3, UnwrittenFacts DEF Handshake, Writers
<1>2. ASSUME NEW size \in Sizes, NEW w \in Senders, Send(w, size) PROVE IInv'
  <2>1. w \in Writers /\ w # Dialler
    BY TcpFramesAssumption DEF Writers
  <2>2. Begin(w, size)
    BY <1>2 DEF Send
  <2>3. /\ writing' \in [Writers -> Unwritten]
        /\ \A v \in Writers \ {w} : writing'[v] = writing[v]
        /\ sent' \in [Directions -> Seq(SomeFrames)]
    BY <2>1, <2>2, BeginType
  <2>4. \A v \in Senders \ {w} : writing'[v] = << >>
    BY <1>2, <2>3 DEF Send, Writers
  <2>5. writing'[Dialler] = writing[Dialler]
    BY <2>1, <2>3 DEF Writers
  <2> QED  BY <1>2, <2>1, <2>3, <2>4, <2>5, UnwrittenFacts DEF Send, Writers
<1>3. ASSUME NEW p \in Pumps, PumpTakes(p) PROVE IInv'
  <2>1. p \in Writers /\ p \notin Senders /\ p # Dialler
    BY TcpFramesAssumption DEF Writers, Pumps
  <2>2. Head(queue[p]) \in Sizes /\ Tail(queue[p]) \in Seq(Sizes)
    BY <1>3 DEF PumpTakes
  <2>3. Begin(p, Head(queue[p]))
    BY <1>3 DEF PumpTakes
  <2>4. /\ writing' \in [Writers -> Unwritten]
        /\ \A v \in Writers \ {p} : writing'[v] = writing[v]
        /\ sent' \in [Directions -> Seq(SomeFrames)]
    BY <2>1, <2>2, <2>3, BeginType
  <2>5. queue' \in [Pumps -> Seq(Sizes)]
    BY <1>3, <2>2 DEF PumpTakes
  <2> QED  BY <1>3, <2>1, <2>4, <2>5, UnwrittenFacts DEF PumpTakes, Writers
<1>4. ASSUME NEW w \in Writers, Write(w) PROVE IInv'
  <2>1. writing[w] \in Unwritten
    OBVIOUS
  <2>2. PICK p \in Pieces : writing[w] = <<p>>
    BY <1>4, <2>1 DEF Write, Unwritten
  <2>3. <<Piece(p.frame, "tail")>> \in Unwritten
    BY UnwrittenFacts DEF Pieces
  <2>4. PICK q \in Unwritten :
          /\ writing' = [writing EXCEPT ![w] = q]
          /\ \/ q = << >> /\ writeMutex' = writeMutex \ {w}
             \/ writeMutex' = writeMutex
    <3>1. Head(writing[w]) = p
      BY <2>2
    <3>2. CASE /\ writing' = [writing EXCEPT ![w] = << >>]
               /\ writeMutex' = writeMutex \ {w}
      BY <3>2, UnwrittenFacts
    <3>3. CASE /\ writing' = [writing EXCEPT ![w] = <<Piece(p.frame, "tail")>>]
               /\ writeMutex' = writeMutex
      BY <3>3, <2>3
    <3> QED  BY <1>4, <3>1, <3>2, <3>3 DEF Write
  <2>5. writing' \in [Writers -> Unwritten]
    BY <2>4
  <2>6. Dialler \in Writers /\ Dialler \notin Senders /\ Senders \subseteq Writers
    BY TcpFramesAssumption DEF Writers
  <2>7. writing[w] # << >>
    BY <1>4 DEF Write
  <2>8. UNCHANGED <<config, conn, connected, pump, queue, first, reading, sent>>
    BY <1>4 DEF Write
  <2> QED  BY <2>4, <2>5, <2>6, <2>7, <2>8, UnwrittenFacts DEF config
<1>5. ASSUME NEW w \in Writers, WriteFails(w) PROVE IInv'
  <2>1. writing' \in [Writers -> Unwritten]
    BY <1>5, UnwrittenFacts DEF WriteFails
  <2>2. Dialler \in Writers /\ Dialler \notin Senders /\ Senders \subseteq Writers
    BY TcpFramesAssumption DEF Writers
  <2> QED  BY <1>5, <2>1, <2>2, UnwrittenFacts DEF WriteFails
<1>6. ASSUME NEW p \in Pumps, PumpFails(p) PROVE IInv'
  <2>1. writing' \in [Writers -> Unwritten]
    BY <1>6, UnwrittenFacts DEF PumpFails
  <2>2. p \notin Senders /\ p # Dialler /\ Senders \cup {Dialler} \subseteq Writers
    BY TcpFramesAssumption DEF Writers, Pumps
  <2> QED  BY <1>6, <2>1, <2>2, UnwrittenFacts DEF PumpFails
<1>7. ASSUME NEW p \in Pumps, NEW size \in Sizes, SendToPeer(p, size) PROVE IInv'
  <2>1. queue' \in [Pumps -> Seq(Sizes)]
    BY <1>7 DEF SendToPeer
  <2> QED  BY <1>7, <2>1 DEF SendToPeer
<1>8. CASE Connect
  BY <1>8 DEF Connect
<1>9. CASE ReadFirst
  BY <1>9 DEF ReadFirst
<1>10. CASE HandshakeFails
  BY <1>10 DEF HandshakeFails, ReaderOver
<1>11. CASE Disconnect
  BY <1>11 DEF Disconnect
<1>12. ASSUME NEW d \in Directions, Read(d) \/ TooLarge(d) \/ ReadFails(d) PROVE IInv'
  BY <1>12 DEF Read, TooLarge, ReadFails, ReaderOver
<1>13. CASE UNCHANGED vars
  BY <1>13 DEF vars
<1> QED
  BY <1>1, <1>2, <1>3, <1>4, <1>5, <1>6, <1>7, <1>8, <1>9, <1>10, <1>11, <1>12, <1>13
  DEF Next

\* Every variable keeps its type, and writeMutex admits one sender at a time
\* (reconnect.go, Send).
THEOREM TypeCorrect == Spec => []TypeOK
<1>1. IInv => TypeOK
  BY DEF IInv
<1> QED  BY <1>1, InitType, NextType, PTL DEF Spec

-----------------------------------------------------------------------------
(* What is on the wire.  The pieces there follow one another: each frame is *)
(* whole, or its head comes right before its tail.                          *)

Follows(p, q) ==
  IF p.part = "head" THEN q.part = "tail" /\ q.frame = p.frame
  ELSE q.part # "tail" /\ q.frame.n = p.frame.n + 1

\* Pieces w of the frames fs, of which number n is the next to be read.
Stream(w, fs, n) ==
  /\ \A k \in DOMAIN w : w[k].frame.n \in DOMAIN fs /\ w[k].frame = fs[w[k].frame.n]
  /\ w # << >> => w[1].part # "tail" /\ w[1].frame.n = n
  /\ \A k \in 1 .. Len(w) - 1 : Follows(w[k], w[k + 1])

\* The last frame that is on the wire, or was, and whether half of it is.
LastFrame(w, n) == IF w = << >> THEN n - 1 ELSE w[Len(w)].frame.n
Halfway(w) == w # << >> /\ w[Len(w)].part = "head"

\* p is the piece of the latest frame that comes next.
Fits(p, w, fs, n) ==
  /\ fs # << >> /\ p.frame = fs[Len(fs)]
  /\ \/ p.part = "whole" /\ ~Halfway(w) /\ LastFrame(w, n) = Len(fs) - 1
     \/ p.part = "tail" /\ Halfway(w) /\ LastFrame(w, n) = Len(fs)

\* No piece will be written any more.
Over(d) ==
  \/ d = "up" /\ conn # "open"
  \/ \E p \in Pumps : Direction(p) = d /\ pump[p] = "done"

\* Writers have what comes next, and when all have finished so have the pieces.
EdgeInv(d) ==
  LET next == Passed(d) + 1 IN
  Over(d)
    \/ /\ \A w \in Writers :
            Direction(w) = d /\ writing[w] # << >> => Fits(writing[w][1], wire[d], sent[d], next)
       /\ (\A w \in Writers : Direction(w) = d => writing[w] = << >>) =>
            ~Halfway(wire[d]) /\ LastFrame(wire[d], next) = Len(sent[d])

WriterInv ==
  /\ writeMutex # {} => connected /\ client = "reconnecting"
  /\ pump[ClientPump] # "none" => connected /\ client = "dial"
  /\ \A p \in Pumps : writing[p] # << >> => pump[p] = "running"
  /\ first => pump[ServerPump] = "none"

\* Readers, and what they have passed on.
ReaderInv ==
  /\ \A d \in Directions :
       /\ \A i \in DOMAIN sent[d] : sent[d][i].n = i
       /\ Passed(d) <= Len(sent[d])
       /\ \A i \in DOMAIN taken[d] : taken[d][i] = sent[d][Passed(d) - Len(taken[d]) + i]
  /\ first => taken["up"] = << >>

CloseInv ==
  conn = "closed" =>
    \/ first /\ "up" \notin reading
    \/ \E d \in Directions : \E i \in DOMAIN sent[d] : sent[d][i].size > MaxFrameSize

StreamInv == \A d \in Directions : Stream(wire[d], sent[d], Passed(d) + 1)
EdgesInv == \A d \in Directions : EdgeInv(d)
WireTypes ==
  wire \in [Directions -> Seq(Pieces)] /\ taken \in [Directions -> Seq(SomeFrames)]

\* The next piece continues the stream.
LEMMA StreamAppend ==
  ASSUME NEW w \in Seq(Pieces), NEW fs \in Seq(SomeFrames), NEW n \in Nat, NEW q \in Pieces,
         \A i \in DOMAIN fs : fs[i].n = i,
         Stream(w, fs, n), fs # << >>, q.frame = fs[Len(fs)],
         \/ q.part # "tail" /\ ~Halfway(w) /\ LastFrame(w, n) = Len(fs) - 1
         \/ q.part = "tail" /\ Halfway(w) /\ LastFrame(w, n) = Len(fs)
  PROVE  /\ Stream(Append(w, q), fs, n)
         /\ LastFrame(Append(w, q), n) = Len(fs)
         /\ Halfway(Append(w, q)) <=> q.part = "head"
<1> DEFINE v == Append(w, q)
<1>1. /\ v \in Seq(Pieces) /\ Len(v) = Len(w) + 1 /\ v[Len(v)] = q /\ v # << >>
      /\ \A k \in 1 .. Len(w) : v[k] = w[k]
  <2>1. v \in Seq(Pieces) /\ Len(v) = Len(w) + 1
    OBVIOUS
  <2>2. \A k \in 1 .. Len(w) + 1 : v[k] = IF k <= Len(w) THEN w[k] ELSE q
    OBVIOUS
  <2>3. Len(w) \in Nat /\ Len(<< >>) = 0
    OBVIOUS
  <2> HIDE DEF v
  <2> QED BY <2>1, <2>2, <2>3
<1>2. Len(w) \in Nat /\ Len(fs) \in Nat /\ Len(fs) > 0 /\ DOMAIN w = 1 .. Len(w)
      /\ DOMAIN fs = 1 .. Len(fs) /\ (w = << >> <=> Len(w) = 0)
  OBVIOUS
<1> HIDE DEF v
<1>3. q.frame.n = Len(fs)
  BY <1>2
<1>4. DOMAIN v = 1 .. Len(w) + 1 /\ v[Len(w) + 1] = q
  BY <1>1
<1>5. \A k \in DOMAIN v : v[k].frame.n \in DOMAIN fs /\ v[k].frame = fs[v[k].frame.n]
  BY <1>1, <1>2, <1>3, <1>4 DEF Stream
<1>6. v[1].part # "tail" /\ v[1].frame.n = n
  <2>1. CASE w = << >>
    BY <1>1, <1>2, <1>3, <1>4, <2>1 DEF Halfway, LastFrame
  <2>2. CASE w # << >>
    BY <1>1, <1>2, <2>2 DEF Stream
  <2> QED BY <2>1, <2>2
<1>7. ASSUME NEW k \in 1 .. Len(v) - 1 PROVE Follows(v[k], v[k + 1])
  <2>0. k \in 1 .. Len(w)
    BY <1>1, <1>2, <1>7
  <2>1. CASE k < Len(w)
    <3>1. v[k] = w[k] /\ v[k + 1] = w[k + 1] /\ k \in 1 .. Len(w) - 1
      BY <1>1, <1>2, <2>0, <2>1
    <3> QED BY <3>1 DEF Stream
  <2>2. CASE k = Len(w)
    <3>1. v[k] = w[Len(w)] /\ v[k + 1] = q /\ w # << >>
      BY <1>1, <1>2, <1>4, <2>0, <2>2
    <3>2. w[Len(w)].frame = fs[w[Len(w)].frame.n]
      BY <1>2, <3>1 DEF Stream
    <3> QED BY <1>3, <3>1, <3>2, <1>2 DEF Halfway, LastFrame, Follows
  <2>3. ASSUME NEW l \in Nat, k \in 1 .. l PROVE k < l \/ k = l
    BY <2>3
  <2>4. Len(w) \in Nat
    BY <1>2
  <2> QED BY <2>0, <2>1, <2>2, <2>3, <2>4
<1>8. Stream(v, fs, n)
  BY <1>5, <1>6, <1>7 DEF Stream
<1>9. LastFrame(v, n) = Len(fs) /\ (Halfway(v) <=> q.part = "head")
  BY <1>1, <1>3 DEF LastFrame, Halfway
<1> QED BY <1>8, <1>9 DEF v

\* A frame that is begun changes nothing of those before it.
LEMMA StreamExtend ==
  ASSUME NEW w \in Seq(Pieces), NEW fs \in Seq(SomeFrames), NEW n \in Nat, NEW f \in SomeFrames,
         Stream(w, fs, n)
  PROVE  Stream(w, Append(fs, f), n)
BY DEF Stream

\* What a reader leaves of the stream once it has the bytes of a frame.
LEMMA StreamDrop ==
  ASSUME NEW w \in Seq(Pieces), NEW fs \in Seq(SomeFrames), NEW n \in Nat, Stream(w, fs, n),
         NEW v \in Seq(Pieces), NEW k \in {1, 2}, Len(w) >= k, Len(v) = Len(w) - k,
         \A i \in 1 .. Len(v) : v[i] = w[i + k],
         \/ k = 1 /\ w[1].part = "whole"
         \/ k = 2 /\ w[1].part = "head"
  PROVE  /\ Stream(v, fs, n + 1)
         /\ LastFrame(v, n + 1) = LastFrame(w, n)
         /\ Halfway(v) <=> Halfway(w)
<1>1. /\ Len(w) \in Nat /\ Len(v) \in Nat /\ DOMAIN w = 1 .. Len(w) /\ DOMAIN v = 1 .. Len(v)
      /\ (w = << >> <=> Len(w) = 0) /\ (v = << >> <=> Len(v) = 0)
  OBVIOUS
<1>2. w[k].part # "head" /\ w[k].frame.n = n
  <2>1. CASE k = 1
    BY <1>1, <2>1 DEF Stream
  <2>2. CASE k = 2
    <3>1. Follows(w[1], w[1 + 1]) /\ w[1].frame.n = n
      BY <1>1, <2>2 DEF Stream
    <3> QED BY <2>2, <3>1 DEF Follows
  <2> QED BY <2>1, <2>2
<1>3. \A i \in DOMAIN v : v[i].frame.n \in DOMAIN fs /\ v[i].frame = fs[v[i].frame.n]
  <2>1. ASSUME NEW i \in DOMAIN v PROVE v[i] = w[i + k] /\ i + k \in DOMAIN w
    <3>1. i \in 1 .. Len(v)
      BY <1>1
    <3>2. i + k \in 1 .. Len(w)
      BY <1>1, <3>1
    <3> QED BY <1>1, <3>1, <3>2
  <2> QED BY <2>1 DEF Stream
<1>4. ASSUME v # << >> PROVE v[1].part # "tail" /\ v[1].frame.n = n + 1
  <2>1. Follows(w[k], w[k + 1]) /\ v[1] = w[k + 1]
    BY <1>1, <1>4 DEF Stream
  <2> QED BY <1>2, <2>1 DEF Follows
<1>5. ASSUME NEW i \in 1 .. Len(v) - 1 PROVE Follows(v[i], v[i + 1])
  <2>1. v[i] = w[i + k] /\ v[i + 1] = w[i + k + 1] /\ i + k \in 1 .. Len(w) - 1
    <3>1. i \in 1 .. Len(v) /\ i + 1 \in 1 .. Len(v) /\ (i + 1) + k = i + k + 1
      BY <1>1
    <3>2. i + k \in 1 .. Len(w) - 1
      BY <1>1, <3>1
    <3>3. v[i] = w[i + k] /\ v[i + 1] = w[(i + 1) + k]
      BY <3>1
    <3> QED BY <3>1, <3>2, <3>3
  <2> QED BY <2>1 DEF Stream
<1>6. CASE v = << >>
  BY <1>1, <1>2, <1>3, <1>4, <1>5, <1>6 DEF Stream, LastFrame, Halfway
<1>7. CASE v # << >>
  <2>1. v[Len(v)] = w[Len(w)] /\ w # << >>
    BY <1>1, <1>7
  <2> QED BY <1>3, <1>4, <1>5, <1>7, <2>1 DEF Stream, LastFrame, Halfway
<1> QED BY <1>6, <1>7

-----------------------------------------------------------------------------
(* The steps.                                                               *)

WireInv ==
  IInv /\ WireTypes /\ WriterInv /\ ReaderInv /\ StreamInv /\ EdgesInv /\ CloseInv

\* The two ends of a direction.
LEMMA DirectionFacts ==
  /\ Dialler \in Writers /\ Senders \subseteq Writers /\ Pumps \subseteq Writers
  /\ Dialler \notin Senders /\ Dialler \notin Pumps /\ Pumps \cap Senders = {}
  /\ Pumps = {ServerPump, ClientPump} /\ ServerPump # ClientPump
  /\ \A w \in Writers : /\ Direction(w) \in Directions
                        /\ Direction(w) = "down" <=> w = ServerPump
                        /\ Direction(w) = "up" <=> w \in Senders \cup {Dialler, ClientPump}
  /\ \A d \in Directions : d = "up" \/ d = "down"
BY TcpFramesAssumption DEF Writers, Pumps, Direction, Directions

LEMMA PassedType ==
  ASSUME WireTypes, NEW d \in Directions
  PROVE  /\ Passed(d) \in Nat /\ Len(taken[d]) \in Nat
         /\ Passed(d) = Len(taken[d]) \/ Passed(d) = Len(taken[d]) + 1
BY DEF WireTypes, Passed

\* A sender that writes has writeMutex and a connection of its kind, the pump of
\* Dial one of the other kind, and the dialler none yet.
LEMMA WritersExclude ==
  ASSUME IInv, WriterInv
  PROVE  OneWriter
<1> SUFFICES ASSUME NEW v \in Writers, NEW w \in Writers, Direction(v) = Direction(w),
                    writing[v] # << >>, writing[w] # << >>
             PROVE  v = w
  BY DEF OneWriter
<1>1. CASE Direction(v) = "down"
  BY <1>1, DirectionFacts
<1>2. CASE Direction(v) = "up"
  <2>1. {v, w} \subseteq Senders \cup {Dialler, ClientPump}
    BY <1>2, DirectionFacts
  <2>2. \A u \in {v, w} :
          /\ u \in Senders => u \in writeMutex /\ connected /\ client = "reconnecting"
          /\ u = ClientPump => connected /\ client = "dial"
          /\ u = Dialler => ~connected
    BY DirectionFacts DEF IInv, TypeOK, WriterInv
  <2> QED BY <2>1, <2>2 DEF IInv, TypeOK
<1> QED BY <1>1, <1>2, DirectionFacts

\* A frame that is begun when nobody is writing in its direction.
LEMMA BeginStream ==
  ASSUME WireInv, NEW w \in Writers, NEW size \in Sizes, Begin(w, size),
         \A v \in Writers : Direction(v) = Direction(w) => writing[v] = << >>,
         UNCHANGED <<config, conn, pump, wire, first, reading, taken>>
  PROVE  WireTypes' /\ ReaderInv' /\ StreamInv' /\ EdgesInv' /\ CloseInv'
<1> DEFINE d == Direction(w)
           f == Frame(Len(sent[d]) + 1, size)
           next == Passed(d) + 1
<1> USE DEF WireInv
<1>1. d \in Directions /\ \A e \in Directions : Passed(e) \in Nat
  BY DirectionFacts, PassedType
<1>2. sent \in [Directions -> Seq(SomeFrames)] /\ writing \in [Writers -> Unwritten]
      /\ wire \in [Directions -> Seq(Pieces)]
  BY DEF IInv, WireTypes
<1>3. f \in SomeFrames /\ f.n = Len(sent[d]) + 1 /\ f.size = size
  BY <1>1, <1>2, TcpFramesAssumption DEF Frame, SomeFrames
<1>4. /\ sent' = [sent EXCEPT ![d] = Append(@, f)]
      /\ writing' = [writing EXCEPT ![w] = <<Piece(f, "whole")>>]
  BY DEF Begin
<1>5. \A e \in Directions : Passed(e)' = Passed(e)
  BY DEF Passed, config
<1> HIDE DEF f, d
<1>6. /\ sent'[d] = Append(sent[d], f) /\ Len(sent'[d]) = Len(sent[d]) + 1
      /\ sent'[d][Len(sent[d]) + 1] = f /\ Len(sent[d]) \in Nat
      /\ \A i \in DOMAIN sent[d] : i \in DOMAIN sent'[d] /\ sent'[d][i] = sent[d][i]
      /\ \A e \in Directions \ {d} : sent'[e] = sent[e]
  BY <1>1, <1>2, <1>3, <1>4
<1>7. StreamInv'
  <2>1. ASSUME NEW e \in Directions PROVE Stream(wire[e], sent'[e], Passed(e) + 1)
    <3>1. /\ Stream(wire[e], sent[e], Passed(e) + 1) /\ Passed(e) + 1 \in Nat
          /\ wire[e] \in Seq(Pieces) /\ sent[e] \in Seq(SomeFrames)
      BY <1>1, <1>2 DEF StreamInv
    <3>2. Stream(wire[e], Append(sent[e], f), Passed(e) + 1)
      BY <1>3, <3>1, StreamExtend
    <3> QED BY <1>6, <3>1, <3>2
  <2>2. \A e \in Directions : Passed(e)' + 1 = Passed(e) + 1
    BY <1>5
  <2> QED BY <2>1, <2>2 DEF StreamInv
<1>8. ReaderInv'
  <2>1. ASSUME NEW e \in Directions, NEW i \in DOMAIN sent'[e] PROVE sent'[e][i].n = i
    <3>1. CASE e # d
      BY <1>6, <2>1, <3>1 DEF ReaderInv
    <3>2. CASE e = d
      <4>1. i \in DOMAIN sent[d] \/ i = Len(sent[d]) + 1
        BY <1>1, <1>2, <1>3, <1>6, <2>1, <3>2
      <4> QED BY <1>1, <1>3, <1>6, <3>2, <4>1 DEF ReaderInv
    <3> QED BY <3>1, <3>2
  <2>2. ASSUME NEW e \in Directions PROVE Passed(e)' <= Len(sent'[e])
    <3>1. Len(sent[e]) \in Nat /\ Len(sent[e]) <= Len(sent'[e]) /\ Len(sent'[e]) \in Nat
      <4>1. Len(sent[e]) \in Nat
        BY <1>2
      <4> QED BY <1>6, <4>1
    <3>2. Passed(e) <= Len(sent[e])
      BY DEF ReaderInv
    <3> QED BY <1>1, <1>5, <3>1, <3>2
  <2>3. ASSUME NEW e \in Directions, NEW i \in DOMAIN taken[e]
        PROVE  taken[e][i] = sent'[e][Passed(e) - Len(taken[e]) + i]
    <3>1. Passed(e) - Len(taken[e]) + i \in DOMAIN sent[e]
      <4>1. i \in 1 .. Len(taken[e]) /\ Passed(e) <= Len(sent[e]) /\ Len(sent[e]) \in Nat
        BY <1>2 DEF WireTypes, ReaderInv
      <4>2. Passed(e) - Len(taken[e]) + i \in 1 .. Len(sent[e])
        BY <1>1, <4>1, PassedType
      <4> QED BY <1>2, <4>2
    <3>2. sent'[e][Passed(e) - Len(taken[e]) + i] = sent[e][Passed(e) - Len(taken[e]) + i]
      BY <1>6, <3>1
    <3> QED BY <3>2 DEF ReaderInv
  <2> QED BY <1>5, <2>1, <2>2, <2>3 DEF ReaderInv
<1>9. CloseInv'
  <2>1. \A e \in Directions : \A i \in DOMAIN sent[e] :
          i \in DOMAIN sent'[e] /\ sent'[e][i] = sent[e][i]
    BY <1>6
  <2> QED BY <2>1 DEF CloseInv
<1>10. ASSUME NEW e \in Directions PROVE EdgeInv(e)'
  <2>1. (Over(e) <=> Over(e)') /\ (EdgeInv(e) \/ Over(e)) /\ EdgeInv(e)
    BY DEF Over, EdgesInv
  <2>2. CASE Over(e)
    BY <2>1, <2>2 DEF EdgeInv
  <2>3. CASE ~Over(e) /\ e # d
    <3>1. \A v \in Writers : Direction(v) = e => writing'[v] = writing[v]
      BY <1>2, <1>4, <2>3 DEF d
    <3> QED BY <1>5, <1>6, <2>1, <2>3, <3>1 DEF EdgeInv
  <2>4. CASE ~Over(e) /\ e = d
    <3>1. ~Halfway(wire[d]) /\ LastFrame(wire[d], next) = Len(sent[d])
      BY <2>1, <2>4 DEF EdgeInv, d
    <3>2. writing'[w] = <<Piece(f, "whole")>> /\ writing'[w][1] = Piece(f, "whole")
      BY <1>2, <1>4
    <3>3. \A v \in Writers : Direction(v) = d /\ writing'[v] # << >> => v = w
      BY <1>2, <1>4 DEF d
    <3>4. Fits(Piece(f, "whole"), wire[d], sent'[d], next)
      BY <1>6, <3>1 DEF Fits, Piece
    <3>5. writing'[w] # << >> /\ Direction(w) = d
      BY <3>2 DEF d
    <3> QED BY <1>1, <1>5, <2>4, <3>2, <3>3, <3>4, <3>5 DEF EdgeInv
  <2> QED BY <2>2, <2>3, <2>4
<1> QED BY <1>7, <1>8, <1>9, <1>10 DEF EdgesInv, WireTypes

\* A piece that is written.
LEMMA WriteStream ==
  ASSUME WireInv, NEW w \in Writers, Write(w)
  PROVE  WireTypes' /\ ReaderInv' /\ StreamInv' /\ EdgesInv' /\ CloseInv'
<1> DEFINE d == Direction(w)
           next == Passed(d) + 1
<1> USE DEF WireInv
<1>1. d \in Directions /\ Passed(d) \in Nat /\ next \in Nat
  BY DirectionFacts, PassedType
<1>2. /\ sent[d] \in Seq(SomeFrames) /\ writing \in [Writers -> Unwritten]
      /\ wire \in [Directions -> Seq(Pieces)] /\ wire[d] \in Seq(Pieces)
      /\ \A i \in DOMAIN sent[d] : sent[d][i].n = i
  BY <1>1 DEF IInv, WireTypes, ReaderInv
<1>3. UNCHANGED <<config, conn, pump, first, reading, sent, taken>>
  BY DEF Write
<1>4. \A e \in Directions : Passed(e)' = Passed(e) /\ (Over(e)' <=> Over(e))
  BY <1>3 DEF Passed, Over, config
<1>5. ~Over(d)
  <2>1. writing[w] # << >> /\ conn = "open"
    BY DEF Write
  <2>2. CASE w \in Pumps
    <3>1. pump[w] = "running" /\ \A p \in Pumps : Direction(p) = d => p = w
      BY <2>1, <2>2, DirectionFacts DEF WriterInv
    <3> QED BY <2>1, <3>1 DEF Over
  <2>3. CASE w \in Senders \cup {Dialler}
    <3>1. d = "up" /\ pump[ClientPump] = "none"
      BY <2>1, <2>3, DirectionFacts DEF IInv, TypeOK, WriterInv
    <3>2. \A p \in Pumps : Direction(p) = "up" => p = ClientPump
      BY DirectionFacts
    <3> QED BY <2>1, <3>1, <3>2 DEF Over
  <2> QED BY <2>2, <2>3, DirectionFacts DEF Writers
<1> HIDE DEF d, next
<1>6. PICK p \in Pieces : writing[w] = <<p>> /\ writing[w][1] = p /\ Head(writing[w]) = p
  BY <1>2 DEF Write, Unwritten
<1>7. Fits(p, wire[d], sent[d], next) /\ Stream(wire[d], sent[d], next)
  BY <1>1, <1>5, <1>6 DEF EdgesInv, EdgeInv, StreamInv, d, next, Write
<1>8. \A v \in Writers : Direction(v) = d /\ v # w => writing[v] = << >>
  BY <1>6, WritersExclude DEF d, Write, OneWriter
<1>9. PICK q \in Pieces, rest \in Unwritten :
        /\ q.frame = p.frame /\ (q.part = "tail" <=> p.part = "tail")
        /\ wire' = [wire EXCEPT ![d] = Append(@, q)]
        /\ writing' = [writing EXCEPT ![w] = rest]
        /\ \/ q.part # "head" /\ rest = << >>
           \/ q.part = "head" /\ rest = <<Piece(p.frame, "tail")>>
  <2>1. CASE /\ wire' = [wire EXCEPT ![d] = Append(@, p)]
             /\ writing' = [writing EXCEPT ![w] = << >>]
    <3>1. p.part # "head"
      BY <1>7 DEF Fits
    <3> QED BY <2>1, <3>1, UnwrittenFacts
  <2>2. CASE /\ p.part = "whole"
             /\ wire' = [wire EXCEPT ![d] = Append(@, Piece(p.frame, "head"))]
             /\ writing' = [writing EXCEPT ![w] = <<Piece(p.frame, "tail")>>]
    <3>1. Piece(p.frame, "head") \in Pieces /\ <<Piece(p.frame, "tail")>> \in Unwritten
      BY UnwrittenFacts DEF Pieces, Piece
    <3>2. Piece(p.frame, "head").frame = p.frame /\ Piece(p.frame, "head").part = "head"
      BY DEF Piece
    <3> QED BY <2>2, <3>1, <3>2
  <2> QED BY <1>6, <2>1, <2>2 DEF Write, d
<1>10. /\ wire' \in [Directions -> Seq(Pieces)]
       /\ wire'[d] = Append(wire[d], q) /\ writing'[w] = rest
       /\ \A e \in Directions \ {d} : wire'[e] = wire[e]
       /\ \A v \in Writers \ {w} : writing'[v] = writing[v]
  BY <1>1, <1>2, <1>9
<1>11. /\ Stream(wire'[d], sent[d], next) /\ LastFrame(wire'[d], next) = Len(sent[d])
       /\ Halfway(wire'[d]) <=> q.part = "head"
  <2>1. /\ sent[d] # << >> /\ q.frame = sent[d][Len(sent[d])]
        /\ \/ q.part # "tail" /\ ~Halfway(wire[d]) /\ LastFrame(wire[d], next) = Len(sent[d]) - 1
           \/ q.part = "tail" /\ Halfway(wire[d]) /\ LastFrame(wire[d], next) = Len(sent[d])
    BY <1>7, <1>9 DEF Fits
  <2> DEFINE u == wire[d]  fs == sent[d]
  <2>2. /\ u \in Seq(Pieces) /\ fs \in Seq(SomeFrames) /\ Stream(u, fs, next)
        /\ \A i \in DOMAIN fs : fs[i].n = i
    BY <1>2, <1>7
  <2>3. /\ fs # << >> /\ q.frame = fs[Len(fs)]
        /\ \/ q.part # "tail" /\ ~Halfway(u) /\ LastFrame(u, next) = Len(fs) - 1
           \/ q.part = "tail" /\ Halfway(u) /\ LastFrame(u, next) = Len(fs)
    BY <2>1
  <2> HIDE DEF u, fs
  <2>4. /\ Stream(Append(u, q), fs, next) /\ LastFrame(Append(u, q), next) = Len(fs)
        /\ Halfway(Append(u, q)) <=> q.part = "head"
    BY <1>1, <2>2, <2>3, StreamAppend
  <2> QED BY <1>10, <2>4 DEF u, fs
<1>12. StreamInv'
  BY <1>3, <1>4, <1>10, <1>11 DEF StreamInv, next
<1>13. ASSUME NEW e \in Directions PROVE EdgeInv(e)'
  <2>1. CASE e # d
    <3>1. \A v \in Writers : Direction(v) = e => writing'[v] = writing[v]
      BY <1>10, <2>1 DEF d
    <3>2. EdgeInv(e)
      BY DEF EdgesInv
    <3> QED BY <1>3, <1>4, <1>10, <2>1, <3>1, <3>2 DEF EdgeInv
  <2>2. CASE e = d
    <3>1. \A v \in Writers : Direction(v) = d /\ writing'[v] # << >> => v = w
      BY <1>8, <1>10
    <3>2. CASE q.part # "head" /\ rest = << >>
      <4>1. \A v \in Writers : Direction(v) = d => writing'[v] = << >>
        BY <1>8, <1>10, <3>2
      <4> QED BY <1>3, <1>4, <1>11, <2>2, <3>2, <4>1 DEF EdgeInv, next
    <3>3. CASE q.part = "head" /\ rest = <<Piece(p.frame, "tail")>>
      <4>1. writing'[w][1] = Piece(p.frame, "tail") /\ writing'[w] # << >>
        BY <1>10, <3>3
      <4>2. Fits(Piece(p.frame, "tail"), wire'[d], sent[d], next)
        BY <1>7, <1>11, <3>3 DEF Fits, Piece
      <4>3. Direction(w) = d
        BY DEF d
      <4> QED BY <1>3, <1>4, <2>2, <3>1, <4>1, <4>2, <4>3 DEF EdgeInv, next
    <3> QED BY <1>9, <3>2, <3>3
  <2> QED BY <2>1, <2>2
<1>14. ReaderInv' /\ CloseInv'
  BY <1>3, <1>4 DEF ReaderInv, CloseInv
<1> QED BY <1>3, <1>10, <1>12, <1>13, <1>14 DEF EdgesInv, WireTypes

\* A reader passes on the frame that comes next, and no other.
LEMMA ReadStream ==
  ASSUME WireInv, NEW d \in Directions, Complete(d), wire' = WireAfter(d)
  PROVE  /\ FrameRead(d) \in SomeFrames /\ Passed(d) + 1 \in DOMAIN sent[d]
         /\ FrameRead(d) = sent[d][Passed(d) + 1]
         /\ wire' \in [Directions -> Seq(Pieces)]
         /\ \A e \in Directions \ {d} : wire'[e] = wire[e]
         /\ Stream(wire'[d], sent[d], Passed(d) + 2)
         /\ LastFrame(wire'[d], Passed(d) + 2) = LastFrame(wire[d], Passed(d) + 1)
         /\ Halfway(wire'[d]) <=> Halfway(wire[d])
<1> DEFINE w == wire[d]  fs == sent[d]
           next == Passed(d) + 1
<1> USE DEF WireInv
<1>1. /\ wire \in [Directions -> Seq(Pieces)] /\ w \in Seq(Pieces) /\ fs \in Seq(SomeFrames)
      /\ next \in Nat /\ Passed(d) \in Nat
  BY PassedType DEF IInv, WireTypes
<1>2. Stream(w, fs, next) /\ w # << >> /\ (w[1].part = "head" => Len(w) > 1)
  BY DEF StreamInv, Complete
<1> HIDE DEF w, fs, next
<1>3. Len(w) \in Nat /\ Len(w) >= 1 /\ DOMAIN w = 1 .. Len(w) /\ w[1] \in Pieces
  BY <1>1, <1>2
<1>4. /\ w[1].part \in {"whole", "head"} /\ w[1].frame.n = next
      /\ next \in DOMAIN fs /\ w[1].frame = fs[next] /\ w[1].frame \in SomeFrames
  <2>1. w[1].part # "tail" /\ w[1].frame.n = next
    BY <1>2 DEF Stream
  <2>2. w[1].frame.n \in DOMAIN fs /\ w[1].frame = fs[w[1].frame.n]
    BY <1>2, <1>3 DEF Stream
  <2>3. w[1].part \in {"whole", "head", "tail"} /\ w[1].frame \in SomeFrames
    BY <1>3 DEF Pieces
  <2> QED BY <2>1, <2>2, <2>3
<1>5. FrameRead(d) = w[1].frame
  <2>1. CASE w[1].part = "whole"
    BY <2>1 DEF FrameRead, w
  <2>2. CASE w[1].part = "head"
    <3>0. Len(w) > 1 /\ 1 \in 1 .. Len(w) - 1 /\ 2 \in 1 .. Len(w)
      BY <1>2, <1>3, <2>2
    <3>a. \A i \in 1 .. Len(w) - 1 : Follows(w[i], w[i + 1])
      BY <1>2 DEF Stream
    <3>b. w[2] \in Pieces
      BY <1>1, <3>0
    <3>1. w[2] \in Pieces /\ Follows(w[1], w[1 + 1])
      BY <3>0, <3>a, <3>b
    <3>2. w[2].part = "tail" /\ w[2].frame = w[1].frame
      BY <2>2, <3>1 DEF Follows
    <3>3. w[2] = Piece(w[1].frame, "tail")
      BY <3>1, <3>2 DEF Pieces, Piece
    <3> QED BY <2>2, <3>3 DEF FrameRead, w
  <2> QED BY <1>4, <2>1, <2>2
<1>6. PICK v \in Seq(Pieces), k \in {1, 2} :
        /\ wire' = [wire EXCEPT ![d] = v]
        /\ Len(w) >= k /\ Len(v) = Len(w) - k /\ \A i \in 1 .. Len(v) : v[i] = w[i + k]
        /\ \/ k = 1 /\ w[1].part = "whole"
           \/ k = 2 /\ w[1].part = "head"
  <2>1. /\ Tail(w) \in Seq(Pieces) /\ Len(Tail(w)) = Len(w) - 1
        /\ \A i \in 1 .. Len(w) - 1 : Tail(w)[i] = w[i + 1]
    BY <1>1, <1>2, HeadTailProperties
  <2>2. CASE w[1].part = "whole"
    <3>1. wire' = [wire EXCEPT ![d] = Tail(w)]
      BY <2>2 DEF WireAfter, w
    <3> QED BY <1>3, <2>1, <2>2, <3>1
  <2>3. CASE w[1].part = "head"
    <3> DEFINE t == Tail(w)  v == Tail(t)
    <3>1. wire' = [wire EXCEPT ![d] = v]
      BY <2>3 DEF WireAfter, w
    <3>2. t \in Seq(Pieces) /\ Len(t) = Len(w) - 1 /\ \A i \in 1 .. Len(w) - 1 : t[i] = w[i + 1]
      BY <2>1
    <3>3. Len(w) > 1
      BY <1>2, <2>3
    <3>4. v \in Seq(Pieces) /\ Len(v) = Len(t) - 1 /\ \A i \in 1 .. Len(t) - 1 : v[i] = t[i + 1]
      <4> HIDE DEF t
      <4>1. t # << >>
        <5>1. Len(t) > 0
          BY <1>3, <3>2, <3>3
        <5> QED BY <5>1
      <4> QED BY <3>2, <4>1, HeadTailProperties
    <3> HIDE DEF t, v
    <3>5. Len(w) >= 2 /\ Len(v) = Len(w) - 2
      BY <1>3, <3>2, <3>3, <3>4
    <3>6. \A i \in 1 .. Len(v) : v[i] = w[i + 2]
      <4>1. ASSUME NEW i \in 1 .. Len(v) PROVE v[i] = w[i + 2]
        <5>1. i \in 1 .. Len(t) - 1 /\ i + 1 \in 1 .. Len(w) - 1 /\ i + 1 + 1 = i + 2
          BY <1>3, <3>2, <3>5
        <5> QED BY <3>2, <3>4, <5>1
      <4> QED BY <4>1
    <3> QED BY <2>3, <3>1, <3>4, <3>5, <3>6
  <2> QED BY <1>4, <2>2, <2>3
<1>7. wire' \in [Directions -> Seq(Pieces)] /\ wire'[d] = v
      /\ \A e \in Directions \ {d} : wire'[e] = wire[e]
  BY <1>1, <1>6
<1>8. /\ Stream(v, fs, next + 1) /\ LastFrame(v, next + 1) = LastFrame(w, next)
      /\ Halfway(v) <=> Halfway(w)
  <2>1. /\ w \in Seq(Pieces) /\ fs \in Seq(SomeFrames) /\ next \in Nat /\ Stream(w, fs, next)
        /\ v \in Seq(Pieces) /\ k \in {1, 2} /\ Len(w) >= k /\ Len(v) = Len(w) - k
        /\ \A i \in 1 .. Len(v) : v[i] = w[i + k]
    BY <1>1, <1>2, <1>6
  <2>2. \/ k = 1 /\ w[1].part = "whole"
        \/ k = 2 /\ w[1].part = "head"
    BY <1>6
  <2> QED BY <2>1, <2>2, StreamDrop
<1>9. next + 1 = Passed(d) + 2 /\ next = Passed(d) + 1
  BY <1>1 DEF next
<1> QED BY <1>4, <1>5, <1>7, <1>8, <1>9 DEF w, fs, next

\* A frame that is taken, by the authenticator or for dispatch.
LEMMA TakeStream ==
  ASSUME WireInv, NEW d \in Directions, Complete(d), wire' = WireAfter(d),
         \/ taken' = [taken EXCEPT ![d] = Append(@, FrameRead(d))]
         \/ taken' = taken /\ taken[d] = << >>,
         Passed(d)' = Passed(d) + 1, \A e \in Directions \ {d} : Passed(e)' = Passed(e),
         \A e \in Directions : Over(e)' <=> Over(e),
         first' => d = "down" /\ first, UNCHANGED <<writing, sent>>
  PROVE  WireTypes' /\ ReaderInv' /\ StreamInv' /\ EdgesInv'
<1> USE DEF WireInv
<1>1. /\ FrameRead(d) \in SomeFrames /\ Passed(d) + 1 \in DOMAIN sent[d]
      /\ FrameRead(d) = sent[d][Passed(d) + 1]
      /\ wire' \in [Directions -> Seq(Pieces)]
      /\ \A e \in Directions \ {d} : wire'[e] = wire[e]
      /\ Stream(wire'[d], sent[d], Passed(d) + 2)
      /\ LastFrame(wire'[d], Passed(d) + 2) = LastFrame(wire[d], Passed(d) + 1)
      /\ Halfway(wire'[d]) <=> Halfway(wire[d])
  BY ReadStream
<1>2. /\ taken \in [Directions -> Seq(SomeFrames)] /\ sent \in [Directions -> Seq(SomeFrames)]
      /\ \A e \in Directions : Len(sent[e]) \in Nat /\ DOMAIN sent[e] = 1 .. Len(sent[e])
  BY DEF IInv, WireTypes
<1>3. /\ Passed(d) \in Nat /\ Passed(d)' + 1 = Passed(d) + 2 /\ Passed(d)' = Passed(d) + 1
      /\ \A e \in Directions \ {d} : Passed(e)' + 1 = Passed(e) + 1
  BY PassedType
<1>4. taken' \in [Directions -> Seq(SomeFrames)] /\ \A e \in Directions \ {d} : taken'[e] = taken[e]
  <2>1. CASE taken' = taken
    BY <1>2, <2>1
  <2>2. CASE taken' = [taken EXCEPT ![d] = Append(@, FrameRead(d))]
    <3>1. Append(taken[d], FrameRead(d)) \in Seq(SomeFrames)
      BY <1>1, <1>2, AppendProperties
    <3> QED BY <1>2, <2>2, <3>1
  <2> QED BY <2>1, <2>2
<1>5. StreamInv'
  BY <1>1, <1>3 DEF StreamInv
<1>6. ASSUME NEW e \in Directions PROVE EdgeInv(e)'
  <2>1. EdgeInv(e)
    BY DEF EdgesInv
  <2>2. CASE e # d
    BY <1>1, <1>3, <2>1, <2>2 DEF EdgeInv
  <2>3. CASE e = d
    <3> DEFINE w == wire'[d]  next == Passed(d) + 2
    <3>1. ASSUME ~Over(d), NEW v \in Writers, Direction(v) = d, writing[v] # << >>
          PROVE  Fits(writing[v][1], w, sent[d], next)
      <4>1. Fits(writing[v][1], wire[d], sent[d], Passed(d) + 1)
        BY <2>1, <2>3, <3>1 DEF EdgeInv
      <4> QED BY <1>1, <4>1 DEF Fits
    <3>2. ASSUME ~Over(d), \A v \in Writers : Direction(v) = d => writing[v] = << >>
          PROVE  ~Halfway(w) /\ LastFrame(w, next) = Len(sent[d])
      BY <1>1, <2>1, <2>3, <3>2 DEF EdgeInv
    <3>3. Passed(d)' + 1 = next
      BY <1>3
    <3> HIDE DEF w, next
    <3> QED BY <2>3, <3>1, <3>2, <3>3 DEF EdgeInv, w
  <2> QED BY <2>2, <2>3
<1>7. Passed(d)' <= Len(sent[d])
  BY <1>1, <1>2, <1>3
<1>8. \A i \in DOMAIN taken'[d] : taken'[d][i] = sent[d][Passed(d)' - Len(taken'[d]) + i]
  <2>1. CASE taken' = taken /\ taken[d] = << >>
    BY <1>2, <2>1
  <2>2. CASE taken' = [taken EXCEPT ![d] = Append(@, FrameRead(d))]
    <3> DEFINE t == taken[d]  u == taken'[d]  f == FrameRead(d)
    <3>1. t \in Seq(SomeFrames) /\ u = Append(t, f) /\ f = sent[d][Passed(d) + 1]
          /\ f \in SomeFrames
      BY <1>1, <1>2, <2>2
    <3>2. /\ \A i \in DOMAIN t : t[i] = sent[d][Passed(d) - Len(t) + i]
          /\ Len(t) \in Nat /\ DOMAIN t = 1 .. Len(t)
      BY <1>2 DEF ReaderInv
    <3> HIDE DEF t, u, f
    <3>3. Len(u) = Len(t) + 1 /\ DOMAIN u = 1 .. Len(t) + 1
          /\ u[Len(t) + 1] = f /\ \A i \in 1 .. Len(t) : u[i] = t[i]
      BY <3>1, <3>2
    <3>4. ASSUME NEW i \in 1 .. Len(t) + 1 PROVE u[i] = sent[d][Passed(d)' - Len(u) + i]
      <4>1. Passed(d)' - Len(u) + i = Passed(d) - Len(t) + i
        BY <1>3, <3>2, <3>3
      <4>2. CASE i \in 1 .. Len(t)
        BY <3>2, <3>3, <4>1, <4>2
      <4>3. CASE i = Len(t) + 1
        <5>1. Passed(d) - Len(t) + i = Passed(d) + 1
          BY <1>3, <3>2, <4>3
        <5> QED BY <3>1, <3>3, <4>1, <4>3, <5>1
      <4> QED BY <3>2, <4>2, <4>3
    <3> QED BY <3>3, <3>4 DEF u
  <2> QED BY <2>1, <2>2
<1>9. ReaderInv'
  <2>1. ASSUME NEW e \in Directions
        PROVE  /\ \A i \in DOMAIN sent[e] : sent[e][i].n = i
               /\ Passed(e)' <= Len(sent[e])
               /\ \A i \in DOMAIN taken'[e] :
                    taken'[e][i] = sent[e][Passed(e)' - Len(taken'[e]) + i]
    <3>1. CASE e = d
      BY <1>7, <1>8, <3>1 DEF ReaderInv
    <3>2. CASE e # d
      BY <1>4, <3>2 DEF ReaderInv
    <3> QED BY <3>1, <3>2
  <2>2. first' => taken'["up"] = << >>
    BY <1>4 DEF ReaderInv, Directions
  <2> QED BY <2>1, <2>2 DEF ReaderInv
<1> QED BY <1>1, <1>4, <1>5, <1>6, <1>9 DEF WireTypes, EdgesInv

\* A step that takes nothing from the wire and adds nothing.
LEMMA StillStream ==
  ASSUME WireInv, UNCHANGED <<config, wire, first, sent, taken>>,
         \A d \in Directions : Over(d) => Over(d)',
         \A w \in Writers : writing'[w] = writing[w] \/ Over(Direction(w))',
         (conn' = conn /\ reading' = reading) \/ CloseInv'
  PROVE  WireTypes' /\ ReaderInv' /\ StreamInv' /\ EdgesInv' /\ CloseInv'
<1> USE DEF WireInv
<1>1. \A d \in Directions : Passed(d)' = Passed(d)
  BY DEF Passed, config
<1>2. WireTypes' /\ ReaderInv' /\ StreamInv'
  BY <1>1 DEF WireTypes, ReaderInv, StreamInv
<1>3. ASSUME NEW d \in Directions PROVE EdgeInv(d)'
  <2>1. EdgeInv(d)
    BY DEF EdgesInv
  <2> QED BY <1>1, <2>1 DEF EdgeInv
<1>4. CloseInv'
  BY DEF CloseInv
<1> QED BY <1>2, <1>3, <1>4 DEF EdgesInv

LEMMA WriterStep ==
  ASSUME IInv, WriterInv, [Next]_vars
  PROVE  WriterInv'
<1> USE DirectionFacts DEF WriterInv, config
<1>0. /\ writing \in [Writers -> Unwritten] /\ pump \in [Pumps -> {"none", "running", "done"}]
      /\ client \in {"reconnecting", "dial"}
      /\ ServerPump \in Pumps /\ ClientPump \in Pumps
  BY DEF IInv, TypeOK
<1>1. ASSUME NEW size \in Sizes, Handshake(size) PROVE WriterInv'
  BY <1>0, <1>1 DEF Handshake, Begin
<1>2. ASSUME NEW size \in Sizes, NEW w \in Senders, Send(w, size) PROVE WriterInv'
  BY <1>0, <1>2 DEF Send, Begin
<1>3. ASSUME NEW p \in Pumps, PumpTakes(p) PROVE WriterInv'
  BY <1>0, <1>3 DEF PumpTakes, Begin
<1>4. ASSUME NEW w \in Writers, Write(w) PROVE WriterInv'
  <2>1. writeMutex' \subseteq writeMutex /\ UNCHANGED <<config, connected, pump, first>>
    BY <1>4 DEF Write
  <2>2. \A p \in Pumps : writing'[p] # << >> => writing[p] # << >>
    BY <1>0, <1>4 DEF Write
  <2> QED BY <2>1, <2>2
<1>5. ASSUME NEW w \in Writers, WriteFails(w) PROVE WriterInv'
  BY <1>0, <1>5 DEF WriteFails
<1>6. ASSUME NEW p \in Pumps, PumpFails(p) PROVE WriterInv'
  BY <1>0, <1>6 DEF PumpFails
<1>7. ASSUME NEW p \in Pumps, NEW size \in Sizes, SendToPeer(p, size) PROVE WriterInv'
  BY <1>7 DEF SendToPeer
<1>8. CASE Connect
  <2>1. writeMutex = {} /\ pump[ClientPump] = "none"
    BY <1>8 DEF Connect
  <2>2. pump'[ServerPump] = pump[ServerPump]
        /\ (client = "dial" \/ pump'[ClientPump] = "none") /\ pump'[ClientPump] # "done"
    BY <1>0, <1>8, <2>1 DEF Connect
  <2>3. writing[ClientPump] = << >>
    BY <1>0, <2>1
  <2>4. connected' /\ UNCHANGED <<config, writeMutex, writing, first>>
    BY <1>8 DEF Connect
  <2> QED BY <2>1, <2>2, <2>3, <2>4
<1>9. CASE ReadFirst
  BY <1>0, <1>9 DEF ReadFirst
<1>10. CASE HandshakeFails \/ Disconnect
  BY <1>10 DEF HandshakeFails, ReaderOver, Disconnect
<1>11. ASSUME NEW d \in Directions, Read(d) \/ TooLarge(d) \/ ReadFails(d) PROVE WriterInv'
  BY <1>11 DEF Read, TooLarge, ReadFails, ReaderOver
<1>12. CASE UNCHANGED vars
  BY <1>12 DEF vars
<1> QED
  BY <1>1, <1>2, <1>3, <1>4, <1>5, <1>6, <1>7, <1>8, <1>9, <1>10, <1>11, <1>12 DEF Next

\* Why a reader that gives up may close the connection.
LEMMA ReaderOverCloses ==
  ASSUME WireInv, NEW d \in Directions, ReaderOver(d),
         \/ conn # "open"
         \/ d = "up" /\ first
         \/ \E e \in Directions : \E i \in DOMAIN sent[e] : sent[e][i].size > MaxFrameSize
  PROVE  CloseInv'
BY DEF WireInv, CloseInv, ReaderOver

LEMMA WireStep == WireInv /\ [Next]_vars => WireInv'
<1> SUFFICES ASSUME WireInv, [Next]_vars
             PROVE  WireTypes' /\ ReaderInv' /\ StreamInv' /\ EdgesInv' /\ CloseInv'
  BY NextType, WriterStep DEF WireInv
<1> USE DirectionFacts
<1>0. /\ WireInv /\ WriterInv /\ ReaderInv /\ EdgesInv /\ CloseInv /\ TypeOK
      /\ writing \in [Writers -> Unwritten]
      /\ \A d \in Directions : /\ sent[d] \in Seq(SomeFrames)
                               /\ wire[d] \in Seq(Pieces) /\ taken[d] \in Seq(SomeFrames)
  BY DEF WireInv, WireTypes, IInv
<1>1. ASSUME NEW size \in Sizes, Handshake(size)
      PROVE  WireTypes' /\ ReaderInv' /\ StreamInv' /\ EdgesInv' /\ CloseInv'
  <2>1. EdgeInv("up") /\ ~Over("up") /\ sent["up"] = << >>
    <3>1. pump[ClientPump] = "none" /\ conn = "open" /\ sent["up"] = << >>
      BY <1>0, <1>1 DEF Handshake, WriterInv
    <3>2. \A p \in Pumps : Direction(p) = "up" => p = ClientPump
      OBVIOUS
    <3>3. EdgeInv("up")
      BY <1>0 DEF EdgesInv, Directions
    <3> QED BY <3>1, <3>2, <3>3 DEF Over
  <2>2. \A v \in Writers : Direction(v) = "up" => writing[v] = << >>
    BY <2>1 DEF EdgeInv, Fits
  <2>3. Direction(Dialler) = "up"
    OBVIOUS
  <2> QED BY <1>1, <2>2, <2>3, BeginStream DEF Handshake
<1>2. ASSUME NEW size \in Sizes, NEW w \in Senders, Send(w, size)
      PROVE  WireTypes' /\ ReaderInv' /\ StreamInv' /\ EdgesInv' /\ CloseInv'
  <2>1. \A v \in Writers : Direction(v) = "up" => writing[v] = << >>
    <3>1. pump[ClientPump] = "none"
      BY <1>0, <1>2 DEF Send, WriterInv
    <3>2. writing[ClientPump] = << >>
      BY <1>0, <3>1 DEF WriterInv
    <3> QED BY <1>0, <1>2, <3>2 DEF Send, TypeOK
  <2>2. Direction(w) = "up" /\ w \in Writers
    OBVIOUS
  <2> QED BY <1>2, <2>1, <2>2, BeginStream DEF Send
<1>3. ASSUME NEW p \in Pumps, PumpTakes(p)
      PROVE  WireTypes' /\ ReaderInv' /\ StreamInv' /\ EdgesInv' /\ CloseInv'
  <2>1. \A v \in Writers : Direction(v) = Direction(p) => writing[v] = << >>
    <3>1. CASE p = ServerPump
      BY <1>3, <3>1 DEF PumpTakes
    <3>2. CASE p = ClientPump
      <4>1. connected /\ client = "dial" /\ writeMutex = {} /\ writing[p] = << >>
        BY <1>0, <1>3, <3>2 DEF PumpTakes, WriterInv
      <4> QED BY <1>0, <3>2, <4>1 DEF TypeOK
    <3> QED BY <3>1, <3>2
  <2>2. Head(queue[p]) \in Sizes
    BY <1>0, <1>3 DEF PumpTakes, TypeOK
  <2>3. p \in Writers
    OBVIOUS
  <2> QED BY <1>3, <2>1, <2>2, <2>3, BeginStream DEF PumpTakes
<1>4. ASSUME NEW w \in Writers, Write(w)
      PROVE  WireTypes' /\ ReaderInv' /\ StreamInv' /\ EdgesInv' /\ CloseInv'
  BY <1>4, WriteStream
<1>5. ASSUME NEW w \in Writers, WriteFails(w)
      PROVE  WireTypes' /\ ReaderInv' /\ StreamInv' /\ EdgesInv' /\ CloseInv'
  <2>1. Over("up")' /\ Direction(w) = "up" /\ \A d \in Directions : Over(d) => Over(d)'
    BY <1>5 DEF WriteFails, Over
  <2>2. \A v \in Writers : writing'[v] = writing[v] \/ v = w
    BY <1>0, <1>5 DEF WriteFails
  <2>3. UNCHANGED <<config, wire, first, sent, taken, conn, reading>>
    BY <1>5 DEF WriteFails
  <2> QED BY <2>1, <2>2, <2>3, StillStream
<1>6. ASSUME NEW p \in Pumps, PumpFails(p)
      PROVE  WireTypes' /\ ReaderInv' /\ StreamInv' /\ EdgesInv' /\ CloseInv'
  <2>1. Over(Direction(p))' /\ \A d \in Directions : Over(d) => Over(d)'
    <3>1. pump'[p] = "done" /\ conn' = conn /\ \A q \in Pumps : pump[q] = "done" => pump'[q] = "done"
      BY <1>0, <1>6 DEF PumpFails, TypeOK
    <3> QED BY <3>1 DEF Over
  <2>2. \A v \in Writers : writing'[v] = writing[v] \/ v = p
    BY <1>0, <1>6 DEF PumpFails
  <2>3. UNCHANGED <<config, wire, first, sent, taken, conn, reading>>
    BY <1>6 DEF PumpFails
  <2> QED BY <2>1, <2>2, <2>3, StillStream
<1>7. ASSUME NEW d \in Directions, ReaderOver(d), CloseInv'
      PROVE  WireTypes' /\ ReaderInv' /\ StreamInv' /\ EdgesInv' /\ CloseInv'
  <2>1. \A e \in Directions : Over(e) => Over(e)'
    BY <1>7 DEF ReaderOver, Over
  <2> QED BY <1>7, <2>1, StillStream DEF ReaderOver
<1>8. ASSUME NEW d \in Directions, TooLarge(d)
      PROVE  WireTypes' /\ ReaderInv' /\ StreamInv' /\ EdgesInv' /\ CloseInv'
  <2>1. wire[d][1].frame.n \in DOMAIN sent[d] /\ wire[d][1].frame = sent[d][wire[d][1].frame.n]
    BY <1>0, <1>8 DEF TooLarge, WireInv, StreamInv, Stream
  <2>2. \/ d = "up" /\ first
        \/ \E i \in DOMAIN sent[d] : sent[d][i].size > MaxFrameSize
    BY <1>8, <2>1 DEF TooLarge, Limit
  <2> QED BY <1>7, <1>8, <2>2, ReaderOverCloses DEF TooLarge
<1>9. ASSUME NEW d \in Directions, ReadFails(d)
      PROVE  WireTypes' /\ ReaderInv' /\ StreamInv' /\ EdgesInv' /\ CloseInv'
  BY <1>7, <1>9, ReaderOverCloses DEF ReadFails
<1>10. ASSUME HandshakeFails
       PROVE  WireTypes' /\ ReaderInv' /\ StreamInv' /\ EdgesInv' /\ CloseInv'
  BY <1>7, <1>10, ReaderOverCloses DEF HandshakeFails, Directions
<1>11. ASSUME NEW d \in Directions, Read(d)
       PROVE  WireTypes' /\ ReaderInv' /\ StreamInv' /\ EdgesInv' /\ CloseInv'
  <2>1. /\ FrameRead(d) \in SomeFrames
        /\ taken' = [taken EXCEPT ![d] = Append(@, FrameRead(d))]
        /\ UNCHANGED <<config, conn, pump, first, reading, writing, sent>>
    BY <1>11, ReadStream DEF Read
  <2>2. Len(taken'[d]) = Len(taken[d]) + 1 /\ Len(taken[d]) \in Nat
        /\ \A e \in Directions \ {d} : taken'[e] = taken[e]
    BY <1>0, <2>1 DEF WireInv, WireTypes
  <2>3. Passed(d)' = Passed(d) + 1 /\ \A e \in Directions \ {d} : Passed(e)' = Passed(e)
    <3> DEFINE extra == IF d = "up" /\ authenticates /\ ~first THEN 1 ELSE 0
    <3>1. Passed(d) = Len(taken[d]) + extra /\ Passed(d)' = Len(taken'[d]) + extra /\ extra \in Nat
      BY <2>1 DEF Passed, config
    <3> HIDE DEF extra
    <3>2. Passed(d)' = Passed(d) + 1
      BY <2>2, <3>1
    <3>3. \A e \in Directions \ {d} : Passed(e)' = Passed(e)
      BY <2>1, <2>2 DEF Passed, config
    <3> QED BY <3>2, <3>3
  <2>4. first' => d = "down" /\ first
    BY <1>11 DEF Read
  <2>5. \A e \in Directions : Over(e)' <=> Over(e)
    BY <2>1 DEF Over
  <2>6. WireTypes' /\ ReaderInv' /\ StreamInv' /\ EdgesInv'
    BY <1>11, <2>1, <2>3, <2>4, <2>5, TakeStream DEF Read
  <2>7. CloseInv'
    BY <1>0, <2>1 DEF CloseInv
  <2> QED BY <2>6, <2>7
<1>12. ASSUME ReadFirst
       PROVE  WireTypes' /\ ReaderInv' /\ StreamInv' /\ EdgesInv' /\ CloseInv'
  <2>0. "up" \in Directions
    BY DEF Directions
  <2>1. /\ FrameRead("up") \in SomeFrames /\ taken["up"] = << >>
        /\ first /\ ~first' /\ pump[ServerPump] = "none"
        /\ pump' = [pump EXCEPT ![ServerPump] = "running"]
        /\ UNCHANGED <<config, conn, reading, writing, sent>>
    BY <1>0, <1>12, <2>0, ReadStream DEF ReadFirst, ReaderInv, WriterInv
  <2>2. \A e \in Directions : Over(e)' <=> Over(e)
    <3>1. \A p \in Pumps : pump'[p] = "done" <=> pump[p] = "done"
      BY <1>0, <2>1 DEF TypeOK
    <3> QED BY <2>1, <3>1 DEF Over
  <2>3. Complete("up") /\ wire' = WireAfter("up")
    BY <1>12 DEF ReadFirst
  <2>4. CloseInv'
    <3>1. "up" \in reading
      BY <1>12 DEF ReadFirst, Reading
    <3> QED BY <1>0, <2>1, <3>1 DEF CloseInv
  <2>5. CASE authenticates
    <3>1. taken' = taken
      BY <1>12, <2>5 DEF ReadFirst
    <3>2. Passed("up")' = Passed("up") + 1
          /\ \A e \in Directions \ {"up"} : Passed(e)' = Passed(e)
      BY <2>1, <2>5, <3>1 DEF Passed, config
    <3> QED BY <2>0, <2>1, <2>2, <2>3, <2>4, <3>1, <3>2, TakeStream
  <2>6. CASE ~authenticates
    <3>1. taken' = [taken EXCEPT !["up"] = Append(@, FrameRead("up"))]
      BY <1>12, <2>6 DEF ReadFirst
    <3>2. Len(taken'["up"]) = Len(taken["up"]) + 1 /\ Len(taken["up"]) \in Nat
          /\ \A e \in Directions \ {"up"} : taken'[e] = taken[e]
      BY <1>0, <2>0, <2>1, <3>1 DEF WireInv, WireTypes
    <3>3. Passed("up")' = Passed("up") + 1
          /\ \A e \in Directions \ {"up"} : Passed(e)' = Passed(e)
      BY <2>1, <2>6, <3>2 DEF Passed, config
    <3> QED BY <2>0, <2>1, <2>2, <2>3, <2>4, <3>1, <3>3, TakeStream
  <2> QED BY <2>5, <2>6
<1>13. ASSUME Disconnect
       PROVE  WireTypes' /\ ReaderInv' /\ StreamInv' /\ EdgesInv' /\ CloseInv'
  <2>1. CloseInv' /\ \A e \in Directions : Over(e) => Over(e)'
    BY <1>13 DEF Disconnect, CloseInv, Over
  <2> QED BY <1>13, <2>1, StillStream DEF Disconnect
<1>14. ASSUME (\E p \in Pumps, size \in Sizes : SendToPeer(p, size)) \/ UNCHANGED vars
       PROVE  WireTypes' /\ ReaderInv' /\ StreamInv' /\ EdgesInv' /\ CloseInv'
  <2>1. UNCHANGED <<config, conn, pump, wire, first, sent, taken, writing, reading>>
    BY <1>14 DEF SendToPeer, vars
  <2> QED BY <2>1, StillStream DEF Over
<1>15. ASSUME Connect
       PROVE  WireTypes' /\ ReaderInv' /\ StreamInv' /\ EdgesInv' /\ CloseInv'
  <2>1. UNCHANGED <<config, conn, wire, first, sent, taken, writing, reading>>
    BY <1>15 DEF Connect
  <2>2. \A p \in Pumps : pump[p] = "done" => pump'[p] = "done"
    BY <1>0, <1>15 DEF Connect, TypeOK, WriterInv
  <2>3. \A e \in Directions : Over(e) => Over(e)'
    BY <2>1, <2>2 DEF Over
  <2> QED BY <2>1, <2>3, StillStream
<1> QED
  BY <1>1, <1>2, <1>3, <1>4, <1>5, <1>6, <1>8, <1>9, <1>10, <1>11, <1>12, <1>13, <1>14, <1>15
  DEF Next

LEMMA WireInit == Init => WireInv
<1> SUFFICES ASSUME Init PROVE WireInv
  OBVIOUS
<1> USE DEF Init
<1>1. \A d \in Directions : wire[d] = << >> /\ sent[d] = << >> /\ taken[d] = << >>
  OBVIOUS
<1>2. \A d \in Directions : Passed(d) = 0
  BY <1>1 DEF Passed, config
<1>3. << >> \in Seq(Pieces) /\ << >> \in Seq(SomeFrames)
  OBVIOUS
<1>4. WireTypes /\ WriterInv /\ CloseInv
  BY <1>3, DirectionFacts DEF WireTypes, WriterInv, CloseInv
<1>5. ReaderInv
  BY <1>1, <1>2 DEF ReaderInv, Directions
<1>6. StreamInv
  BY <1>1, <1>2 DEF StreamInv, Stream
<1>7. EdgesInv
  BY <1>1, <1>2 DEF EdgesInv, EdgeInv, Halfway, LastFrame
<1> QED BY InitType, <1>4, <1>5, <1>6, <1>7 DEF WireInv

LEMMA WireInvariant == Spec => []WireInv
<1>1. QED
  BY WireInit, WireStep, PTL DEF Spec

\* What follows the first k elements of a sequence, element by element.
LEMMA PrefixOfRest ==
  ASSUME NEW S, NEW s \in Seq(S), NEW t \in Seq(S), NEW k \in Nat, Len(t) + k <= Len(s),
         \A i \in DOMAIN t : t[i] = s[k + i]
  PROVE  IsPrefix(t, SubSeq(s, k + 1, Len(s)))
<1> DEFINE r == SubSeq(s, k + 1, Len(s))
<1>1. Len(s) \in Nat /\ Len(t) \in Nat /\ DOMAIN t = 1 .. Len(t)
  OBVIOUS
<1>2. r \in Seq(S) /\ Len(r) = Len(s) - k /\ \A i \in 1 .. Len(s) - k : r[i] = s[k + i]
  <2>1. k + 1 \in 1 .. Len(s) + 1 /\ Len(s) \in k .. Len(s)
    BY <1>1
  <2>2. \A i \in k + 1 .. Len(s) : s[i] \in S
    BY <1>1
  <2>3. /\ r \in Seq(S)
        /\ Len(r) = IF k + 1 <= Len(s) THEN Len(s) - (k + 1) + 1 ELSE 0
        /\ \A i \in 1 .. Len(s) - (k + 1) + 1 : r[i] = s[k + 1 + i - 1]
    BY <1>1, <2>2, SubSeqProperties
  <2> HIDE DEF r
  <2>4. \A i \in 1 .. Len(s) - k : k + 1 + i - 1 = k + i
    BY <1>1
  <2> QED BY <1>1, <2>3, <2>4
<1> HIDE DEF r
<1>3. Len(t) <= Len(r)
  BY <1>1, <1>2
<1>4. ASSUME NEW i \in 1 .. Len(t) PROVE t[i] = r[i]
  <2>1. i \in 1 .. Len(s) - k
    BY <1>1
  <2> QED BY <1>1, <1>2, <2>1
<1>5. /\ SubSeq(t, 1, Len(t)) \in Seq(S) /\ SubSeq(r, 1, Len(t)) \in Seq(S)
      /\ Len(SubSeq(t, 1, Len(t))) = Len(t) /\ Len(SubSeq(r, 1, Len(t))) = Len(t)
      /\ \A i \in 1 .. Len(t) : SubSeq(t, 1, Len(t))[i] = t[i] /\ SubSeq(r, 1, Len(t))[i] = r[i]
  BY <1>1, <1>2, <1>3, SubSeqProperties
<1>6. SubSeq(t, 1, Len(t)) = SubSeq(r, 1, Len(t))
  BY <1>4, <1>5, SeqEqual
<1> QED BY <1>3, <1>6 DEF IsPrefix, r

\* However many goroutines call Send, no two writers are within a frame in one
\* direction at once: the handshake is over before Send finds the connection, or
\* the pump of Dial begins (reconnect.go:170-185; tcp.go:145-150, 314-322).
THEOREM OneWriterAtATime == Spec => []OneWriter
<1>1. WireInv => OneWriter
  BY WritersExclude DEF WireInv
<1> QED  BY <1>1, WireInvariant, PTL

\* However many goroutines send on a connection, however their frames are cut
\* and whichever write fails, each end passes on the frames of the other whole
\* and in order (tcp.go, readTCPFrame and writeAll; reconnect.go, Send).
THEOREM FramesStayIntact == Spec => []FramesIntact
<1>1. WireInv => FramesIntact
  <2> SUFFICES ASSUME WireInv, NEW d \in Directions
               PROVE  \E skipped \in 0 .. Len(sent[d]) :
                        /\ skipped = Passed(d) - Len(taken[d])
                        /\ IsPrefix(taken[d], SubSeq(sent[d], skipped + 1, Len(sent[d])))
    BY DEF FramesIntact
  <2> DEFINE k == Passed(d) - Len(taken[d])
  <2>1. /\ sent[d] \in Seq(SomeFrames) /\ taken[d] \in Seq(SomeFrames) /\ Len(sent[d]) \in Nat
        /\ Passed(d) \in Nat /\ Len(taken[d]) \in Nat /\ k \in Nat /\ Passed(d) <= Len(sent[d])
    BY PassedType DEF WireInv, WireTypes, IInv, ReaderInv
  <2>2. \A i \in DOMAIN taken[d] : taken[d][i] = sent[d][k + i]
    BY DEF WireInv, ReaderInv
  <2>3. Len(taken[d]) + k <= Len(sent[d]) /\ k \in 0 .. Len(sent[d])
    BY <2>1
  <2> HIDE DEF k
  <2>4. IsPrefix(taken[d], SubSeq(sent[d], k + 1, Len(sent[d])))
    BY <2>1, <2>2, <2>3, PrefixOfRest
  <2> QED BY <2>3, <2>4 DEF k
<1>2. QED
  BY <1>1, WireInvariant, PTL

\* A reader closes the connection only for the handshake or for a frame above
\* MaxFrameSize, whatever the sizes and the limits (tcp.go, handleConn,
\* pipePeer and readTCPFrame; reconnect.go, readLoop).
THEOREM LegalFramesDoNoHarm == Spec => []LegalFramesPass
<1>1. WireInv => LegalFramesPass
  BY DEF WireInv, CloseInv, LegalFramesPass
<1>2. QED
  BY <1>1, WireInvariant, PTL

=============================================================================
