------------------------------ MODULE TcpFrames ------------------------------
(***************************************************************************)
(* The frames on one tcp connection (src/go/adapter/tcp): a dialling       *)
(* client with its optional handshake frame, a listening server            *)
(* (Adapter.handleConn) with its authenticator, its read loop and its      *)
(* write pump, and the bytes between them.  The client is a                *)
(* ReconnectingTCP with several goroutines in Send, or Adapter.Dial, whose *)
(* peer has a write pump of its own.                                       *)
(*                                                                         *)
(* writeAll writes a frame in one piece or in two, and may fail between    *)
(* them.  A reader knows where a frame begins only from the length of the  *)
(* one before, so that a piece which is followed by anything but the rest  *)
(* of its frame is read as a frame that nobody sent.  Sizes are in a scale *)
(* of their own; the length field holds them all (frames of 4 GiB, which   *)
(* overflow it, are left out).                                             *)
(*                                                                         *)
(* Whatever else ends the connection, the hub's removal of the peer and    *)
(* the end of the context among it (Connections), is Disconnect.           *)
(***************************************************************************)
EXTENDS Naturals, Sequences, SequencesExt

CONSTANTS
  Senders,           \* goroutines that call ReconnectingTCP.Send
  Dialler,           \* who writes the handshake
  ServerPump, ClientPump,  \* writePump of handleConn, and of pipePeer
  Sizes,             \* sizes of encoded frames, without the length field
  MaxHandshakeSize,  \* maxHandshakeFrameSize
  MaxFrameSize,
  MaxFrames          \* bound: frames in each direction

ASSUME TcpFramesAssumption ==
  /\ Senders \cap {Dialler, ServerPump, ClientPump} = {}
  /\ Dialler \notin {ServerPump, ClientPump} /\ ServerPump # ClientPump
  /\ Sizes \subseteq Nat /\ MaxHandshakeSize \in Nat /\ MaxFrameSize \in Nat
  /\ MaxHandshakeSize <= MaxFrameSize /\ MaxFrames \in Nat

Pumps == {ServerPump, ClientPump}
Writers == Senders \cup {Dialler} \cup Pumps
Directions == {"up", "down"}   \* to the server, to the client

VARIABLES
  client,         \* which one: "reconnecting" or "dial"
  authenticates,  \* the server has a ConnAuthenticator
  conn,           \* the connection: open, closed by a reader, or lost to Disconnect
  connected,      \* the client has given the connection to Send, or to its pump
  pump,           \* the write pumps: none, running or done
  queue,          \* the send queue of each pump's peer
  writeMutex,     \* who is in Send
  writing,        \* what a writer has yet to write: << >> or a piece of a frame
  wire,           \* pieces that are written and not read
  first,          \* the server waits for the first frame
  reading,        \* directions whose reader is not over
  \* History.
  sent,           \* frames whose writing began
  taken           \* frames that a reader passed on

config == <<client, authenticates>>
vars == <<config, conn, connected, pump, queue, writeMutex, writing, wire, first, reading,
          sent, taken>>

Frame(n, size) == [n |-> n, size |-> size]
Garbage == Frame(0, 0)
Piece(f, part) == [frame |-> f, part |-> part]
Direction(w) == IF w = ServerPump THEN "down" ELSE "up"

Init ==
  /\ client \in {"reconnecting", "dial"} /\ authenticates \in BOOLEAN
  /\ conn = "open" /\ connected = FALSE
  /\ pump = [p \in Pumps |-> "none"] /\ queue = [p \in Pumps |-> << >>]
  /\ writeMutex = {} /\ writing = [w \in Writers |-> << >>]
  /\ wire = [d \in Directions |-> << >>]
  /\ first = TRUE /\ reading = Directions
  /\ sent = [d \in Directions |-> << >>] /\ taken = [d \in Directions |-> << >>]

-----------------------------------------------------------------------------
(* Writing.                                                                 *)

\* writeAll begins with a frame of any size: the encoder knows no maximum.
Begin(w, size) ==
  LET f == Frame(Len(sent[Direction(w)]) + 1, size) IN
  /\ writing' = [writing EXCEPT ![w] = <<Piece(f, "whole")>>]
  /\ sent' = [sent EXCEPT ![Direction(w)] = Append(@, f)]

\* conn.Write takes all that is left, or the first half of a frame.
Write(w) ==
  /\ writing[w] # << >> /\ conn = "open"
  /\ LET p == Head(writing[w]) IN
     \/ /\ wire' = [wire EXCEPT ![Direction(w)] = Append(@, p)]
        /\ writing' = [writing EXCEPT ![w] = << >>]
        /\ writeMutex' = writeMutex \ {w}
     \/ /\ p.part = "whole"
        /\ wire' = [wire EXCEPT ![Direction(w)] = Append(@, Piece(p.frame, "head"))]
        /\ writing' = [writing EXCEPT ![w] = <<Piece(p.frame, "tail")>>]
        /\ UNCHANGED writeMutex
  /\ UNCHANGED <<config, conn, connected, pump, queue, first, reading, sent, taken>>

\* dial, then writeHandshake before Send finds the connection: a handshake
\* that cannot be written closes it.
Handshake(size) ==
  /\ ~connected /\ conn = "open" /\ sent["up"] = << >>
  /\ Begin(Dialler, size)
  /\ UNCHANGED <<config, conn, connected, pump, queue, writeMutex, wire, first, reading,
                 taken>>

\* After the handshake or without one: setConn, or AddPeer and the pump of pipePeer.
Connect ==
  /\ ~connected /\ conn = "open" /\ writing[Dialler] = << >>
  /\ connected' = TRUE
  /\ pump' = IF client = "dial" THEN [pump EXCEPT ![ClientPump] = "running"] ELSE pump
  /\ UNCHANGED <<config, conn, queue, writeMutex, writing, wire, first, reading, sent, taken>>

\* ReconnectingTCP.Send, under writeMutex until its writeAll returns.
Send(w, size) ==
  /\ client = "reconnecting" /\ connected /\ writeMutex = {}
  /\ Len(sent["up"]) < MaxFrames
  /\ writeMutex' = {w} /\ Begin(w, size)
  /\ UNCHANGED <<config, conn, connected, pump, queue, wire, first, reading, taken>>

\* Send and writeHandshake set no deadline: nothing but the end of the
\* connection fails their writes.
WriteFails(w) ==
  /\ w \notin Pumps /\ writing[w] # << >> /\ conn # "open"
  /\ writing' = [writing EXCEPT ![w] = << >>] /\ writeMutex' = writeMutex \ {w}
  /\ UNCHANGED <<config, conn, connected, pump, queue, wire, first, reading, sent, taken>>

\* sendToPeer: the hub puts what it has encoded into the peer's queue.
SendToPeer(p, size) ==
  /\ pump[p] # "none" /\ Len(sent[Direction(p)]) + Len(queue[p]) < MaxFrames
  /\ queue' = [queue EXCEPT ![p] = Append(@, size)]
  /\ UNCHANGED <<config, conn, connected, pump, writeMutex, writing, wire, first, reading, sent,
                 taken>>

\* case frame := <-peer.SendQueue()
PumpTakes(p) ==
  /\ pump[p] = "running" /\ writing[p] = << >> /\ queue[p] # << >>
  /\ Begin(p, Head(queue[p])) /\ queue' = [queue EXCEPT ![p] = Tail(@)]
  /\ UNCHANGED <<config, conn, connected, pump, writeMutex, wire, first, reading, taken>>

\* Mutant: a pump that misses a deadline goes on with the next frame.
Mut_PumpFails(p) ==
  /\ pump[p] = "running" /\ writing[p] # << >>
  /\ writing' = [writing EXCEPT ![p] = << >>]
  /\ UNCHANGED <<config, conn, connected, pump, queue, writeMutex, wire, first, reading, sent,
                 taken>>

\* The write deadline, which may leave half a frame behind, ends the pump, and
\* so does the end of the connection; the connection stays.
PumpFails(p) ==
  /\ pump[p] = "running" /\ writing[p] # << >>
  /\ pump' = [pump EXCEPT ![p] = "done"] /\ writing' = [writing EXCEPT ![p] = << >>]
  /\ UNCHANGED <<config, conn, connected, queue, writeMutex, wire, first, reading, sent, taken>>

-----------------------------------------------------------------------------
(* Reading.                                                                 *)

\* readTCPFrame has all the bytes that it takes for a frame, ...
Complete(d) == wire[d] # << >> /\ (wire[d][1].part = "head" => Len(wire[d]) > 1)

\* ... which is the one that was sent if the bytes are all of the same frame.
FrameRead(d) ==
  LET w == wire[d] IN
  CASE w[1].part = "whole" -> w[1].frame
    [] w[1].part = "head" /\ w[2] = Piece(w[1].frame, "tail") -> w[1].frame
    [] OTHER -> Garbage

WireAfter(d) ==
  [wire EXCEPT ![d] = IF @[1].part = "head" THEN Tail(Tail(@)) ELSE Tail(@)]

\* Mutant: the handshake limit stays in force for the frames that follow.
Mut_Limit(d) == IF d = "up" /\ authenticates THEN MaxHandshakeSize ELSE MaxFrameSize

\* handshakeMaxSize for the first frame, MaxFrameSize for the others.
Limit(d) == IF d = "up" /\ first /\ authenticates THEN MaxHandshakeSize ELSE MaxFrameSize

\* The server reads once it has accepted, the client once it is connected.
Reading(d) == d \in reading /\ (d = "down" => connected)

\* The first frame is for the authenticator, or else is dispatched like any
\* other; the peer joins the hub and gets its pump.
ReadFirst ==
  /\ first /\ Reading("up") /\ Complete("up") /\ FrameRead("up").size <= Limit("up")
  /\ wire' = WireAfter("up")
  /\ taken' = IF authenticates THEN taken ELSE [taken EXCEPT !["up"] = Append(@, FrameRead("up"))]
  /\ first' = FALSE /\ pump' = [pump EXCEPT ![ServerPump] = "running"]
  /\ UNCHANGED <<config, conn, connected, queue, writeMutex, writing, reading, sent>>

\* The frames that follow: hub.PublishFromPeer or BroadcastFromPeer on the
\* server's side and in Dial, OnMessage in ReconnectingTCP.
Read(d) ==
  /\ d = "up" => ~first
  /\ Reading(d) /\ Complete(d) /\ FrameRead(d).size <= Limit(d)
  /\ wire' = WireAfter(d)
  /\ taken' = [taken EXCEPT ![d] = Append(@, FrameRead(d))]
  /\ UNCHANGED <<config, conn, connected, pump, queue, writeMutex, writing, first,
                 reading, sent>>

\* Mutant: the reader returns without closing its connection.
Mut_ReaderOver(d) ==
  /\ reading' = reading \ {d}
  /\ UNCHANGED <<config, conn, connected, pump, queue, writeMutex, writing, wire, first, sent,
                 taken>>

\* The reader returns and its connection is closed.
ReaderOver(d) ==
  /\ reading' = reading \ {d} /\ conn' = IF conn = "open" THEN "closed" ELSE conn
  /\ UNCHANGED <<config, connected, pump, queue, writeMutex, writing, wire, first, sent,
                 taken>>

\* "frame too large", seen from the length alone.
TooLarge(d) ==
  /\ Reading(d) /\ wire[d] # << >> /\ wire[d][1].frame.size > Limit(d)
  /\ ReaderOver(d)

\* HandshakeTimeout, or a first frame that the authenticator refuses.
HandshakeFails ==
  /\ first /\ Reading("up")
  /\ ReaderOver("up")

\* What is on its way may still be read after the end of the connection.
ReadFails(d) == Reading(d) /\ conn # "open" /\ ReaderOver(d)

Disconnect ==
  /\ conn = "open" /\ conn' = "lost"
  /\ UNCHANGED <<config, connected, pump, queue, writeMutex, writing, wire, first,
                 reading, sent, taken>>

-----------------------------------------------------------------------------

Next ==
  \/ \E size \in Sizes : Handshake(size) \/ \E w \in Senders : Send(w, size)
  \/ \E p \in Pumps : PumpTakes(p) \/ PumpFails(p) \/ \E size \in Sizes : SendToPeer(p, size)
  \/ \E w \in Writers : Write(w) \/ WriteFails(w)
  \/ Connect \/ ReadFirst \/ HandshakeFails \/ Disconnect
  \/ \E d \in Directions : Read(d) \/ TooLarge(d) \/ ReadFails(d)

Spec == Init /\ [][Next]_vars

\* Both ends go on reading and a write finds room for that reason; a client
\* that has dialled connects.
Fairness ==
  /\ \A w \in Writers : WF_vars(Write(w))
  /\ \A d \in Directions : WF_vars(Read(d) \/ TooLarge(d))
  /\ WF_vars(ReadFirst) /\ WF_vars(Connect)

FairSpec == Spec /\ Fairness

-----------------------------------------------------------------------------
(* Properties.                                                              *)

\* Every variable has its type.  A sender that writes has writeMutex, which
\* admits one at a time; the dialler writes before there is anybody else.
TypeOK ==
  /\ client \in {"reconnecting", "dial"} /\ authenticates \in BOOLEAN
  /\ connected \in BOOLEAN /\ first \in BOOLEAN /\ conn \in {"open", "closed", "lost"}
  /\ pump \in [Pumps -> {"none", "running", "done"}] /\ queue \in [Pumps -> Seq(Sizes)]
  /\ reading \subseteq Directions
  /\ writeMutex \subseteq Senders /\ \A v, w \in writeMutex : v = w
  /\ \A w \in Writers : Len(writing[w]) <= 1
  /\ \A w \in Senders : writing[w] # << >> => w \in writeMutex
  /\ writing[Dialler] # << >> => ~connected

\* Never do two writers have a piece of a frame to write in one direction: no
\* sender, dialler or pump of the client writes into the frame of another.
OneWriter ==
  \A v, w \in Writers :
    Direction(v) = Direction(w) /\ writing[v] # << >> /\ writing[w] # << >> => v = w

\* What the server's reader has passed on and what it gave the authenticator.
Passed(d) == Len(taken[d]) + (IF d = "up" /\ authenticates /\ ~first THEN 1 ELSE 0)

\* Each end passes on the frames that the other sent, whole and in the order
\* of their writing, whatever writes fail half-way and however many goroutines
\* send: nobody ever reads from the middle of a frame.  The authenticator's
\* frame alone is not passed on.
FramesIntact ==
  \A d \in Directions :
    \E skipped \in 0 .. Len(sent[d]) :
      /\ skipped = Passed(d) - Len(taken[d])
      /\ IsPrefix(taken[d], SubSeq(sent[d], skipped + 1, Len(sent[d])))

\* A reader ends a connection only for the handshake or for a frame above
\* MaxFrameSize, which the encoder does not refuse: a legal frame does no harm.
LegalFramesPass ==
  conn = "closed" =>
    \/ first
    \/ \E d \in Directions : \E i \in DOMAIN sent[d] : sent[d][i].size > MaxFrameSize

\* A frame whose writing has begun arrives, or its connection ends: a reader
\* gets stuck on nothing.  The exception is a direction whose write pump, the
\* server's or that of Adapter.Dial, has given up: its connection stays, mute
\* (tcp.go:346-353).
FramesArrive ==
  \A d \in Directions, n \in 1 .. MaxFrames :
    Len(sent[d]) >= n
      ~> \/ Passed(d) >= n \/ conn # "open"
         \/ \E p \in Pumps : Direction(p) = d /\ pump[p] = "done"

=============================================================================
