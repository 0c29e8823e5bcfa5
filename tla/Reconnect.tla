----------------------------- MODULE Reconnect -----------------------------
(***************************************************************************)
(* The reconnecting clients, ReconnectingTCP (src/go/adapter/tcp) and      *)
(* ReconnectingClient (src/go/adapter/ws): the loop of Connect, with its   *)
(* dial, handshake, read loop, retry budget and backoff, beside Close, a   *)
(* sender, the cancellation of the context and a server that may refuse,   *)
(* accept, stall or drop a connection at any time.                         *)
(*                                                                         *)
(* The two differ in three places, chosen by transport: only tcp can write *)
(* a handshake; tcp forgets a lost connection in two sections under the    *)
(* mutex, ws in one; and ws sends while it holds the mutex.                *)
(*                                                                         *)
(* One goroutine calls Connect, once.  Messages read have no effect here.  *)
(* The multiplier is a float64, which may be 1.5 or below 1: it is given   *)
(* by growth, what its product with a pause is as a time.Duration, after   *)
(* whatever rounding, truncation and overflow, and is otherwise arbitrary. *)
(***************************************************************************)
EXTENDS Integers

CONSTANTS
  Transports,         \* which of "tcp" and "ws" are looked at
  Handshake,          \* config.HandshakeFrame or HandshakeChannel is given (tcp)
  MaxRetries,         \* config.MaxRetries; 0 or less means unlimited
  Durations,          \* the values of a time.Duration
  InitialBackoff,     \* config.InitialBackoff, after the defaults; may be negative
  MaxBackoff,         \* config.MaxBackoff, after the defaults; may be negative
  Growths,            \* what a multiplier makes of each duration, one per multiplier
  MaxConns            \* bound: connections that the server accepts

ASSUME ReconnectAssumption ==
  /\ Transports \subseteq {"tcp", "ws"} /\ Handshake \in BOOLEAN
  /\ MaxRetries \in Int /\ MaxConns \in Nat
  /\ Durations \subseteq Int /\ {InitialBackoff, MaxBackoff} \subseteq Durations \ {0}
  /\ Growths \subseteq [Durations -> Durations]

Conns == 1 .. MaxConns  \* connections, in the order they were made
None == 0               \* a nil connection

VARIABLES
  transport,  \* the client looked at
  growth,     \* time.Duration(float64(d) * config.BackoffMultiplier) of each duration d
  pc,         \* place of the goroutine in Connect
  conn,       \* client.conn
  state,      \* client.state
  closed,     \* client.closed
  current,    \* Connect's conn, the latest connection it made
  attempt,    \* Connect's attempt
  backoff,    \* Connect's backoff
  result,     \* what Connect returned: "none" so far, "ok" or "fail"
  cancelled,  \* the context is done
  watched,    \* connections with an active context.AfterFunc
  firing,     \* connections whose AfterFunc has started
  socket,     \* [Conns -> unused, open, dropped by the server, closed here]
  closing,    \* the connection that Close took and is about to close
  sender,     \* place of a goroutine in Send
  target      \* the connection it writes to

config == <<transport, growth>>
client == <<conn, state, closed>>
loopState == <<pc, current, attempt, backoff, result>>
env == <<cancelled, watched, firing, socket, closing>>
sending == <<sender, target>>
vars == <<config, client, loopState, env, sending>>

Places == {"top", "connecting", "dial", "handshake", "setConn", "readTop", "read",
           "clear", "disconnected", "close", "check", "retry", "sleep", "returned"}

Init ==
  /\ transport \in Transports /\ growth \in Growths
  /\ pc = "top" /\ conn = None /\ state = "disconnected" /\ closed = FALSE
  /\ current = None /\ attempt = 0 /\ backoff = InitialBackoff /\ result = "none"
  /\ cancelled = FALSE /\ watched = {} /\ firing = {}
  /\ socket = [c \in Conns |-> "unused"]
  /\ closing = None /\ sender = "idle" /\ target = None

-----------------------------------------------------------------------------

\* client.mutex is free: a ws sender holds it for the whole of its write.
Unlocked == ~(transport = "ws" /\ sender = "write")

Open(c) == c # None /\ socket[c] = "open"

\* conn.Close() here; a connection can be closed twice.
CloseConn(c) == socket' = [socket EXCEPT ![c] = "closed"]

Goto(l) == pc' = l /\ UNCHANGED result
ReturnWith(r) == pc' = "returned" /\ result' = r

\* nextTCPBackoff and nextBackoff: a product that vanishes or overflows to a
\* negative duration leaves the pause as it was, and the result is capped.
NextBackoff(d) ==
  LET next == IF growth[d] <= 0 THEN d ELSE growth[d]
  IN  IF next > MaxBackoff THEN MaxBackoff ELSE next

-----------------------------------------------------------------------------
(* Connect.                                                                 *)

\* if client.isClosed() || ctx.Err() != nil { return core.Ok(nil) }
Top ==
  /\ pc = "top" /\ Unlocked
  /\ IF closed \/ cancelled THEN ReturnWith("ok") ELSE Goto("connecting")
  /\ UNCHANGED <<config, client, current, attempt, backoff, env, sending>>

\* client.setState(stream.StateConnecting)
SetConnecting ==
  /\ pc = "connecting" /\ Unlocked
  /\ state' = "connecting"
  /\ Goto("dial")
  /\ UNCHANGED <<config, conn, closed, current, attempt, backoff, env, sending>>

\* The dial makes connection current + 1; a done context does not undo a dial
\* that the server has just answered.
DialOk ==
  /\ pc = "dial" /\ current < MaxConns
  /\ current' = current + 1
  /\ socket' = [socket EXCEPT ![current + 1] = "open"]
  /\ Goto(IF transport = "tcp" /\ Handshake THEN "handshake" ELSE "setConn")
  /\ UNCHANGED <<config, client, attempt, backoff, cancelled, watched, firing, closing,
                 sending>>

\* Refused, timed out, or given up because the context is done.
DialFail ==
  /\ pc = "dial"
  /\ attempt' = attempt + 1
  /\ Goto("retry")
  /\ UNCHANGED <<config, client, current, backoff, env, sending>>

HandshakeOk ==
  /\ pc = "handshake" /\ Open(current)
  /\ Goto("setConn")
  /\ UNCHANGED <<config, client, current, attempt, backoff, env, sending>>

\* Mutant: the connection whose handshake failed is left open.
Mut_HandshakeFail ==
  /\ pc = "handshake"
  /\ attempt' = attempt + 1
  /\ Goto("retry")
  /\ UNCHANGED <<config, client, current, backoff, env, sending>>

\* A write to a connection that is still open may fail as well.
HandshakeFail ==
  /\ pc = "handshake"
  /\ CloseConn(current)
  /\ attempt' = attempt + 1
  /\ Goto("retry")
  /\ UNCHANGED <<config, client, current, backoff, cancelled, watched, firing, closing,
                 sending>>

\* Mutant: the backoff is kept across a connection.
Mut_SetConnKeepsBackoff ==
  /\ pc = "setConn" /\ Unlocked
  /\ conn' = current /\ state' = "connected"
  /\ watched' = watched \cup {current}
  /\ attempt' = 0
  /\ Goto("readTop")
  /\ UNCHANGED <<config, closed, current, backoff, cancelled, firing, socket, closing,
                 sending>>

\* Mutant: the end of the context does not close the connection.
Mut_SetConnUnwatched ==
  /\ pc = "setConn" /\ Unlocked
  /\ conn' = current /\ state' = "connected"
  /\ attempt' = 0 /\ backoff' = InitialBackoff
  /\ Goto("readTop")
  /\ UNCHANGED <<config, closed, current, cancelled, watched, firing, socket, closing,
                 sending>>

\* The connection is published, watched for the end of the context, and the
\* counters start afresh.
SetConn ==
  /\ pc = "setConn" /\ Unlocked
  /\ conn' = current /\ state' = "connected"
  /\ watched' = watched \cup {current}
  /\ attempt' = 0 /\ backoff' = InitialBackoff
  /\ Goto("readTop")
  /\ UNCHANGED <<config, closed, current, cancelled, firing, socket, closing, sending>>

\* readLoop looks at the context before it blocks in a read; stopClose() ends
\* the watch when readLoop returns, and readLoop returns only failures.
ReadTop ==
  /\ pc = "readTop"
  /\ IF cancelled THEN watched' = watched \ {current} /\ Goto("clear")
                  ELSE UNCHANGED watched /\ Goto("read")
  /\ UNCHANGED <<config, client, current, attempt, backoff, cancelled, firing, socket,
                 closing, sending>>

Read ==
  /\ pc = "read" /\ Open(current)
  /\ Goto("readTop")
  /\ UNCHANGED <<config, client, current, attempt, backoff, env, sending>>

\* The read fails once either side has closed the connection, and on one that is
\* open when a frame is too large or invalid, or the peer breaks the protocol.
ReadFail ==
  /\ pc = "read"
  /\ watched' = watched \ {current}
  /\ Goto("clear")
  /\ UNCHANGED <<config, client, current, attempt, backoff, cancelled, firing, socket,
                 closing, sending>>

\* clearConn, then setState (tcp); one section for both (ws).
Clear ==
  /\ pc = "clear" /\ Unlocked
  /\ conn' = IF conn = current THEN None ELSE conn
  /\ state' = IF transport = "ws" \/ conn = current THEN "disconnected" ELSE state
  /\ Goto(IF transport = "tcp" THEN "disconnected" ELSE "close")
  /\ UNCHANGED <<config, closed, current, attempt, backoff, env, sending>>

SetDisconnected ==
  /\ pc = "disconnected" /\ Unlocked
  /\ state' = "disconnected"
  /\ Goto("close")
  /\ UNCHANGED <<config, conn, closed, current, attempt, backoff, env, sending>>

CloseCurrent ==
  /\ pc = "close"
  /\ CloseConn(current)
  /\ Goto("check")
  /\ UNCHANGED <<config, client, current, attempt, backoff, cancelled, watched, firing,
                 closing, sending>>

\* Mutant: an off-by-one in the budget.
Mut_OutOfRetries(n) == MaxRetries > 0 /\ n >= MaxRetries

OutOfRetries(n) == MaxRetries > 0 /\ n > MaxRetries

\* After a lost connection: return, or count the loss as a failed attempt.
Check ==
  /\ pc = "check" /\ Unlocked
  /\ \/ /\ closed \/ cancelled
        /\ ReturnWith("ok")
        /\ UNCHANGED attempt
     \/ /\ ~(closed \/ cancelled)
        /\ attempt' = attempt + 1
        /\ IF OutOfRetries(attempt + 1) THEN ReturnWith("fail") ELSE Goto("sleep")
  /\ UNCHANGED <<config, client, current, backoff, env, sending>>

\* After a failed dial or handshake, which has counted itself.
Retry ==
  /\ pc = "retry" /\ Unlocked
  /\ state' = "disconnected"
  /\ IF OutOfRetries(attempt) THEN ReturnWith("fail") ELSE Goto("sleep")
  /\ UNCHANGED <<config, conn, closed, current, attempt, backoff, env, sending>>

\* sleepContext: the timer fires, or there is nothing to wait for ...
Awake ==
  /\ pc = "sleep"
  /\ backoff' = NextBackoff(backoff)
  /\ Goto("top")
  /\ UNCHANGED <<config, client, current, attempt, env, sending>>

\* ... or the context ends the sleep, and Connect with its error.
SleepCancelled ==
  /\ pc = "sleep" /\ backoff > 0 /\ cancelled
  /\ ReturnWith("fail")
  /\ UNCHANGED <<config, client, current, attempt, backoff, env, sending>>

-----------------------------------------------------------------------------
(* Close, Send, the context and the server.                                 *)

\* Close: the section under the mutex ...
Close ==
  /\ Unlocked /\ closing = None
  /\ closed' = TRUE /\ conn' = None /\ state' = "disconnected"
  /\ closing' = conn
  /\ UNCHANGED <<config, loopState, cancelled, watched, firing, socket, sending>>

\* ... and conn.Close() after it.
CloseTaken ==
  /\ closing # None
  /\ CloseConn(closing)
  /\ closing' = None
  /\ UNCHANGED <<config, client, loopState, cancelled, watched, firing, sending>>

\* Send reads client.conn; without one it fails at once.
SendStart ==
  /\ sender = "idle" /\ conn # None
  /\ sender' = IF transport = "ws" THEN "lock" ELSE "write"
  /\ target' = IF transport = "ws" THEN None ELSE conn
  /\ UNCHANGED <<config, client, loopState, env>>

\* ws looks again under the lock, and writes under it.
SendLock ==
  /\ sender = "lock"
  /\ sender' = IF conn = None THEN "idle" ELSE "write"
  /\ target' = conn
  /\ UNCHANGED <<config, client, loopState, env>>

\* The write ends: at the server's leisure, or because the connection did.
SendEnd ==
  /\ sender = "write"
  /\ sender' = "idle" /\ target' = None
  /\ UNCHANGED <<config, client, loopState, env>>

Cancel ==
  /\ ~cancelled
  /\ cancelled' = TRUE
  /\ UNCHANGED <<config, client, loopState, watched, firing, socket, closing, sending>>

\* The end of the context starts the function given to AfterFunc, a little after
\* ctx.Err() shows it: a stopClose() in between still wins ...
StartClose ==
  /\ cancelled /\ watched # {}
  /\ firing' = firing \cup watched /\ watched' = {}
  /\ UNCHANGED <<config, client, loopState, cancelled, socket, closing, sending>>

\* ... and the function closes its connection, in a goroutine of its own.
CloseWatched ==
  /\ \E c \in firing : CloseConn(c) /\ firing' = firing \ {c}
  /\ UNCHANGED <<config, client, loopState, cancelled, watched, closing, sending>>

\* The server ends a connection.
Drop(c) ==
  /\ socket[c] = "open"
  /\ socket' = [socket EXCEPT ![c] = "dropped"]
  /\ UNCHANGED <<config, client, loopState, cancelled, watched, firing, closing, sending>>

-----------------------------------------------------------------------------

\* Steps that Connect makes as soon as it is scheduled.
Step ==
  \/ Top \/ SetConnecting \/ SetConn
  \/ ReadTop \/ Clear \/ SetDisconnected \/ CloseCurrent \/ Check \/ Retry
  \/ Awake \/ SleepCancelled

Next ==
  \/ Step \/ DialOk \/ DialFail \/ HandshakeOk \/ HandshakeFail \/ Read \/ ReadFail
  \/ Close \/ CloseTaken \/ SendStart \/ SendLock \/ SendEnd
  \/ Cancel \/ StartClose \/ CloseWatched \/ \E c \in Conns : Drop(c)

Spec == Init /\ [][Next]_vars

\* Goroutines run, timers fire, a dial ends and a read or a write ends with its
\* connection.  The server owes nothing: it may keep a connection open and
\* silent, and let a write on it wait, for ever.  Strong fairness of Step is the
\* mutex's: Go's never starves a goroutine that waits for it.
Fairness ==
  /\ SF_vars(Step)
  /\ WF_vars(DialOk \/ DialFail)
  /\ WF_vars(~Open(current) /\ HandshakeFail) /\ WF_vars(~Open(current) /\ ReadFail)
  /\ WF_vars(CloseTaken) /\ WF_vars(StartClose) /\ WF_vars(CloseWatched)
  /\ WF_vars(SendLock) /\ WF_vars(~Open(target) /\ SendEnd)

FairSpec == Spec /\ Fairness

-----------------------------------------------------------------------------
(* Properties.                                                              *)

Max2(a, b) == IF a > b THEN a ELSE b

\* Every variable keeps its type, and no backoff exceeds both InitialBackoff and
\* MaxBackoff: nextTCPBackoff and nextBackoff cap what they grow.
TypeOK ==
  /\ transport \in Transports /\ growth \in Growths /\ pc \in Places
  /\ conn \in Conns \cup {None} /\ current \in Conns \cup {None}
  /\ state \in {"disconnected", "connecting", "connected"} /\ closed \in BOOLEAN
  /\ attempt \in Nat
  /\ backoff \in Durations /\ backoff <= Max2(InitialBackoff, MaxBackoff)
  /\ result \in {"none", "ok", "fail"}
  /\ cancelled \in BOOLEAN /\ watched \subseteq Conns /\ firing \subseteq Conns
  /\ socket \in [Conns -> {"unused", "open", "dropped", "closed"}]
  /\ closing \in Conns \cup {None}
  /\ sender \in {"idle", "lock", "write"} /\ target \in Conns \cup {None}

\* State() says connected exactly while Send has a connection to write to,
\* whatever Close, the read loop and the next dial do to the two fields.
StateMatchesConn == (state = "connected") <=> (conn # None)

\* Connect leaks no connection: the only one that can be open is the latest, and
\* between two connections and after Connect has returned none is, whether the
\* dial, the handshake, the read loop, Close or the context ended the last one.
NoSocketLeak ==
  /\ \A c \in Conns : socket[c] = "open" => c = current
  /\ pc \in {"top", "connecting", "dial", "check", "retry", "sleep", "returned"}
       => ~Open(current)

\* Connect ends for a reason: with a success only after Close or the end of the
\* context, and otherwise with a failure only for the end of the context or when
\* MaxRetries + 1 attempts in a row have failed; meanwhile no more than
\* MaxRetries are slept off.
RetryBudget ==
  /\ result = "ok" => closed \/ cancelled
  /\ result = "fail" => cancelled \/ (MaxRetries > 0 /\ attempt = MaxRetries + 1)
  /\ MaxRetries > 0 /\ pc = "sleep" => attempt <= MaxRetries

\* The multiplier is at least 1: it shortens no pause, unless it overflows.
Lengthens == \A d \in Durations : d > 0 => growth[d] >= d \/ growth[d] <= 0

\* The pause after the n-th failure in a row is InitialBackoff grown n - 1 times:
\* a connection in between starts both counts afresh, and none of the four places
\* that count or grow falls out of step with the others.  From the second pause
\* on the cap holds.  With a positive configuration no pause is skipped, whatever
\* the multiplier rounds or overflows to, and one of at least 1 never leads to a
\* pause below the first.
BackoffSchedule ==
  pc = "sleep" =>
    /\ \E pause \in [1 .. attempt -> Durations] :
         /\ pause[1] = InitialBackoff /\ pause[attempt] = backoff
         /\ \A n \in 1 .. attempt - 1 : pause[n + 1] = NextBackoff(pause[n])
    /\ attempt > 1 => backoff <= MaxBackoff
    /\ InitialBackoff > 0 /\ MaxBackoff > 0 => backoff > 0
    /\ Lengthens /\ 0 < InitialBackoff /\ InitialBackoff <= MaxBackoff
         => backoff >= InitialBackoff

\* A write to a server that takes nothing: of the handshake, before the context
\* watches the connection, or of a ws frame, under the mutex that Connect needs.
Stalled == pc = "handshake" \/ ~Unlocked

\* The end of the context ends Connect, wherever it is, unless a write stalls for
\* ever.
CancelReturns == <>[]Stalled \/ (cancelled ~> pc = "returned")

=============================================================================
