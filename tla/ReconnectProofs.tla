-------------------------- MODULE ReconnectProofs --------------------------
(* Theorems about Reconnect, for either client, every retry budget, every   *)
(* backoff and any number of connections.                                   *)
EXTENDS Reconnect, TLAPS

-----------------------------------------------------------------------------
(* Type correctness.                                                        *)

\* The cap of the backoff.
Cap == Max2(InitialBackoff, MaxBackoff)

LEMMA DurationsAreIntegers ==
  /\ InitialBackoff \in Durations /\ MaxBackoff \in Durations
  /\ \A d \in Durations : d \in Int
BY ReconnectAssumption

LEMMA CapBounds == Cap \in Int /\ InitialBackoff <= Cap /\ MaxBackoff <= Cap
BY DurationsAreIntegers DEF Cap, Max2

LEMMA GrowthsAreFunctions ==
  ASSUME NEW g \in Growths, NEW d \in Durations
  PROVE  g[d] \in Durations
BY ReconnectAssumption

\* A backoff that grows is a duration within the cap, whatever the multiplier.
LEMMA NextBackoffBounds ==
  ASSUME growth \in Growths, NEW d \in Durations
  PROVE  NextBackoff(d) \in Durations /\ NextBackoff(d) <= MaxBackoff
<1> DEFINE next == IF growth[d] <= 0 THEN d ELSE growth[d]
<1>1. next \in Durations /\ next \in Int /\ MaxBackoff \in Int
  BY GrowthsAreFunctions, DurationsAreIntegers
<1>2. NextBackoff(d) = IF next > MaxBackoff THEN MaxBackoff ELSE next
  BY DEF NextBackoff
<1> HIDE DEF next
<1> QED BY <1>1, <1>2, DurationsAreIntegers

\* The part of TypeOK that is not the backoff's.
StateOK ==
  /\ transport \in Transports /\ growth \in Growths /\ pc \in Places
  /\ conn \in Conns \cup {None} /\ current \in Conns \cup {None}
  /\ state \in {"disconnected", "connecting", "connected"} /\ closed \in BOOLEAN
  /\ attempt \in Nat
  /\ result \in {"none", "ok", "fail"}
  /\ cancelled \in BOOLEAN /\ watched \subseteq Conns /\ firing \subseteq Conns
  /\ socket \in [Conns -> {"unused", "open", "dropped", "closed"}]
  /\ closing \in Conns \cup {None}
  /\ sender \in {"idle", "lock", "write"} /\ target \in Conns \cup {None}

\* Between a dial that succeeded and the next one Connect has a connection.
HasConn ==
  pc \in {"handshake", "setConn", "readTop", "read", "clear", "disconnected", "close"}
    => current \in Conns

BackoffOK == backoff \in Durations /\ backoff <= Cap

TypeInv == StateOK /\ HasConn /\ BackoffOK

LEMMA TypeInit == Init => TypeInv
<1> SUFFICES ASSUME Init PROVE TypeInv
  OBVIOUS
<1>1. socket \in [Conns -> {"unused", "open", "dropped", "closed"}]
  BY DEF Init
<1>2. StateOK
  BY <1>1 DEF Init, StateOK, Places
<1>3. HasConn /\ BackoffOK
  BY DurationsAreIntegers, CapBounds DEF Init, HasConn, BackoffOK
<1> QED BY <1>2, <1>3 DEF TypeInv

LEMMA BackoffStep == TypeInv /\ [Next]_vars => BackoffOK'
<1> SUFFICES ASSUME TypeInv, [Next]_vars PROVE BackoffOK'
  OBVIOUS
<1>1. CASE UNCHANGED backoff
  BY <1>1 DEF TypeInv, BackoffOK
<1>2. CASE Awake
  <2>1. NextBackoff(backoff) \in Durations /\ NextBackoff(backoff) <= MaxBackoff
    BY NextBackoffBounds DEF TypeInv, StateOK, BackoffOK
  <2>2. backoff' \in Durations /\ backoff' <= MaxBackoff
    BY <1>2, <2>1 DEF Awake
  <2> QED BY <2>2, CapBounds, DurationsAreIntegers DEF BackoffOK
<1>3. CASE SetConn
  BY <1>3, CapBounds, DurationsAreIntegers DEF SetConn, BackoffOK
<1> QED
  BY <1>1, <1>2, <1>3
  DEF Next, Step, vars, config, client, loopState, env, sending, Top, SetConnecting, ReadTop,
      ReadFail, Clear, SetDisconnected, CloseCurrent, Check, Retry, SleepCancelled, DialOk,
      DialFail, HandshakeOk, HandshakeFail, Read, Close, CloseTaken, SendStart, SendLock,
      SendEnd, Cancel, StartClose, CloseWatched, Drop

LEMMA StateStep == TypeInv /\ [Next]_vars => StateOK' /\ HasConn'
<1> SUFFICES ASSUME TypeInv, [Next]_vars PROVE StateOK' /\ HasConn'
  OBVIOUS
<1> USE ReconnectAssumption
    DEF TypeInv, StateOK, HasConn, config, client, loopState, env, sending, Conns, None, Places,
        Goto, ReturnWith
<1>1. CASE Top
  BY <1>1 DEF Top
<1>2. CASE SetConnecting
  BY <1>2 DEF SetConnecting
<1>3. CASE SetConn
  BY <1>3 DEF SetConn
<1>4. CASE ReadTop
  BY <1>4 DEF ReadTop
<1>5. CASE ReadFail
  BY <1>5 DEF ReadFail
<1>6. CASE Clear
  BY <1>6 DEF Clear
<1>7. CASE SetDisconnected
  BY <1>7 DEF SetDisconnected
<1>8. CASE CloseCurrent
  BY <1>8 DEF CloseCurrent, CloseConn
<1>9. CASE Check
  BY <1>9 DEF Check
<1>10. CASE Retry
  BY <1>10 DEF Retry
<1>11. CASE Awake
  BY <1>11 DEF Awake
<1>12. CASE SleepCancelled
  BY <1>12 DEF SleepCancelled
<1>13. CASE DialOk
  BY <1>13 DEF DialOk
<1>14. CASE DialFail
  BY <1>14 DEF DialFail
<1>15. CASE HandshakeOk
  BY <1>15 DEF HandshakeOk
<1>16. CASE HandshakeFail
  BY <1>16 DEF HandshakeFail, CloseConn
<1>17. CASE Read
  BY <1>17 DEF Read
<1>18. CASE Close
  BY <1>18 DEF Close
<1>19. CASE CloseTaken
  BY <1>19 DEF CloseTaken, CloseConn
<1>20. CASE SendStart \/ SendLock \/ SendEnd
  <2>1. /\ UNCHANGED <<config, client, loopState, env>>
        /\ sender' \in {"idle", "lock", "write"} /\ target' \in Conns \cup {None}
    BY <1>20 DEF SendStart, SendLock, SendEnd
  <2> QED BY <2>1
<1>21. CASE Cancel \/ StartClose
  <2>1. /\ UNCHANGED <<config, client, loopState, socket, closing, sending>>
        /\ cancelled' \in BOOLEAN /\ watched' \subseteq Conns /\ firing' \subseteq Conns
    BY <1>21 DEF Cancel, StartClose
  <2> QED BY <2>1
<1>22. CASE CloseWatched
  BY <1>22 DEF CloseWatched, CloseConn
<1>23. ASSUME NEW c \in Conns, Drop(c) PROVE StateOK' /\ HasConn'
  BY <1>23 DEF Drop
<1>24. CASE UNCHANGED vars
  BY <1>24 DEF vars
<1> QED
  BY <1>1, <1>2, <1>3, <1>4, <1>5, <1>6, <1>7, <1>8, <1>9, <1>10, <1>11, <1>12, <1>13,
     <1>14, <1>15, <1>16, <1>17, <1>18, <1>19, <1>20, <1>21, <1>22, <1>23, <1>24
  DEF Next, Step

LEMMA TypeInvariant == Spec => []TypeInv
<1>1. TypeInv /\ [Next]_vars => TypeInv'
  BY BackoffStep, StateStep DEF TypeInv
<1> QED BY <1>1, TypeInit, PTL DEF Spec

\* Every variable keeps its type; in particular the pause between two attempts
\* never exceeds what nextTCPBackoff and nextBackoff cap it to.
THEOREM TypeCorrect == Spec => []TypeOK
<1>1. TypeInv => TypeOK
  BY DEF TypeInv, StateOK, BackoffOK, TypeOK, Cap
<1> QED BY <1>1, TypeInvariant, PTL
-----------------------------------------------------------------------------
(* The state tells whether there is a connection.                           *)

\* Only what Connect reads from can be client.conn, and only while it reads.
SessionInv ==
  /\ StateMatchesConn
  /\ conn # None => conn = current /\ pc \in {"readTop", "read", "clear"}

\* What writes none of client.conn, client.state and Connect's place.
LEMMA SessionFrame ==
  ASSUME [Next]_vars
  PROVE  \/ UNCHANGED <<conn, state, pc, current>>
         \/ Top \/ SetConnecting \/ SetConn \/ ReadTop \/ ReadFail \/ Clear
         \/ SetDisconnected \/ CloseCurrent \/ Check \/ Retry \/ Awake \/ SleepCancelled
         \/ DialOk \/ DialFail \/ HandshakeOk \/ HandshakeFail \/ Read \/ Close
BY DEF Next, Step, vars, client, loopState, CloseTaken, SendStart, SendLock, SendEnd, Cancel,
       StartClose, CloseWatched, Drop

LEMMA SessionStep == TypeInv /\ SessionInv /\ [Next]_vars => SessionInv'
<1> SUFFICES ASSUME TypeInv, SessionInv, [Next]_vars PROVE SessionInv'
  OBVIOUS
<1> USE DEF SessionInv, StateMatchesConn, None, Goto, ReturnWith, client
<1>1. CASE UNCHANGED <<conn, state, pc, current>>
  BY <1>1
<1>2. CASE Top \/ SetConnecting \/ CloseCurrent \/ SetDisconnected
  BY <1>2 DEF Top, SetConnecting, CloseCurrent, SetDisconnected
<1>3. CASE SetConn
  BY <1>3 DEF SetConn, TypeInv, HasConn, Conns
<1>4. CASE ReadTop \/ ReadFail \/ Read
  BY <1>4 DEF ReadTop, ReadFail, Read
<1>5. CASE Clear
  BY <1>5 DEF Clear
<1>6. CASE Check \/ Retry \/ Awake \/ SleepCancelled
  BY <1>6 DEF Check, Retry, Awake, SleepCancelled
<1>7. CASE DialOk \/ DialFail \/ HandshakeOk \/ HandshakeFail
  BY <1>7 DEF DialOk, DialFail, HandshakeOk, HandshakeFail
<1>8. CASE Close
  BY <1>8 DEF Close, loopState
<1> QED
  BY <1>1, <1>2, <1>3, <1>4, <1>5, <1>6, <1>7, <1>8, SessionFrame

\* State() says connected exactly while Send has a connection to write to.
THEOREM StateTellsConn == Spec => []StateMatchesConn
<1>1. Init => SessionInv
  BY DEF Init, SessionInv, StateMatchesConn
<1>2. SessionInv => StateMatchesConn
  BY DEF SessionInv
<1> QED BY <1>1, <1>2, SessionStep, TypeInvariant, PTL DEF Spec

-----------------------------------------------------------------------------
(* No connection is left open.                                              *)

\* Apart from a dial no step opens a connection; Connect's own steps, closing
\* aside, leave the connections alone.
LEMMA SocketFrame ==
  ASSUME [Next]_vars, TypeInv
  PROVE  \/ /\ UNCHANGED <<current, pc>>
            /\ \A c \in Conns : socket'[c] = "open" => socket[c] = "open"
         \/ /\ UNCHANGED <<current, socket>>
            /\ \/ Top \/ SetConnecting \/ SetConn \/ ReadTop \/ ReadFail \/ Clear
               \/ SetDisconnected \/ Check \/ Retry \/ Awake \/ SleepCancelled
               \/ DialFail \/ HandshakeOk \/ Read
         \/ DialOk \/ HandshakeFail \/ CloseCurrent
<1> USE DEF vars, client, loopState, env, sending
<1>1. CASE CloseTaken \/ CloseWatched
  BY <1>1 DEF CloseTaken, CloseWatched, CloseConn, TypeInv, StateOK
<1>2. ASSUME NEW d \in Conns, Drop(d)
      PROVE  UNCHANGED <<current, pc>>
             /\ \A c \in Conns : socket'[c] = "open" => socket[c] = "open"
  BY <1>2 DEF Drop, TypeInv, StateOK
<1>3. CASE UNCHANGED vars \/ Close \/ SendStart \/ SendLock \/ SendEnd \/ Cancel
           \/ StartClose
  BY <1>3 DEF Close, SendStart, SendLock, SendEnd, Cancel, StartClose
<1>4. CASE \/ Top \/ SetConnecting \/ SetConn \/ ReadTop \/ ReadFail \/ Clear
           \/ SetDisconnected \/ Check \/ Retry \/ Awake \/ SleepCancelled
           \/ DialFail \/ HandshakeOk \/ Read
  BY <1>4 DEF Top, SetConnecting, SetConn, ReadTop, ReadFail, Clear, SetDisconnected, Check,
              Retry, Awake, SleepCancelled, DialFail, HandshakeOk, Read
<1> QED BY <1>1, <1>2, <1>3, <1>4 DEF Next, Step

LEMMA LeakStep == TypeInv /\ NoSocketLeak /\ [Next]_vars => NoSocketLeak'
<1> SUFFICES ASSUME TypeInv, NoSocketLeak, [Next]_vars PROVE NoSocketLeak'
  OBVIOUS
<1>0. /\ current \in Conns \cup {None} /\ None \notin Conns
      /\ socket \in [Conns -> {"unused", "open", "dropped", "closed"}]
  BY DEF TypeInv, StateOK, Conns, None
<1> USE DEF NoSocketLeak, Open
<1>1. CASE /\ UNCHANGED <<current, pc>>
           /\ \A c \in Conns : socket'[c] = "open" => socket[c] = "open"
  BY <1>0, <1>1
<1>2. CASE UNCHANGED <<current, socket>> /\ (Top \/ SetConnecting \/ SetConn \/ Clear
             \/ ReadTop \/ Read \/ HandshakeOk \/ SetDisconnected)
  BY <1>2 DEF Top, SetConnecting, SetConn, Clear, ReadTop, Read, HandshakeOk,
              SetDisconnected, Goto, ReturnWith
<1>3. CASE UNCHANGED <<current, socket>> /\ (ReadFail \/ Check \/ Retry \/ Awake
             \/ SleepCancelled \/ DialFail)
  BY <1>3 DEF ReadFail, Check, Retry, Awake, SleepCancelled, DialFail, Goto, ReturnWith
<1>4. CASE DialOk
  <2>1. \A c \in Conns : socket[c] # "open"
    BY <1>0, <1>4 DEF DialOk
  <2>2. \A c \in Conns : socket'[c] = "open" => c = current'
    BY <1>0, <1>4, <2>1 DEF DialOk
  <2>3. pc' \in {"handshake", "setConn"}
    BY <1>4 DEF DialOk, Goto
  <2> QED BY <2>2, <2>3
<1>5. CASE HandshakeFail \/ CloseCurrent
  <2>1. /\ UNCHANGED current
        /\ socket' = [socket EXCEPT ![current] = "closed"]
    BY <1>5 DEF HandshakeFail, CloseCurrent, CloseConn
  <2>2. \A c \in Conns : socket'[c] # "open"
    BY <1>0, <2>1
  <2> QED BY <1>0, <2>1, <2>2
<1> QED BY <1>1, <1>2, <1>3, <1>4, <1>5, SocketFrame

\* Connect leaks no connection, whoever ended the last one: at most the latest
\* is open, and none is between two of them or after Connect has returned.
THEOREM NoConnectionLeaks == Spec => []NoSocketLeak
<1>1. Init => NoSocketLeak
  BY DEF Init, NoSocketLeak, Open
<1> QED BY <1>1, LeakStep, TypeInvariant, PTL DEF Spec

-----------------------------------------------------------------------------
(* The retry budget.                                                        *)

\* The attempts counted at each place: none while there is a connection, one too
\* many only between counting and the check.
BudgetInv ==
  /\ RetryBudget
  /\ result = "none" <=> pc # "returned"
  /\ pc \in {"readTop", "read", "clear", "disconnected", "close", "check"} => attempt = 0
  /\ MaxRetries > 0 =>
       /\ pc \in {"top", "connecting", "dial", "handshake", "setConn"} =>
            attempt <= MaxRetries
       /\ pc = "retry" => attempt <= MaxRetries + 1

LEMMA BudgetFrame ==
  ASSUME [Next]_vars
  PROVE  \/ /\ UNCHANGED <<pc, attempt, result>>
            /\ (closed => closed') /\ (cancelled => cancelled')
         \/ /\ UNCHANGED <<closed, cancelled>>
            /\ \/ Top \/ SetConnecting \/ SetConn \/ ReadTop \/ ReadFail \/ Clear
               \/ SetDisconnected \/ CloseCurrent \/ Check \/ Retry \/ Awake
               \/ SleepCancelled \/ DialOk \/ DialFail \/ HandshakeOk \/ HandshakeFail
               \/ Read
<1> USE DEF vars, client, loopState, env, sending
<1>1. CASE UNCHANGED vars \/ Close \/ SendStart \/ SendLock \/ SendEnd \/ Cancel
           \/ StartClose \/ CloseTaken \/ CloseWatched
  BY <1>1 DEF Close, SendStart, SendLock, SendEnd, Cancel, StartClose, CloseTaken,
              CloseWatched
<1>2. ASSUME NEW c \in Conns, Drop(c)
      PROVE  UNCHANGED <<pc, attempt, result, closed, cancelled>>
  BY <1>2 DEF Drop
<1>3. CASE \/ Top \/ SetConnecting \/ SetConn \/ ReadTop \/ ReadFail \/ Clear
           \/ SetDisconnected \/ CloseCurrent \/ Check \/ Retry \/ Awake
           \/ SleepCancelled \/ DialOk \/ DialFail \/ HandshakeOk \/ HandshakeFail
           \/ Read
  BY <1>3 DEF Top, SetConnecting, SetConn, ReadTop, ReadFail, Clear, SetDisconnected,
              CloseCurrent, Check, Retry, Awake, SleepCancelled, DialOk, DialFail,
              HandshakeOk, HandshakeFail, Read
<1> QED BY <1>1, <1>2, <1>3 DEF Next, Step

LEMMA BudgetStep == TypeInv /\ BudgetInv /\ [Next]_vars => BudgetInv'
<1> SUFFICES ASSUME TypeInv, BudgetInv, [Next]_vars PROVE BudgetInv'
  OBVIOUS
<1>0. attempt \in Nat /\ MaxRetries \in Int /\ closed \in BOOLEAN /\ cancelled \in BOOLEAN
  BY ReconnectAssumption DEF TypeInv, StateOK
<1> USE <1>0 DEF BudgetInv, RetryBudget, Goto, ReturnWith, OutOfRetries
<1>1. CASE /\ UNCHANGED <<pc, attempt, result>>
           /\ (closed => closed') /\ (cancelled => cancelled')
  BY <1>1
<1>2. CASE UNCHANGED <<closed, cancelled>> /\ Top
  BY <1>2 DEF Top
<1>3. CASE UNCHANGED <<closed, cancelled>> /\ (SetConnecting \/ DialOk \/ HandshakeOk)
  BY <1>3 DEF SetConnecting, DialOk, HandshakeOk
<1>4. CASE UNCHANGED <<closed, cancelled>> /\ (DialFail \/ HandshakeFail)
  BY <1>4 DEF DialFail, HandshakeFail
<1>5. CASE UNCHANGED <<closed, cancelled>> /\ (SetConn \/ ReadTop \/ Read \/ ReadFail)
  BY <1>5 DEF SetConn, ReadTop, Read, ReadFail
<1>6. CASE UNCHANGED <<closed, cancelled>> /\ (Clear \/ SetDisconnected \/ CloseCurrent)
  BY <1>6 DEF Clear, SetDisconnected, CloseCurrent
<1>7. CASE UNCHANGED <<closed, cancelled>> /\ Check
  BY <1>7 DEF Check
<1>8. CASE UNCHANGED <<closed, cancelled>> /\ Retry
  BY <1>8 DEF Retry
<1>9. CASE UNCHANGED <<closed, cancelled>> /\ (Awake \/ SleepCancelled)
  BY <1>9 DEF Awake, SleepCancelled
<1> QED
  BY <1>1, <1>2, <1>3, <1>4, <1>5, <1>6, <1>7, <1>8, <1>9, BudgetFrame

\* Connect succeeds only after Close or the end of the context, fails only with
\* the context or after exactly MaxRetries + 1 failures in a row, and sleeps off
\* no more than MaxRetries of them.
THEOREM RetriesWithinBudget == Spec => []RetryBudget
<1>1. Init => BudgetInv
  BY ReconnectAssumption DEF Init, BudgetInv, RetryBudget
<1>2. BudgetInv => RetryBudget
  BY DEF BudgetInv
<1> QED BY <1>1, <1>2, BudgetStep, TypeInvariant, PTL DEF Spec

-----------------------------------------------------------------------------
(* The schedule of the pauses.                                             *)

\* NextBackoff and Lengthens, of a given growth.
NextOf(g, d) ==
  LET next == IF g[d] <= 0 THEN d ELSE g[d]
  IN  IF next > MaxBackoff THEN MaxBackoff ELSE next

LengthensIn(g) == \A d \in Durations : d > 0 => g[d] >= d \/ g[d] <= 0

\* d is InitialBackoff grown n - 1 times ...
Grown(g, n, d) ==
  \E pause \in [1 .. n -> Durations] :
    /\ pause[1] = InitialBackoff /\ pause[n] = d
    /\ \A k \in 1 .. n - 1 : pause[k + 1] = NextOf(g, pause[k])

\* ... and within the bounds that the configuration gives it.
Bounded(g, n, d) ==
  /\ d \in Durations
  /\ n > 1 => d <= MaxBackoff
  /\ InitialBackoff > 0 /\ MaxBackoff > 0 => d > 0
  /\ LengthensIn(g) /\ 0 < InitialBackoff /\ InitialBackoff <= MaxBackoff
       => d >= InitialBackoff

\* d is the pause due after the n-th failure in a row.
Due(g, n, d) == Grown(g, n, d) /\ Bounded(g, n, d)

LEMMA FirstPause ==
  ASSUME NEW g
  PROVE  Due(g, 1, InitialBackoff)
<1>1. Grown(g, 1, InitialBackoff)
  <2> DEFINE pause == [k \in 1 .. 1 |-> InitialBackoff]
  <2>1. pause \in [1 .. 1 -> Durations] /\ pause[1] = InitialBackoff
    BY DurationsAreIntegers
  <2>2. 1 .. 1 - 1 = {}
    OBVIOUS
  <2> HIDE DEF pause
  <2> QED BY <2>1, <2>2 DEF Grown
<1>2. Bounded(g, 1, InitialBackoff)
  BY DurationsAreIntegers DEF Bounded
<1> QED BY <1>1, <1>2 DEF Due

LEMMA GrownNext ==
  ASSUME NEW g, NEW n \in Nat \ {0}, NEW d, Grown(g, n, d), NextOf(g, d) \in Durations
  PROVE  Grown(g, n + 1, NextOf(g, d))
<1>1. PICK pause \in [1 .. n -> Durations] :
        /\ pause[1] = InitialBackoff /\ pause[n] = d
        /\ \A k \in 1 .. n - 1 : pause[k + 1] = NextOf(g, pause[k])
  BY DEF Grown
<1> DEFINE last == NextOf(g, d)
           longer == [k \in 1 .. n + 1 |-> IF k = n + 1 THEN last ELSE pause[k]]
<1>2. last \in Durations
  OBVIOUS
<1>3. \A k \in 1 .. n : k \in 1 .. n + 1 /\ k # n + 1
  OBVIOUS
<1>4. 1 \in 1 .. n /\ n \in 1 .. n /\ n + 1 \in 1 .. n + 1
  OBVIOUS
<1> HIDE DEF last
<1>5. longer \in [1 .. n + 1 -> Durations]
  <2>1. ASSUME NEW k \in 1 .. n + 1, k # n + 1 PROVE pause[k] \in Durations
    <3>1. k \in 1 .. n
      BY <2>1
    <3> QED BY <3>1
  <2> QED BY <1>2, <2>1
<1>6. (\A k \in 1 .. n : longer[k] = pause[k]) /\ longer[n + 1] = last
  BY <1>3, <1>4
<1> HIDE DEF longer
<1>7. ASSUME NEW k \in 1 .. n PROVE longer[k + 1] = NextOf(g, longer[k])
  <2>1. CASE k = n
    BY <1>1, <1>4, <1>6, <2>1 DEF last
  <2>2. CASE k # n
    <3>1. k \in 1 .. n - 1 /\ k + 1 \in 1 .. n
      BY <2>2
    <3> QED BY <1>1, <1>6, <3>1
  <2> QED BY <2>1, <2>2
<1>8. (n + 1) - 1 = n
  OBVIOUS
<1>9. longer[1] = InitialBackoff /\ longer[n + 1] = last
  BY <1>1, <1>4, <1>6
<1>10. \A k \in 1 .. (n + 1) - 1 : longer[k + 1] = NextOf(g, longer[k])
  BY <1>7, <1>8
<1>11. Grown(g, n + 1, last)
  BY <1>5, <1>9, <1>10 DEF Grown
<1> QED BY <1>11 DEF last

LEMMA BoundedNext ==
  ASSUME NEW g \in Growths, NEW n \in Nat \ {0}, NEW d, Bounded(g, n, d)
  PROVE  Bounded(g, n + 1, NextOf(g, d))
<1> DEFINE next == IF g[d] <= 0 THEN d ELSE g[d]
           e == NextOf(g, d)
<1>1. d \in Durations /\ g[d] \in Durations /\ d \in Int /\ g[d] \in Int
      /\ MaxBackoff \in Int /\ InitialBackoff \in Int
  BY GrowthsAreFunctions, DurationsAreIntegers DEF Bounded
<1>2. next \in Durations /\ next \in Int
  BY <1>1
<1>3. e = IF next > MaxBackoff THEN MaxBackoff ELSE next
  BY DEF NextOf
<1>4. d > 0 => next > 0
  BY <1>1
<1>5. LengthensIn(g) /\ d > 0 => next >= d
  BY <1>1 DEF LengthensIn
<1> HIDE DEF next, e
<1>6. e \in Durations /\ e <= MaxBackoff
  BY <1>1, <1>2, <1>3, DurationsAreIntegers
<1>7. InitialBackoff > 0 /\ MaxBackoff > 0 => e > 0
  BY <1>1, <1>2, <1>3, <1>4 DEF Bounded
<1>8. LengthensIn(g) /\ 0 < InitialBackoff /\ InitialBackoff <= MaxBackoff
        => e >= InitialBackoff
  <2> SUFFICES ASSUME LengthensIn(g), 0 < InitialBackoff, InitialBackoff <= MaxBackoff
               PROVE  e >= InitialBackoff
    OBVIOUS
  <2>1. d >= InitialBackoff
    BY DEF Bounded
  <2>2. next >= InitialBackoff
    BY <1>1, <1>2, <1>5, <2>1
  <2> QED BY <1>1, <1>2, <1>3, <2>2
<1>9. Bounded(g, n + 1, e)
  BY <1>6, <1>7, <1>8 DEF Bounded
<1> QED BY <1>9 DEF e

LEMMA NextPause ==
  ASSUME NEW g \in Growths, NEW n \in Nat \ {0}, NEW d, Due(g, n, d)
  PROVE  Due(g, n + 1, NextOf(g, d))
<1>1. Bounded(g, n + 1, NextOf(g, d))
  BY BoundedNext DEF Due
<1>2. NextOf(g, d) \in Durations
  BY <1>1 DEF Bounded
<1>3. Grown(g, n + 1, NextOf(g, d))
  BY <1>2, GrownNext DEF Due
<1> QED BY <1>1, <1>3 DEF Due

\* Connect has the pause that is due for the failure it has counted, while it has
\* one, and otherwise the one due for the next.
ScheduleInv ==
  /\ pc \in {"top", "connecting", "dial", "handshake", "setConn"}
       => Due(growth, attempt + 1, backoff)
  /\ pc \in {"retry", "sleep"} => attempt > 0 /\ Due(growth, attempt, backoff)
  /\ pc \in {"readTop", "read", "clear", "disconnected", "close", "check"} =>
       attempt = 0 /\ backoff = InitialBackoff

\* Only Connect touches its counters.
LEMMA ScheduleFrame ==
  ASSUME [Next]_vars
  PROVE  /\ UNCHANGED growth
         /\ \/ UNCHANGED <<pc, attempt, backoff>>
            \/ Top \/ SetConnecting \/ SetConn \/ ReadTop \/ ReadFail \/ Clear
            \/ SetDisconnected \/ CloseCurrent \/ Check \/ Retry \/ Awake \/ SleepCancelled
            \/ DialOk \/ DialFail \/ HandshakeOk \/ HandshakeFail \/ Read
<1> USE DEF vars, config, client, loopState, env, sending
<1>1. CASE UNCHANGED vars \/ Close \/ SendStart \/ SendLock \/ SendEnd \/ Cancel
           \/ StartClose \/ CloseTaken \/ CloseWatched
  BY <1>1 DEF Close, SendStart, SendLock, SendEnd, Cancel, StartClose, CloseTaken,
              CloseWatched
<1>2. ASSUME NEW c \in Conns, Drop(c)
      PROVE  UNCHANGED <<growth, pc, attempt, backoff>>
  BY <1>2 DEF Drop
<1>3. CASE \/ Top \/ SetConnecting \/ SetConn \/ ReadTop \/ ReadFail \/ Clear
           \/ SetDisconnected \/ CloseCurrent \/ Check \/ Retry \/ Awake
           \/ SleepCancelled \/ DialOk \/ DialFail \/ HandshakeOk \/ HandshakeFail
           \/ Read
  BY <1>3 DEF Top, SetConnecting, SetConn, ReadTop, ReadFail, Clear, SetDisconnected,
              CloseCurrent, Check, Retry, Awake, SleepCancelled, DialOk, DialFail,
              HandshakeOk, HandshakeFail, Read
<1> QED BY <1>1, <1>2, <1>3 DEF Next, Step

LEMMA ScheduleStep == TypeInv /\ ScheduleInv /\ [Next]_vars => ScheduleInv'
<1> SUFFICES ASSUME TypeInv, ScheduleInv, [Next]_vars PROVE ScheduleInv'
  OBVIOUS
<1>0. attempt \in Nat /\ growth \in Growths /\ growth' = growth
  BY ScheduleFrame DEF TypeInv, StateOK
<1>a. Due(growth, 1, InitialBackoff) /\ 0 + 1 = 1
  BY FirstPause
<1> USE <1>0 DEF ScheduleInv, Goto, ReturnWith
<1>1. CASE UNCHANGED <<pc, attempt, backoff>>
  BY <1>1
<1>2. CASE Top \/ SetConnecting \/ DialOk \/ HandshakeOk
  BY <1>2 DEF Top, SetConnecting, DialOk, HandshakeOk
<1>3. CASE DialFail \/ HandshakeFail
  BY <1>3 DEF DialFail, HandshakeFail
<1>4. CASE SetConn \/ ReadTop \/ Read \/ ReadFail
  BY <1>4 DEF SetConn, ReadTop, Read, ReadFail
<1>5. CASE Clear \/ SetDisconnected \/ CloseCurrent
  BY <1>5 DEF Clear, SetDisconnected, CloseCurrent
<1>6. CASE Check
  BY <1>a, <1>6 DEF Check
<1>7. CASE Retry
  BY <1>7 DEF Retry
<1>8. CASE Awake
  <2>1. attempt \in Nat \ {0} /\ Due(growth, attempt, backoff)
    BY <1>8 DEF Awake
  <2>2. Due(growth, attempt + 1, NextOf(growth, backoff))
    BY <1>0, <2>1, NextPause
  <2>3. backoff' = NextOf(growth, backoff)
    BY <1>8 DEF Awake, NextBackoff, NextOf
  <2> QED BY <1>8, <2>2, <2>3 DEF Awake
<1>9. CASE SleepCancelled
  BY <1>9 DEF SleepCancelled
<1> QED
  BY <1>1, <1>2, <1>3, <1>4, <1>5, <1>6, <1>7, <1>8, <1>9, ScheduleFrame

\* The pauses between failures in a row are InitialBackoff and what NextBackoff
\* makes of it, and start afresh after every connection; from the second on they
\* keep to the cap; and with a positive configuration none is skipped.  The
\* multiplier is arbitrary, and where it is at least 1 no pause is below the first.
THEOREM PausesFollowSchedule == Spec => []BackoffSchedule
<1>1. Init => ScheduleInv
  <2>1. Due(growth, 1, InitialBackoff) /\ 0 + 1 = 1
    BY FirstPause
  <2> QED BY <2>1 DEF Init, ScheduleInv
<1>2. ScheduleInv => BackoffSchedule
  <2> SUFFICES ASSUME ScheduleInv, pc = "sleep" PROVE BackoffSchedule
    BY DEF BackoffSchedule
  <2>1. Due(growth, attempt, backoff)
    BY DEF ScheduleInv
  <2>2. \A d : NextBackoff(d) = NextOf(growth, d)
    BY DEF NextBackoff, NextOf
  <2>3. Lengthens <=> LengthensIn(growth)
    BY DEF Lengthens, LengthensIn
  <2> HIDE DEF NextBackoff
  <2>4. \E pause \in [1 .. attempt -> Durations] :
          /\ pause[1] = InitialBackoff /\ pause[attempt] = backoff
          /\ \A n \in 1 .. attempt - 1 : pause[n + 1] = NextBackoff(pause[n])
    BY <2>1, <2>2 DEF Due, Grown
  <2> QED BY <2>1, <2>3, <2>4 DEF Due, Bounded, BackoffSchedule
<1> QED BY <1>1, <1>2, ScheduleStep, TypeInvariant, PTL DEF Spec
=============================================================================
