------------------------------ MODULE HubPeers ------------------------------
(***************************************************************************)
(* The peer registry of stream.Hub (src/go/hub.go): Run's event loop and   *)
(* its deferred shutdown, AddPeer / RemovePeer with their register and     *)
(* unregister queues, SubscribePeer / UnsubscribePeer, and the internal    *)
(* addPeer / removePeer that the loop and the callers share.               *)
(*                                                                         *)
(* Agents are goroutines.  A section of code under hub.mutex is one step,  *)
(* and so is one channel operation; pc[a] is the place of agent a between  *)
(* two of them and arg[a] the peer it is working on.                       *)
(*                                                                         *)
(* Left out: frames, handlers and the two delivery queues (HubDelivery),   *)
(* nil receivers and empty channel names, which return before any state    *)
(* changes, and panics of the OnConnect / OnDisconnect hooks.              *)
(*                                                                         *)
(* A definition named Mut_... is a plausible bug in the definition that    *)
(* follows it; no specification uses it, PROJECT.json names the property   *)
(* that catches it.                                                        *)
(***************************************************************************)
EXTENDS Naturals, Sequences, FiniteSets

CONSTANTS
  Peers,       \* *Peer values
  NoPeer,      \* "no peer": the arg of an agent that works on none
  Channels,    \* channel names, the wildcard among them
  Wildcard,    \* the channel "*"
  Authorised,  \* ChannelAuthoriser: the <<peer, channel>> pairs it accepts
  Callers,     \* goroutines that call the hub's exported methods
  Runners,     \* goroutines that call Run, each with a context of its own
  QueueCap,    \* capacity of register and of unregister (256 in the code)
  MaxCalls     \* bound: AddPeer calls, and RemovePeer calls, for one peer

Agents == Callers \cup Runners

ASSUME HubPeersAssumption ==
  /\ NoPeer \notin Peers
  /\ Wildcard \in Channels
  /\ Authorised \subseteq Peers \X Channels
  /\ Callers \cap Runners = {}
  /\ QueueCap \in Nat \ {0}
  /\ MaxCalls \in Nat

VARIABLES
  running,        \* hub.running
  peers,          \* the keys of hub.peers
  channels,       \* hub.channels: its domain is the set of existing entries
  register,       \* hub.register, oldest first
  unregister,     \* hub.unregister, oldest first
  done,           \* hub.done is closed
  subscriptions,  \* peer.subscriptions
  closed,         \* peers whose Close has run: send closed, hook taken
  phase,          \* how far a Runner is in Run
  cancelled,      \* Runners whose context is cancelled
  drain,          \* what is left of the deferred function's list of peers
  pc,             \* place of an agent inside the operation it performs
  arg,            \* the peer of that operation
  \* History, read by no guard but the bounds on adds and removes.
  adds,           \* AddPeer calls made for a peer
  removes,        \* RemovePeer calls made for a peer
  connects,       \* OnConnect calls made for a peer
  disconnects,    \* OnDisconnect calls made for a peer
  lastCall,       \* the latest exported method called for a peer
  snapshot        \* the whole list of peers the deferred function took

registry == <<peers, channels, subscriptions>>
queues == <<register, unregister>>
runState == <<running, done, phase, cancelled, drain, snapshot>>
calls == <<adds, removes, lastCall>>
hooks == <<connects, disconnects>>
vars == <<registry, queues, runState, calls, hooks, closed, pc, arg>>

Places == {"idle", "register", "addPeer", "onConnect",
           "unregister", "removePeer", "close", "onDisconnect"}
Phases == {"new", "looping", "draining", "returned"}

-----------------------------------------------------------------------------
(* Helpers.                                                                 *)

\* Agent a moves to place l of an operation on peer p.
Goto(a, l, p) ==
  /\ pc' = [pc EXCEPT ![a] = l]
  /\ arg' = [arg EXCEPT ![a] = p]

\* Agent a's operation returns.
Return(a) == Goto(a, "idle", NoPeer)

At(a, l) == pc[a] = l

\* Read by a publisher: an absent key of a Go map is the empty set.
Subscribers(ch) == IF ch \in DOMAIN channels THEN channels[ch] ELSE {}

\* Mutant: an entry that becomes empty stays in hub.channels.
Mut_ChannelsWithout(p, cs) ==
  [ch \in DOMAIN channels |-> IF ch \in cs THEN channels[ch] \ {p} ELSE channels[ch]]

\* delete(peers, peer) for the entries in cs, and delete(hub.channels, ch)
\* for those that become empty.
ChannelsWithout(p, cs) ==
  LET left(ch) == IF ch \in cs THEN channels[ch] \ {p} ELSE channels[ch]
  IN  [ch \in {c \in DOMAIN channels : c \in cs => left(c) # {}} |-> left(ch)]

\* Whether SubscribePeer may go on; "*" is not put to the authoriser.
MaySubscribe(p, ch) == ch = Wildcard \/ <<p, ch>> \in Authorised

Init ==
  /\ running = FALSE
  /\ peers = {}
  /\ channels = [ch \in {} |-> {}]
  /\ register = << >>
  /\ unregister = << >>
  /\ done = FALSE
  /\ subscriptions = [p \in Peers |-> {}]
  /\ closed = {}
  /\ phase = [r \in Runners |-> "new"]
  /\ cancelled = {}
  /\ drain = [r \in Runners |-> {}]
  /\ pc = [a \in Agents |-> "idle"]
  /\ arg = [a \in Agents |-> NoPeer]
  /\ adds = [p \in Peers |-> 0]
  /\ removes = [p \in Peers |-> 0]
  /\ connects = [p \in Peers |-> 0]
  /\ disconnects = [p \in Peers |-> 0]
  /\ lastCall = [p \in Peers |-> "none"]
  /\ snapshot = [r \in Runners |-> {}]

-----------------------------------------------------------------------------
(* AddPeer and RemovePeer: read running, then offer the peer to the queue,  *)
(* then fall back to doing the loop's work in the calling goroutine.        *)

AddPeer(c, p) ==
  /\ At(c, "idle")
  /\ adds[p] < MaxCalls
  /\ Goto(c, IF running THEN "register" ELSE "addPeer", p)
  /\ adds' = [adds EXCEPT ![p] = @ + 1]
  /\ lastCall' = [lastCall EXCEPT ![p] = "AddPeer"]
  /\ UNCHANGED <<registry, queues, runState, removes, hooks, closed>>

\* case hub.register <- peer
QueueRegister(c) ==
  /\ At(c, "register")
  /\ Len(register) < QueueCap
  /\ register' = Append(register, arg[c])
  /\ Return(c)
  /\ UNCHANGED <<registry, unregister, runState, calls, hooks, closed>>

\* Mutant: a full queue drops the peer.
Mut_RegisterFullDrops(c) ==
  /\ At(c, "register")
  /\ Len(register) = QueueCap
  /\ Return(c)
  /\ UNCHANGED <<registry, queues, runState, calls, hooks, closed>>

\* default
RegisterFull(c) ==
  /\ At(c, "register")
  /\ Len(register) = QueueCap
  /\ Goto(c, "addPeer", arg[c])
  /\ UNCHANGED <<registry, queues, runState, calls, hooks, closed>>

RemovePeer(c, p) ==
  /\ At(c, "idle")
  /\ removes[p] < MaxCalls
  /\ Goto(c, IF running THEN "unregister" ELSE "removePeer", p)
  /\ removes' = [removes EXCEPT ![p] = @ + 1]
  /\ lastCall' = [lastCall EXCEPT ![p] = "RemovePeer"]
  /\ UNCHANGED <<registry, queues, runState, adds, hooks, closed>>

\* case hub.unregister <- peer
QueueUnregister(c) ==
  /\ At(c, "unregister")
  /\ Len(unregister) < QueueCap
  /\ unregister' = Append(unregister, arg[c])
  /\ Return(c)
  /\ UNCHANGED <<registry, register, runState, calls, hooks, closed>>

\* default
UnregisterFull(c) ==
  /\ At(c, "unregister")
  /\ Len(unregister) = QueueCap
  /\ Goto(c, "removePeer", arg[c])
  /\ UNCHANGED <<registry, queues, runState, calls, hooks, closed>>

-----------------------------------------------------------------------------
(* addPeer and removePeer, in whichever goroutine reached them.             *)

addPeer(a) ==
  /\ At(a, "addPeer")
  /\ \/ /\ arg[a] \in peers
        /\ Return(a)
        /\ UNCHANGED peers
     \/ /\ arg[a] \notin peers
        /\ peers' = peers \cup {arg[a]}
        /\ Goto(a, "onConnect", arg[a])
  /\ UNCHANGED <<channels, subscriptions, queues, runState, calls, hooks, closed>>

\* onConnect(peer), after the mutex is released
OnConnect(a) ==
  /\ At(a, "onConnect")
  /\ connects' = [connects EXCEPT ![arg[a]] = @ + 1]
  /\ Return(a)
  /\ UNCHANGED <<registry, queues, runState, calls, disconnects, closed>>

\* Mutant: no early return for a peer that is not, or no longer, registered.
Mut_removePeerUnchecked(a) ==
  /\ At(a, "removePeer")
  /\ peers' = peers \ {arg[a]}
  /\ channels' = ChannelsWithout(arg[a], DOMAIN channels)
  /\ subscriptions' = [subscriptions EXCEPT ![arg[a]] = {}]
  /\ Goto(a, "close", arg[a])
  /\ UNCHANGED <<queues, runState, calls, hooks, closed>>

\* Mutant: peer.subscriptions is not reset.
Mut_removePeerKeepsSubscriptions(a) ==
  /\ At(a, "removePeer")
  /\ \/ arg[a] \notin peers /\ Return(a) /\ UNCHANGED registry
     \/ /\ arg[a] \in peers
        /\ peers' = peers \ {arg[a]}
        /\ channels' = ChannelsWithout(arg[a], DOMAIN channels)
        /\ UNCHANGED subscriptions
        /\ Goto(a, "close", arg[a])
  /\ UNCHANGED <<queues, runState, calls, hooks, closed>>

\* Mutant: the wildcard's entry is passed over.
Mut_removePeerKeepsWildcard(a) ==
  /\ At(a, "removePeer")
  /\ \/ arg[a] \notin peers /\ Return(a) /\ UNCHANGED registry
     \/ /\ arg[a] \in peers
        /\ peers' = peers \ {arg[a]}
        /\ channels' = ChannelsWithout(arg[a], DOMAIN channels \ {Wildcard})
        /\ subscriptions' = [subscriptions EXCEPT ![arg[a]] = {}]
        /\ Goto(a, "close", arg[a])
  /\ UNCHANGED <<queues, runState, calls, hooks, closed>>

removePeer(a) ==
  /\ At(a, "removePeer")
  /\ \/ /\ arg[a] \notin peers
        /\ Return(a)
        /\ UNCHANGED registry
     \/ /\ arg[a] \in peers
        /\ peers' = peers \ {arg[a]}
        /\ channels' = ChannelsWithout(arg[a], DOMAIN channels)
        /\ subscriptions' = [subscriptions EXCEPT ![arg[a]] = {}]
        /\ Goto(a, "close", arg[a])
  /\ UNCHANGED <<queues, runState, calls, hooks, closed>>

\* peer.Close(), after the mutex is released; closeOnce makes it idempotent
Close(a) ==
  /\ At(a, "close")
  /\ closed' = closed \cup {arg[a]}
  /\ Goto(a, "onDisconnect", arg[a])
  /\ UNCHANGED <<registry, queues, runState, calls, hooks>>

OnDisconnect(a) ==
  /\ At(a, "onDisconnect")
  /\ disconnects' = [disconnects EXCEPT ![arg[a]] = @ + 1]
  /\ Return(a)
  /\ UNCHANGED <<registry, queues, runState, calls, connects, closed>>

-----------------------------------------------------------------------------
(* The other exported methods that write the registry: each is one section  *)
(* under hub.mutex.                                                         *)

SubscribePeer(c, p, ch) ==
  /\ At(c, "idle")
  /\ MaySubscribe(p, ch)
  /\ subscriptions' = [subscriptions EXCEPT ![p] = @ \cup {ch}]
  /\ channels' = [x \in DOMAIN channels \cup {ch} |->
                    IF x = ch THEN Subscribers(ch) \cup {p} ELSE channels[x]]
  /\ lastCall' = [lastCall EXCEPT ![p] = "SubscribePeer"]
  /\ UNCHANGED <<peers, queues, runState, adds, removes, hooks, closed, pc, arg>>

UnsubscribePeer(c, p, ch) ==
  /\ At(c, "idle")
  /\ subscriptions' = [subscriptions EXCEPT ![p] = @ \ {ch}]
  /\ channels' = ChannelsWithout(p, {ch})
  /\ UNCHANGED <<peers, queues, runState, calls, hooks, closed, pc, arg>>

\* Peer.Close called by an adapter, as the WebSocket handler does on its way
\* out, before its deferred RemovePeer.
PeerClose(c, p) ==
  /\ At(c, "idle")
  /\ closed' = closed \cup {p}
  /\ UNCHANGED <<registry, queues, runState, calls, hooks, pc, arg>>

-----------------------------------------------------------------------------
(* Run.                                                                     *)

\* Mutant: a second Run enters the loop too.
Mut_Run(r) ==
  /\ phase[r] = "new"
  /\ phase' = [phase EXCEPT ![r] = "looping"]
  /\ running' = TRUE
  /\ UNCHANGED <<done, cancelled, drain, snapshot>>
  /\ UNCHANGED <<registry, queues, calls, hooks, closed, pc, arg>>

\* The running check; a second Run is a no-op.
Run(r) ==
  /\ phase[r] = "new"
  /\ phase' = [phase EXCEPT ![r] = IF running THEN "returned" ELSE "looping"]
  /\ running' = TRUE
  /\ UNCHANGED <<done, cancelled, drain, snapshot>>
  /\ UNCHANGED <<registry, queues, calls, hooks, closed, pc, arg>>

\* The caller of Run cancels its context.
Cancel(r) ==
  /\ r \notin cancelled
  /\ cancelled' = cancelled \cup {r}
  /\ UNCHANGED <<running, done, phase, drain, snapshot>>
  /\ UNCHANGED <<registry, queues, calls, hooks, closed, pc, arg>>

\* Runner r is at the select: its loop is on and no case is being served.
Selecting(r) == phase[r] = "looping" /\ At(r, "idle")

\* case peer := <-hub.register
ServeRegister(r) ==
  /\ Selecting(r)
  /\ register # << >>
  /\ register' = Tail(register)
  /\ Goto(r, "addPeer", Head(register))
  /\ UNCHANGED <<registry, unregister, runState, calls, hooks, closed>>

\* case peer := <-hub.unregister
ServeUnregister(r) ==
  /\ Selecting(r)
  /\ unregister # << >>
  /\ unregister' = Tail(unregister)
  /\ Goto(r, "removePeer", Head(unregister))
  /\ UNCHANGED <<registry, register, runState, calls, hooks, closed>>

\* case <-ctx.Done(), and the deferred function's section under hub.mutex
StopLoop(r) ==
  /\ Selecting(r)
  /\ r \in cancelled
  /\ running' = FALSE
  /\ phase' = [phase EXCEPT ![r] = "draining"]
  /\ drain' = [drain EXCEPT ![r] = peers]
  /\ snapshot' = [snapshot EXCEPT ![r] = peers]
  /\ UNCHANGED <<done, cancelled>>
  /\ UNCHANGED <<registry, queues, calls, hooks, closed, pc, arg>>

\* for _, peer := range peers { hub.removePeer(peer) }
DrainPeer(r) ==
  /\ phase[r] = "draining"
  /\ At(r, "idle")
  /\ \E p \in drain[r] :
       /\ drain' = [drain EXCEPT ![r] = @ \ {p}]
       /\ Goto(r, "removePeer", p)
  /\ UNCHANGED <<running, done, phase, cancelled, snapshot>>
  /\ UNCHANGED <<registry, queues, calls, hooks, closed>>

\* Mutant: Run returns before its list is worked off.
Mut_FinishRunEarly(r) ==
  /\ phase[r] = "draining"
  /\ At(r, "idle")
  /\ done' = TRUE
  /\ phase' = [phase EXCEPT ![r] = "returned"]
  /\ UNCHANGED <<running, cancelled, drain, snapshot>>
  /\ UNCHANGED <<registry, queues, calls, hooks, closed, pc, arg>>

\* Mutant: Run waits for the registry to be empty.
Mut_FinishRunWaits(r) ==
  /\ phase[r] = "draining"
  /\ At(r, "idle")
  /\ drain[r] = {} /\ peers = {}
  /\ done' = TRUE
  /\ phase' = [phase EXCEPT ![r] = "returned"]
  /\ UNCHANGED <<running, cancelled, drain, snapshot>>
  /\ UNCHANGED <<registry, queues, calls, hooks, closed, pc, arg>>

\* doneOnce.Do(close(hub.done)), and Run returns
FinishRun(r) ==
  /\ phase[r] = "draining"
  /\ At(r, "idle")
  /\ drain[r] = {}
  /\ done' = TRUE
  /\ phase' = [phase EXCEPT ![r] = "returned"]
  /\ UNCHANGED <<running, cancelled, drain, snapshot>>
  /\ UNCHANGED <<registry, queues, calls, hooks, closed, pc, arg>>

-----------------------------------------------------------------------------

\* The next step of an operation that agent a has begun.
Continue(a) ==
  \/ QueueRegister(a) \/ RegisterFull(a)
  \/ QueueUnregister(a) \/ UnregisterFull(a)
  \/ addPeer(a) \/ OnConnect(a)
  \/ removePeer(a) \/ Close(a) \/ OnDisconnect(a)

Call(c) ==
  \E p \in Peers :
    \/ AddPeer(c, p)
    \/ RemovePeer(c, p)
    \/ PeerClose(c, p)
    \/ \E ch \in Channels : SubscribePeer(c, p, ch) \/ UnsubscribePeer(c, p, ch)

RunnerStep(r) ==
  \/ Run(r) \/ Cancel(r)
  \/ ServeRegister(r) \/ ServeUnregister(r)
  \/ StopLoop(r) \/ DrainPeer(r) \/ FinishRun(r)

Next ==
  \/ \E c \in Callers : Call(c)
  \/ \E r \in Runners : RunnerStep(r)
  \/ \E a \in Agents : Continue(a)

Spec == Init /\ [][Next]_vars

\* A goroutine that can run does; and since Go's select picks uniformly among
\* the ready cases, a case that is ready again and again is picked.
Fairness ==
  /\ \A a \in Agents : WF_vars(Continue(a))
  /\ \A r \in Runners :
       /\ WF_vars(DrainPeer(r)) /\ WF_vars(FinishRun(r))
       /\ SF_vars(ServeRegister(r))
       /\ SF_vars(ServeUnregister(r))
       /\ SF_vars(StopLoop(r))

FairSpec == Spec /\ Fairness

-----------------------------------------------------------------------------
(* Properties.                                                              *)

\* Every variable has its type; queues hold at most QueueCap peers, and an
\* agent has a peer exactly when it is inside an operation.
TypeOK ==
  /\ running \in BOOLEAN /\ done \in BOOLEAN
  /\ peers \subseteq Peers /\ closed \subseteq Peers
  /\ DOMAIN channels \subseteq Channels
  /\ \A ch \in DOMAIN channels : channels[ch] \subseteq Peers
  /\ register \in Seq(Peers) /\ Len(register) <= QueueCap
  /\ unregister \in Seq(Peers) /\ Len(unregister) <= QueueCap
  /\ subscriptions \in [Peers -> SUBSET Channels]
  /\ phase \in [Runners -> Phases] /\ cancelled \subseteq Runners
  /\ drain \in [Runners -> SUBSET Peers]
  /\ snapshot \in [Runners -> SUBSET Peers]
  /\ pc \in [Agents -> Places] /\ arg \in [Agents -> Peers \cup {NoPeer}]
  /\ \A a \in Agents : arg[a] = NoPeer <=> pc[a] = "idle"
  /\ adds \in [Peers -> 0 .. MaxCalls] /\ removes \in [Peers -> 0 .. MaxCalls]
  /\ connects \in [Peers -> Nat] /\ disconnects \in [Peers -> Nat]
  /\ lastCall \in [Peers -> {"none", "AddPeer", "RemovePeer", "SubscribePeer"}]

\* hub.channels and peer.subscriptions, written under two mutexes by three
\* methods, always agree: each is the inverse of the other.
SubscriptionMirror ==
  \A p \in Peers, ch \in Channels :
    p \in Subscribers(ch) <=> ch \in subscriptions[p]

\* A channel without peers has no entry left in hub.channels, so that what
\* AllChannels, ChannelCount and Stats read is not littered by dead names.
NoEmptyChannel == \A ch \in DOMAIN channels : channels[ch] # {}

\* hub.running is true exactly while one goroutine is in the event loop, and
\* it is never two, whatever calls of Run overlap or follow each other.
OneEventLoop ==
  /\ running <=> \E r \in Runners : phase[r] = "looping"
  /\ \A r, s \in Runners :
       phase[r] = "looping" /\ phase[s] = "looping" => r = s

\* Agents that are at one of the places ls with peer p in hand.
Working(p, ls) == {a \in Agents : pc[a] \in ls /\ arg[a] = p}

\* Hooks are called once per change of the registry: OnConnect calls, done or
\* about to be, exceed OnDisconnect calls by one exactly for the registered
\* peers, however addPeer and removePeer of the loop, of the callers and of
\* the deferred shutdown interleave.
HookAccounting ==
  \A p \in Peers :
    connects[p] + Cardinality(Working(p, {"onConnect"}))
      = disconnects[p] + Cardinality(Working(p, {"close", "onDisconnect"}))
          + (IF p \in peers THEN 1 ELSE 0)

\* OnDisconnect is only called for a peer whose send queue is closed.
ClosedBeforeDisconnect ==
  \A p \in Peers :
    \/ p \in closed
    \/ disconnects[p] = 0 /\ Working(p, {"onDisconnect"}) = {}

\* When Run returns, every peer that was registered when its context ended is
\* closed, or a concurrent RemovePeer took it over and is about to close it.
ShutdownCloses ==
  \A r \in Runners : phase[r] = "returned" =>
    \A p \in snapshot[r] : p \in closed \/ Working(p, {"close"}) # {}

\* A step that takes a peer out of hub.peers leaves no channel that would
\* still send to it.
RemovalIsComplete ==
  [][\A p \in Peers : p \in peers /\ p \notin peers' =>
       \A ch \in DOMAIN channels' : p \notin channels'[ch]]_vars

\* Nothing is in flight: no operation has begun, no shutdown is draining,
\* and a hub that runs has served its register and unregister queues.
Settled ==
  /\ \A a \in Agents : At(a, "idle")
  /\ \A r \in Runners : phase[r] # "draining"
  /\ running => register = << >> /\ unregister = << >>

\* A running hub loses no peer: one that was added, that nobody asked to
\* remove and that no shutdown listed is in the registry once things settle.
AddedPeersStay ==
  Settled /\ running =>
    \A p \in Peers :
      adds[p] > 0 /\ removes[p] = 0 /\ (\A r \in Runners : p \notin snapshot[r])
        => p \in peers

\* Run returns once its context has ended, whatever peers come and go.
ShutdownCompletes ==
  \A r \in Runners :
    phase[r] = "looping" /\ r \in cancelled ~> phase[r] = "returned"

\* Stats and PeerCount count "the number of currently connected peers": with
\* nothing in flight, a peer that RemovePeer was last called for is not one.
RemovedPeerIsGone ==
  Settled => \A p \in Peers : lastCall[p] = "RemovePeer" => p \notin peers

=============================================================================
