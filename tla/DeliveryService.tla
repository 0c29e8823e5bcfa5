-------------------------- MODULE DeliveryService --------------------------
(***************************************************************************)
(* What stream.Hub (src/go/hub.go) promises about frames, through whatever *)
(* queues and goroutines they travel: a call that meets a running hub and  *)
(* somebody who wants its frame is taken in; its turn comes once, in the   *)
(* order of its sender's calls unless the hub had to put it off; and then  *)
(* the handlers that want it and are subscribed at that moment are called, *)
(* each once, before another frame has its turn.  Peers get a frame or     *)
(* miss it.  Only a hub that has been stopped gives up frames, and only    *)
(* those that it had put off.                                              *)
(*                                                                         *)
(* HubDelivery is shown to implement this in HubDeliveryRefinement.        *)
(***************************************************************************)
EXTENDS Naturals, Sequences

CONSTANTS Callers, Peers, Handlers, Channels, Wildcard, NoChannel, HandlerOf, PeerChannels

VARIABLES
  open,          \* the hub runs
  halting,       \* it stopped running and has yet to tell its goroutines
  stopped,       \* it has told them, once and for all
  members,       \* the peers it has
  subscribed,    \* the handlers it has
  unsubscribed,  \* those that it had
  sent,          \* calls of Publish and Broadcast so far; a frame is its number
  calling,       \* the message that a caller is busy with, if any
  waiting,       \* what was taken in: [caller, message, prompt]
  current,       \* the frame whose turn it is
  audience,      \* handlers still to be called with it
  owed,          \* the <<frame, peer>> pairs still to be sent
  log,           \* frames a handler was called with
  got            \* frames a peer was sent

hub == <<open, halting, stopped, members, subscribed, unsubscribed>>
turn == <<current, audience>>
frames == <<turn, sent, calling, waiting, owed, log, got>>
state == <<hub, frames>>

Messages == [kind : {"publish", "broadcast"}, frame : {sent + 1},
             channel : Channels \cup {NoChannel}, notify : BOOLEAN]

\* A handler of a channel, or of all of them, or a tap on one kind of call.
Wants(h, m) ==
  \/ /\ HandlerOf[h].kind = "channel"
     /\ \/ HandlerOf[h].channel = Wildcard
        \/ m.kind = "publish" /\ HandlerOf[h].channel = m.channel
  \/ m.notify /\ HandlerOf[h].kind = IF m.kind = "publish" THEN "published" ELSE "broadcast"

Listeners(m) == {h \in subscribed : Wants(h, m)}
Followers(m) == {p \in members : {m.channel, Wildcard} \cap PeerChannels[p] # {}}

To(f, ps) == {<<f, p>> : p \in ps}
Owing(f) == \E p \in Peers : <<f, p>> \in owed

\* The turn of the current frame is over.
Free == audience = {} /\ ~Owing(current)

Init ==
  /\ open = FALSE /\ halting = FALSE /\ stopped = FALSE
  /\ members \subseteq Peers /\ subscribed = {} /\ unsubscribed = {}
  /\ sent = 0 /\ calling = [c \in Callers |-> {}] /\ waiting = {}
  /\ current = 0 /\ audience = {} /\ owed = {}
  /\ log = [h \in Handlers |-> << >>] /\ got = [p \in Peers |-> << >>]

-----------------------------------------------------------------------------
(* Calls.                                                                   *)

Unwanted(m) == m.kind = "publish" /\ Followers(m) = {} /\ Listeners(m) = {}

Refuse(m) ==
  /\ ~open \/ Unwanted(m)
  /\ sent' = sent + 1
  /\ UNCHANGED <<hub, turn, calling, waiting, owed, log, got>>

\* A published frame is sent to the peers at once, a broadcast when its turn comes.
Offer(c, m) ==
  /\ open /\ ~Unwanted(m)
  /\ calling[c] = {}
  /\ sent' = sent + 1
  /\ calling' = [calling EXCEPT ![c] = {m}]
  /\ owed' = owed \cup IF m.kind = "publish" THEN To(m.frame, Followers(m)) ELSE {}
  /\ UNCHANGED <<hub, turn, waiting, log, got>>

\* The hub has taken the frame in, promptly or not, and the call returns.
Accept(c) ==
  /\ \E m \in calling[c], prompt \in BOOLEAN :
       /\ ~Owing(m.frame)
       /\ waiting' = waiting \cup {[caller |-> c, message |-> m, prompt |-> prompt]}
  /\ calling' = [calling EXCEPT ![c] = {}]
  /\ UNCHANGED <<hub, turn, sent, owed, log, got>>

\* Peer p gets frame f, or has no room for it or is closed.
SendTo(f, p) ==
  /\ <<f, p>> \in owed
  /\ owed' = owed \ {<<f, p>>}
  /\ got' = got \/ got' = [got EXCEPT ![p] = Append(@, f)]
  /\ UNCHANGED <<hub, turn, sent, calling, waiting, log>>

-----------------------------------------------------------------------------
(* Turns.                                                                   *)

\* No frame that its sender sent before w is overtaken, those put off excepted.
InTurn(w) ==
  w.prompt => \A v \in waiting :
    v.prompt /\ v.caller = w.caller /\ v.message.kind = w.message.kind
      => w.message.frame <= v.message.frame

Take(w) ==
  /\ open /\ Free /\ w \in waiting /\ InTurn(w)
  /\ waiting' = waiting \ {w}
  /\ current' = w.message.frame /\ audience' = Listeners(w.message)
  /\ owed' = owed \cup IF w.message.kind = "broadcast" THEN To(w.message.frame, members) ELSE {}
  /\ UNCHANGED <<hub, sent, calling, log, got>>

\* Handlers are called when the peers have been served.
Call(h) ==
  /\ h \in audience /\ ~Owing(current)
  /\ audience' = audience \ {h}
  /\ log' = [log EXCEPT ![h] = Append(@, current)]
  /\ UNCHANGED <<hub, current, sent, calling, waiting, owed, got>>

GiveUp(w) ==
  /\ stopped /\ w \in waiting /\ ~w.prompt
  /\ waiting' = waiting \ {w}
  /\ UNCHANGED <<hub, turn, sent, calling, owed, log, got>>

-----------------------------------------------------------------------------
(* Handlers, peers and the hub itself.                                      *)

Subscribe(h) ==
  /\ h \notin subscribed \cup unsubscribed
  /\ subscribed' = subscribed \cup {h}
  /\ UNCHANGED <<open, halting, stopped, members, unsubscribed>>
  /\ UNCHANGED frames

\* A handler that the current frame is for is called all the same.
Unsubscribe(h) ==
  /\ h \in subscribed
  /\ subscribed' = subscribed \ {h} /\ unsubscribed' = unsubscribed \cup {h}
  /\ UNCHANGED <<open, halting, stopped, members>>
  /\ UNCHANGED frames

Leave(p) ==
  /\ p \in members
  /\ members' = members \ {p}
  /\ UNCHANGED <<open, halting, stopped, subscribed, unsubscribed>>
  /\ UNCHANGED frames

Open ==
  /\ ~open
  /\ open' = TRUE
  /\ UNCHANGED <<halting, stopped, members, subscribed, unsubscribed>>
  /\ UNCHANGED frames

\* The current frame's turn is not cut short.
Halt ==
  /\ open /\ Free
  /\ open' = FALSE /\ halting' = TRUE
  /\ UNCHANGED <<stopped, members, subscribed, unsubscribed>>
  /\ UNCHANGED frames

Finish ==
  /\ halting
  /\ halting' = FALSE /\ stopped' = TRUE
  /\ UNCHANGED <<open, members, subscribed, unsubscribed>>
  /\ UNCHANGED frames

Next ==
  \/ \E m \in Messages : Refuse(m) \/ \E c \in Callers : Offer(c, m)
  \/ \E c \in Callers : Accept(c)
  \/ \E f \in 1 .. sent, p \in Peers : SendTo(f, p)
  \/ \E w \in waiting : Take(w) \/ GiveUp(w)
  \/ \E h \in Handlers : Call(h) \/ Subscribe(h) \/ Unsubscribe(h)
  \/ \E p \in Peers : Leave(p)
  \/ Open \/ Halt \/ Finish

Spec == Init /\ [][Next]_state

=============================================================================
