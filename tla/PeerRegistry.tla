---------------------------- MODULE PeerRegistry ----------------------------
(***************************************************************************)
(* What stream.Hub (src/go/hub.go) promises about its peers, whoever does  *)
(* the work and through whatever queues a request travels: an invited peer *)
(* joins, a peer asked to leave leaves in one step with all it follows,    *)
(* and whoever changed the membership owes the peer its hook, the one for  *)
(* leaving only after the peer is closed.                                  *)
(*                                                                         *)
(* There are no queues here, no mutex and no program counters; HubPeers is *)
(* shown to implement this specification in HubPeersRefinement.            *)
(***************************************************************************)

CONSTANTS
  Peers,      \* the peers
  Workers,    \* the goroutines
  Permitted   \* the <<peer, channel>> pairs that may be followed

VARIABLES
  open,     \* the hub runs
  members,  \* peers that have joined and not left
  follows,  \* the <<peer, channel>> pairs that a publisher sends to
  invited,  \* peers somebody has added
  asked,    \* peers somebody has removed, and those a shutdown has listed
  closed,   \* peers that are closed
  owed      \* what workers still have to do: <<worker, peer, duty>>

state == <<open, members, follows, invited, asked, closed, owed>>

Duties == {"onConnect", "close", "onDisconnect"}

\* A worker that owes something does that first.
Free(w) == \A p \in Peers, d \in Duties : <<w, p, d>> \notin owed

\* Worker w has done what it owed and owes what is in next.
Pay(w, p, duty, next) ==
  /\ <<w, p, duty>> \in owed
  /\ owed' = (owed \ {<<w, p, duty>>}) \cup next

Init ==
  /\ open = FALSE
  /\ members = {} /\ follows = {} /\ invited = {} /\ asked = {} /\ closed = {}
  /\ owed = {}

Open ==
  /\ ~open
  /\ open' = TRUE
  /\ UNCHANGED <<members, follows, invited, asked, closed, owed>>

\* The hub stops and asks everybody to leave.
Shut ==
  /\ open
  /\ open' = FALSE
  /\ asked' = asked \cup members
  /\ UNCHANGED <<members, follows, invited, closed, owed>>

Invite(p) ==
  /\ invited' = invited \cup {p}
  /\ UNCHANGED <<open, members, follows, asked, closed, owed>>

Ask(p) ==
  /\ asked' = asked \cup {p}
  /\ UNCHANGED <<open, members, follows, invited, closed, owed>>

Join(w, p) ==
  /\ Free(w)
  /\ p \in invited \ members
  /\ members' = members \cup {p}
  /\ owed' = owed \cup {<<w, p, "onConnect">>}
  /\ UNCHANGED <<open, follows, invited, asked, closed>>

Leave(w, p) ==
  /\ Free(w)
  /\ p \in asked \cap members
  /\ members' = members \ {p}
  /\ follows' = {f \in follows : f[1] # p}
  /\ owed' = owed \cup {<<w, p, "close">>}
  /\ UNCHANGED <<open, invited, asked, closed>>

Greet(w, p) ==
  /\ Pay(w, p, "onConnect", {})
  /\ UNCHANGED <<open, members, follows, invited, asked, closed>>

ClosePeer(w, p) ==
  /\ Pay(w, p, "close", {<<w, p, "onDisconnect">>})
  /\ closed' = closed \cup {p}
  /\ UNCHANGED <<open, members, follows, invited, asked>>

Part(w, p) ==
  /\ p \in closed
  /\ Pay(w, p, "onDisconnect", {})
  /\ UNCHANGED <<open, members, follows, invited, asked, closed>>

\* An adapter closes its peer itself.
CloseOwn(p) ==
  /\ closed' = closed \cup {p}
  /\ UNCHANGED <<open, members, follows, invited, asked, owed>>

Follow(f) ==
  /\ f \in Permitted
  /\ follows' = follows \cup {f}
  /\ UNCHANGED <<open, members, invited, asked, closed, owed>>

Unfollow(f) ==
  /\ f \in follows
  /\ follows' = follows \ {f}
  /\ UNCHANGED <<open, members, invited, asked, closed, owed>>

Next ==
  \/ Open \/ Shut
  \/ \E p \in Peers : Invite(p) \/ Ask(p) \/ CloseOwn(p)
  \/ \E w \in Workers, p \in Peers :
       Join(w, p) \/ Leave(w, p) \/ Greet(w, p) \/ ClosePeer(w, p) \/ Part(w, p)
  \/ \E f \in Permitted : Follow(f)
  \/ \E f \in follows : Unfollow(f)

Spec == Init /\ [][Next]_state

=============================================================================
