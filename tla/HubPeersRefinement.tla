------------------------- MODULE HubPeersRefinement -------------------------
(***************************************************************************)
(* HubPeers implements PeerRegistry: the queues, the fallbacks of a full   *)
(* queue, the loop and its deferred shutdown do no more than the abstract  *)
(* registry allows.  HubProofs proves it.                                  *)
(***************************************************************************)
EXTENDS HubPeers

\* The duties of a goroutine are the places it passes after a change of
\* hub.peers; the pairs followed are those of the index, which publishers read.
Owed == {<<a, arg[a], pc[a]>> :
           a \in {b \in Agents : pc[b] \in {"onConnect", "close", "onDisconnect"}}}
Follows == {f \in Peers \X Channels : f[1] \in Subscribers(f[2])}
Invited == {p \in Peers : adds[p] > 0}
Asked == {p \in Peers : removes[p] > 0 \/ \E r \in Runners : p \in snapshot[r]}
Permitted == {f \in Peers \X Channels : MaySubscribe(f[1], f[2])}

Registry == INSTANCE PeerRegistry WITH
  Workers <- Agents,
  open <- running,
  members <- peers,
  follows <- Follows,
  invited <- Invited,
  asked <- Asked,
  owed <- Owed

\* Whatever goroutines, queues and shutdowns do, the peers see the registry
\* of PeerRegistry: nobody joins uninvited or leaves unasked, a peer leaves
\* with its subscriptions in one step, each change is reported by the hook
\* its goroutine owes, and OnDisconnect finds the peer closed.
ImplementsRegistry == Registry!Spec

=============================================================================
